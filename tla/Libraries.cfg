SPECIFICATION LibrariesSpec
CONSTANTS
  Client = {c1, c2}
  Key = {1, 2, 3}
  Buckets <- AllBuckets
  Limit = 1
  MaxSize = 2
  ListPageSize = 2
  BatchSize = 2
  MaxForeign = 1
  MaxFaults = 1
  MaxOps = 1
  CipherKey = {k1, k2}
  Query = {q1, q2}
  Position = {0, 1, 2}
  MaxOffset = 2
  Sizes <- PageSizes
  MaxIssued = 3
  DefaultPageSize = 1
  MaxPageSize = 2
  NoToken = NoToken
  Yaml = {1, 2, 3}
  FileName <- GoFile
  Functions <- FunctionsOf
  Catalogues <- SomeCatalogues
  NoFile = NoFile
  MaxEdits = 2
  MaxRuns = 2
  NoEnv = NoEnv
  Address = {a1, a2}
  Blank = Blank
  DefaultRetries = 3
  DefaultMinBackoff = 8
  DefaultMaxBackoff = 512
  DefaultConns = 12
  Invalid = Invalid
  KeyCount = 2
  Loader = {l1, l2}
  Initer = {i1, i2}
  Scanner = {s1}
  MaxConfigs = 3
  users = users  orders = orders  l1 = l1  l2 = l2  i1 = i1  i2 = i2  s1 = s1
  List <- Mixed
  Nil = Nil
  Service <- TwoServices
  Other = Other
  Every = Every
  Handlers <- Methods
  MaxCalls = 3
  MaxRefusals = 2
INVARIANTS WalkListsOnce LimitHolds RemoveTellsTheTruth AnswersContinueTheirList PackageIsConsistent ServiceLoadsItsOwn NormalFormsAreStable NoLoadIsLost CallsGoOn NilMeansServed
CHECK_DEADLOCK FALSE
