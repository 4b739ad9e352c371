SPECIFICATION Spec
CONSTANTS
  p1 = p1  p2 = p2  orders = orders  audit = audit
  created = created  paid = paid  shipped = shipped  i1 = i1  i2 = i2
  Blank = Blank  Nil = Nil  Unsendable = Unsendable
  Process = {p1, p2}
  Name = {orders, audit}
  Subject = {created, paid, shipped}
  Id = {i1, i2}
  Deployments <- AllDeployments
  MaxStarts = 2
  MaxFaults = 1
  MaxCalls = 2
  MaxTunings = 1
  MaxWindows = 1
INVARIANTS TypeOK AgreedStreamsAreBound StoredInOrder AcceptedIsStored StoredOncePerWindow
PROPERTY SettingsGoBackOnlyByRace
CHECK_DEADLOCK FALSE
