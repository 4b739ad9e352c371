SPECIFICATION Spec
CONSTANTS
  s1 = s1  s2 = s2  w1 = w1  w2 = w2  x = x  y = y  a = a  b = b
  Path = {x}
  Value = {a}
  None = None
  Bad = Bad
  Source = {s1, s2}
  Given <- NoGiven
  Flaky = {s1}
  Silent = {}
  Unwatchable = {}
  Caller = {c1}
  Watcher = {}
  Watches <- OnlyX
  InitialContent <- AllEmpty
  QueueCap = 1
  ClockSteps <- Strict
  MaxChanges = 3
  MaxCalls = 2
INVARIANTS NoSilentSourceLoss ViewIsMergeOfSets
CHECK_DEADLOCK FALSE
