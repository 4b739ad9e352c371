SPECIFICATION Spec
CONSTANTS
  s1 = s1  s2 = s2  w1 = w1  w2 = w2  x = x  y = y  a = a  b = b
  Path = {x}
  Value = {a}
  None = None
  Bad = Bad
  Source = {s1, s2}
  Given <- NoGiven
  Flaky = {}
  Silent = {s1}
  Unwatchable = {}
  Caller = {c1}
  Watcher = {}
  Watches <- OnlyX
  InitialContent <- AllA
  QueueCap = 2
  ClockSteps <- Strict
  MaxChanges = 2
  MaxCalls = 2
INVARIANT SyncedSourcesStayInEffect
CHECK_DEADLOCK FALSE
