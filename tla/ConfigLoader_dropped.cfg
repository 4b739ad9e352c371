SPECIFICATION Spec
CONSTANTS
  s1 = s1  s2 = s2  w1 = w1  w2 = w2  x = x  y = y  a = a  b = b
  Path = {x}
  Value = {a}
  None = None
  Bad = Bad
  Source = {s1}
  Given <- NoGiven
  Flaky = {}
  Silent = {}
  Unwatchable = {}
  Caller = {c1}
  Watcher = {w1}
  Watches <- OnlyX
  InitialContent <- AllEmpty
  QueueCap = 2
  ClockSteps <- Strict
  MaxChanges = 2
  MaxCalls = 2
INVARIANT IdleWatchersReceivedNewest
CHECK_DEADLOCK FALSE
