SPECIFICATION FairSpec
CONSTANTS
  Message = {m1}
  Malformed = {}
  Poison = {}
  Worker = {w1, w2}
  Closable = {w1}
  MaxFaults = 0
PROPERTIES StoredMessagesSettle CloseEndsLoops
CHECK_DEADLOCK FALSE
