SPECIFICATION FairSpec
CONSTANTS
  Message = {m1, m2, m3}
  Malformed = {m3}
  Poison = {m2}
  Worker = {w1}
  Closable = {}
  MaxFaults = 1
PROPERTY StoredMessagesSettle
CHECK_DEADLOCK FALSE
