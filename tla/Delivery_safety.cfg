SPECIFICATION Spec
CONSTANTS
  Message = {m1}
  Malformed = {}
  Poison = {}
  Worker = {w1, w2}
  Closable = {w1}
  MaxFaults = 1
INVARIANTS OneVerdict VerdictsAreDecided OneHandlerAfterClose ClosedQueueIsQuiet
PROPERTY WorkQueueSpec
CHECK_DEADLOCK FALSE
