SPECIFICATION FairSpec
CONSTANTS
  Kinds <- AllKinds
  EventCap = 2
  MaxChanges = 5
  MaxFailures = 1
INVARIANTS NothingLostInNext
PROPERTIES HeldNeverGoesBack ChangesArrive CallbacksEnd CloseEndsWatch
CHECK_DEADLOCK FALSE
