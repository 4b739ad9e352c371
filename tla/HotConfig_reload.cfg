SPECIFICATION FairHotSpec
CONSTANTS
  Path = {x}
  Value = {a}
  None = None
  Bad = Bad
  Run = run
  Client = {w1}
  Watcher = {run, w1}
  Watches <- WatchAll
  Loading = {l1}
  Syncing = {y1}
  Editing = TRUE
  MaxVersion = 3
INVARIANTS HotTypeOK RunKeepsUp
PROPERTIES ViewNeverGoesBack CloseEndsRun
CHECK_DEADLOCK FALSE
