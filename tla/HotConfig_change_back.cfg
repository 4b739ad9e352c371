SPECIFICATION HotSpec
CONSTANTS
  Path = {x}
  Value = {a}
  None = None
  Bad = Bad
  Run = run
  Client = {w1}
  Watcher = {run, w1}
  Watches <- WatchAll
  Loading = {}
  Syncing = {}
  Editing = FALSE
  MaxVersion = 4
PROPERTY ReportedChangesAreReturned
CHECK_DEADLOCK FALSE
