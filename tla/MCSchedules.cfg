\* One schedule: two requests, two runs, the command line, timeouts, stops, kills.
CONSTANTS
  Schedules = {s1}
  Handlers = {h1, h2}
  Jobs = {j1, j2}
  EntryIds = {e1, e2, e3}
  Runs = {r1, r2}
  Cli = TRUE
  MayCancel = TRUE
  MayExpire = TRUE
  MayStop = TRUE
  None = None
SPECIFICATION Spec
SYMMETRY Symmetry
INVARIANTS
  CronFollowsTable
  RunningIsOwned
  LastStatusIsOfARun
PROPERTIES
  HistoryIsFinal
  PausedDoesNotFire
