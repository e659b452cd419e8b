\* Liveness: two requests change two schedules.
CONSTANTS
  Schedules = {s1, s2}
  Handlers = {h1, h2}
  Jobs = {j1}
  EntryIds = {e1, e2, e3}
  Runs = {r1}
  Cli = FALSE
  MayCancel = TRUE
  MayExpire = TRUE
  MayStop = FALSE
  None = None
SPECIFICATION FairSpec
CHECK_DEADLOCK FALSE
PROPERTIES
  EveryRunEnds
  WebChangeTakesEffect
