\* One client, commands and saves that fail, clients that are killed.
CONSTANTS
  Apps = {a1, a2}
  Services = {"postgres", "mongodb"}
  Clients = {c1}
  Kinds = {"setup", "add", "remove", "reconcile"}
  MaxRequests = 2
  ExecMayFail = TRUE
  MayCrash = TRUE
  MayLose = FALSE
  None = None
SPECIFICATION Spec
SYMMETRY Symmetry
INVARIANTS
  RegisteredUsable
  SetupDelivers
  LeaksAreNoticed
PROPERTIES
  OnlyTargetChanges
  SetupNeverReplaces
  ShelfSpec
