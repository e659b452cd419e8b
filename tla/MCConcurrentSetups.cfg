\* Two clients whose steps interleave, no removal.
CONSTANTS
  Apps = {a1}
  Services = {"redis", "rabbitmq"}
  Clients = {c1, c2}
  Kinds = {"setup", "add", "reconcile", "encrypt"}
  MaxRequests = 3
  ExecMayFail = TRUE
  MayCrash = TRUE
  MayLose = FALSE
  None = None
SPECIFICATION Spec
SYMMETRY Symmetry
INVARIANTS
  ConcurrentSetupsUsable
