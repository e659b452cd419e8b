\* One client that may be killed, volumes wiped at any moment, redis restarts.
CONSTANTS
  Apps = {a1}
  Services = {"redis", "rabbitmq", "mongodb"}
  Clients = {c1}
  Kinds = {"setup", "add", "remove", "reconcile"}
  MaxRequests = 2
  ExecMayFail = TRUE
  MayCrash = TRUE
  MayLose = TRUE
  None = None
SPECIFICATION Spec
INVARIANTS
  RegisteredUsable
  ReconcileRestores
  LeaksAreNoticed
PROPERTIES
  ShelfSpec
