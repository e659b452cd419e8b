\* One client, all services, nothing fails: nothing leaks.
CONSTANTS
  Apps = {a1, a2}
  Services = {"postgres", "redis", "rabbitmq", "aistor", "mongodb", "signoz"}
  Clients = {c1}
  Kinds = {"setup", "add", "remove", "detach", "reconcile", "encrypt"}
  MaxRequests = 2
  ExecMayFail = FALSE
  MayCrash = FALSE
  MayLose = FALSE
  None = None
SPECIFICATION Spec
SYMMETRY Symmetry
INVARIANTS
  NoOrphans
  RemoveCleans
PROPERTIES
  ShelfSpec
