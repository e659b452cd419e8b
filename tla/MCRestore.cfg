SPECIFICATION Spec
CONSTANTS
  k = k
  l = l
  Apps = {a, b}
  NoApp = NoApp
  Services <- AllServices
  Items = {k, l}
  RedisType <- SetAndList
  Workers = {cli, web}
  CommandLine = {cli}
  Requests <- AllOrOne
  Setups <- OneOrTwo
  MaxNow = 4
  MaxRestores = 2
SYMMETRY Symmetry
INVARIANTS
  RestoreDelivers
  
  RegisteredUsable
  NothingAfterRemoval
PROPERTIES
  PlanKept
CHECK_DEADLOCK FALSE
