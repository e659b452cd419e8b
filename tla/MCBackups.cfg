\* One service, three seconds, a day of two: two jobs of any kind, and one incident.
CONSTANTS
  app = app
  postgres = postgres
  Apps <- TheApps
  Services <- OneService
  Has <- HasAll
  Workers = {w1, w2}
  Kinds <- AnyKind
  Retentions <- Both
  S3 = TRUE
  MayKill = TRUE
  Day = 2
  MaxNow = 2
  MaxIncidents = 1
SPECIFICATION Spec
SYMMETRY Symmetry
INVARIANTS
  OnDiskWhole
  QuotaMet
  MirrorComplete
  MirrorFollows
PROPERTIES
  LastBackupStays
