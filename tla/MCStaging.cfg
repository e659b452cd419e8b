SPECIFICATION Spec
CONSTANTS
  Apps = {a, b}
  Objects = {k}
  Slots = {s1, s2}
SYMMETRY Symmetry
INVARIANTS
  BackupComplete
  RestoreExact
  CleanedUp
