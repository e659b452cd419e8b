\* One operation at a time, failures, kills and changes of the secret.
CONSTANTS
  Clients = {c1, c2}
  Changes = {x1, x2, x3}
  Files = {f1, f2, f3, f4}
  Secrets = {k1, k2}
  Serial = TRUE
  MayFail = TRUE
  MayRekey = TRUE
  None = None
SPECIFICATION Spec
SYMMETRY Symmetry
INVARIANTS
  NeverTorn
  SavedStays
PROPERTIES
  KeyStays
  AtomicSpec
