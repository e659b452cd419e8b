\* Two writers share the name of the temporary file.
CONSTANTS
  Clients = {c1, c2}
  Changes = {x1, x2}
  Files = {f1, f2, f3, f4}
  Secrets = {k1, k2}
  Serial = FALSE
  MayFail = FALSE
  MayRekey = FALSE
  None = None
SPECIFICATION Spec
INVARIANTS
  NeverTorn
