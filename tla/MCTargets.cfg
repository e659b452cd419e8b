\* Two apps and two environments whose names collide.
CONSTANTS
  Names <- TheNames
  Stems <- TheStems
  Envs <- TheEnvs
  Join <- TheJoin
  Inputs <- TheInputs
  Blank = Blank
  Bad = Bad
  Defaults <- TheDefaults
  MaxApps = 3
  None = None
SPECIFICATION Spec
INVARIANTS
  ReattachKeeps
  SiblingsApart
