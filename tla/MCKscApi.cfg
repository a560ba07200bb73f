SPECIFICATION Spec
CONSTANTS
  sin = sin
  f = f
  g = g
  m1 = m1
  m2 = m2
  Names <- MCNames
  Intrinsics <- MCIntrinsics
  Modules <- MCModules
  Shared = Shared
  None = None
  MaxDecls = 3
  MaxCalls = 1
  MaxSessions = 2
SYMMETRY Symmetric
INVARIANT TypeOK
INVARIANT LinksAreResolved
INVARIANT FailuresExplained
INVARIANT HandlesAreDefinitions
PROPERTY SharedIsFixed
CHECK_DEADLOCK FALSE
