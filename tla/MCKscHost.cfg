SPECIFICATION HostSpec
CONSTANTS
  sin = sin
  f = f
  g = g
  m1 = m1
  m2 = m2
  Names <- MCNames
  Intrinsics <- MCIntrinsics
  Modules <- MCModules
  Wrapped <- MCWrapped
  Shared = Shared
  None = None
  MaxDecls = 2
  MaxCalls = 1
  MaxSessions = 1
SYMMETRY Symmetric
INVARIANT HostTypeOK
INVARIANT AbortsExplained
INVARIANT CodeIsLinked
PROPERTY AddressesStay
CHECK_DEADLOCK FALSE
