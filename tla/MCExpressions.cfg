SPECIFICATION Spec
CONSTANTS
    Variables <- MCVariables
    Functions <- MCFunctions
    Members   <- MCMembers
    Names     <- MCNames
    InitTypes <- MCInitTypes
    DefTypes  <- MCDefTypes
    Renamed   <- MCRenamed
    MaxNodes = 5
    MaxOpen  = 4
INVARIANTS
    TypeOK
    TypeSound
    AddressesExist
    FaultsAreReal
CHECK_DEADLOCK FALSE
