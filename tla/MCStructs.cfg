SPECIFICATION Spec
CONSTANTS
    SizeOf    <- MCSizeOf
    AlignOf   <- MCAlignOf
    Functions <- MCFunctions
    ArraySizes = {0, 2}
    DataSizes  = {4, 64}
    AggregateAlignment = 8
    MaxStructs = 2
    MaxMembers = 3
    MaxWrites  = 2
    MaxParts   = 2
INVARIANTS
    TypeOK
    OffsetsExact
    WritesStayInside
    NamesAgree
    PackedSizeExact
    RefusedForBooleans
    CopiedBack
    LastCopyWins
    OnlyFunctionsLeakPointers
CHECK_DEADLOCK FALSE
