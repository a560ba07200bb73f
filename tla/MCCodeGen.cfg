SPECIFICATION FairSpec
CONSTANTS
  Functions <- MCFunctions
  MaxTests = 4
  MaxNesting = 2
INVARIANT TypeOK
INVARIANT VerifierAccepts
INVARIANT NoBlockLost
INVARIANT CompiledMeaning
INVARIANT ReturnIsInitialised
PROPERTY RunEnds
CHECK_DEADLOCK FALSE
