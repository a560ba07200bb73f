SPECIFICATION Spec
CONSTANTS
  Functions <- StraightFunctions
  MaxTests = 3
  MaxNesting = 2
INVARIANT MeansWhatCMeans
CHECK_DEADLOCK FALSE
