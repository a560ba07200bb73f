SPECIFICATION Spec
CONSTANTS
  Functions <- LeaveFunctions
  MaxTests = 3
  MaxNesting = 2
INVARIANT CompiledFunctionIsJitted
CHECK_DEADLOCK FALSE
