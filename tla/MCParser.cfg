SPECIFICATION FairSpec
CONSTANTS
  Words <- MCWords
  Names <- MCNames
  Swizzles <- MCSwizzles
  Openings <- MCOpenings
  MaxTokens = 3
INVARIANT TypeOK
INVARIANT NothingFreedTwice
INVARIANT AcceptedLeaksNothing
INVARIANT AssertionsHold
INVARIANT CurrentFunctionIsOpen
PROPERTY ErrorsAreFinal
PROPERTY ParseEnds
CHECK_DEADLOCK FALSE
