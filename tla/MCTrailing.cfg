SPECIFICATION Spec
CONSTANTS
  Words <- MCWords
  Names <- MCNames
  Swizzles <- MCSwizzles
  Openings <- AtStart
  MaxTokens = 3
INVARIANT AcceptedIsRead
CHECK_DEADLOCK FALSE
