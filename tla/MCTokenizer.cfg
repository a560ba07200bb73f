SPECIFICATION FairSpec
CONSTANTS
  MaxLen = 4
  Texts <- MCTexts
  MaxPeek = 2
INVARIANT TypeOK
INVARIANT BufferIsNextTokens
PROPERTY LookaheadIsTransparent
PROPERTY CallsReturn
