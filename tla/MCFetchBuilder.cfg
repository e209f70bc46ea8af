SPECIFICATION Spec
CONSTANTS
  zero = zero
  one = one
  Words <- MCWords
  Zero = zero
  Long <- MCLong
  Unpadded <- MCUnpadded
  TooShort = {}
  Operands = 4
  WordLength = 4
  MaxCommands = 2
  MaxConstants = 4
  MaxCalls = 8
INVARIANTS
  TypeOK
  FetchedDecodes
  FetchedIffFits
CHECK_DEADLOCK FALSE
