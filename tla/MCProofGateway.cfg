SPECIFICATION FairSpec
CONSTANTS
  zero = zero
  one = one
  ver = ver
  txt = txt
  short = short
  head1 = head1
  head2 = head2
  plain = plain
  low = low
  thin = thin
  rest = rest
  Words <- MCWords
  Zero = zero
  Long <- MCLong
  Unpadded <- MCUnpadded
  TooShort = {thin}
  Requests = {r1, r2}
  Programs <- MCPrograms
  Contents <- MCContents
  MaxNodes = 2
  MaxFaults = 1
INVARIANTS
  TypeOK
  ServedPartsMatch
PROPERTIES
  AcceptedIsFreshSnapshot
  OnlyFaultsRevert
  EveryRequestEnds
CHECK_DEADLOCK FALSE
