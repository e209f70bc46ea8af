SPECIFICATION FairSpec
CONSTANTS
  node = node
  key = key
  long = long
  twenty = twenty
  oldRegistrar = oldRegistrar
  newRegistrar = newRegistrar
  Words <- MCWords
  Zero = 0
  Long <- MCLong
  Unpadded <- MCUnpadded
  TooShort = {}
  Requests = {c1, c2}
  Targets = {resolver, oldRegistrar, newRegistrar, wrapper}
  Resolvers = {resolver}
  Registrars = {oldRegistrar, newRegistrar}
  Wrapper = wrapper
  ClientResolver = resolver
  Nodes = {node}
  Keys = {key}
  CoinTypes = {}
  Values = {long}
  AddressOf <- MCAddressOf
  Prices <- MCPrices
  FirstTargets <- MCFirstTargets
  Questions <- MCQuestions
  Readers = {c1}
  Registrants = {c1, c2}
  Durations = {1}
  Expiries = 2
  MaxVersion = 1
  MaxRetargets = 1
  MaxBlocks = 3
  MaxMishaps = 1
INVARIANTS
  TypeOK
  RegisteredOwns
PROPERTIES
  AcceptedWasCurrent
  AnswersWereCurrent
  RevertsHaveCause
  RefusedForCause
  EveryReadEnds
CHECK_DEADLOCK FALSE
