SPECIFICATION FairSpec
CONSTANTS
  node = node
  below = below
  eth = eth
  twitter = twitter
  value = value
  other = other
  alice = alice
  bob = bob
  ours = ours
  foreign = foreign
  Nodes = {node, below}
  ParentOf <- MCParentOf
  NoNode = none
  Accounts = {alice, bob}
  Ours = ours
  Foreign = foreign
  AddressKeys = {eth}
  TextKeys = {twitter, "ABI"}
  Values = {value, other, empty, null}
  Empty = empty
  Null = null
  NoValue = missing
  NoAccount = nobody
  Jobs = {j1, j2}
  Scripts <- MCScripts
  Queries = {q}
  FirstRegistry <- MCFirstRegistry
  MaxFaults = 1
  MaxMoves = 1
INVARIANTS
  TypeOK
  RegisteredIsComplete
  AnswersArePrefixes
  DoubleAgrees
PROPERTIES
  EveryQueryEnds
CHECK_DEADLOCK FALSE
