SPECIFICATION Spec
CONSTANTS
  n1 = n1
  n2 = n2
  alice = alice
  bob = bob
  wrapper = wrapper
  multisig = multisig
  m1 = m1
  m2 = m2
  nobody = nobody
  v1 = v1
  v2 = v2
  absent = absent
  r1 = r1
  r2 = r2
  Nodes = {n1}
  Fields <- MCFields
  FieldOrder <- MCFieldOrder
  Values <- MCValues
  Absent = absent
  InOrder = "in order"
  Requests = {r1}
  Accounts <- MCAccounts
  Wrapper = wrapper
  Multisig = multisig
  Members = {m1, m2}
  Nobody = nobody
  Scripts <- OwnerScripts
  Reserved = {"ABI"}
  MaxCalls = 2
  MaxFaults = 1
  MaxMoves = 2
  Holders <- MovingHolders
  Teams <- MovingTeams
INVARIANTS
  OwnerComesFromChain
  SignedHashCoversOwnWrites
PROPERTY WritesWereEntitled
CHECK_DEADLOCK FALSE
