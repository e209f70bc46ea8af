SPECIFICATION Spec
CONSTANTS
  n1 = n1
  n2 = n2
  alice = alice
  bob = bob
  wrapper = wrapper
  multisig = multisig
  m1 = m1
  m2 = m2
  nobody = nobody
  v1 = v1
  v2 = v2
  absent = absent
  r1 = r1
  r2 = r2
  Nodes = {n1, n2}
  Fields <- MCFields
  FieldOrder <- MCFieldOrder
  Values <- MCValues
  Absent = absent
  InOrder = "in order"
  Requests = {r1, r2}
  Accounts <- MCAccounts
  Wrapper = wrapper
  Multisig = multisig
  Members = {m1, m2}
  Nobody = nobody
  Scripts <- NodesScripts
  Reserved = {"ABI"}
  MaxCalls = 2
  MaxFaults = 0
  MaxMoves = 1
  Holders <- AccountHolders
  Teams <- OneTeam
SYMMETRY Symmetry
INVARIANTS
  StubPrecedesRegistration
  SignedHashCoversOwnWrites
PROPERTIES
  ImplementsRecordStore
CHECK_DEADLOCK FALSE
