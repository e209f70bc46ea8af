SPECIFICATION Spec
CONSTANTS
  k1 = k1
  k2 = k2
  k3 = k3
  u1 = u1
  u2 = u2
  Elements <- MCElements
  Urls = {u1, u2}
  KeyOf <- MCKeyOf
  n1 = n1
  d1 = d1
  d2 = d2
  r1 = r1
  Data = {d1, d2, r1}
  Signable = {d1, d2}
  Nodes = {n1}
  NodeOf <- MCNodeOf
  Senders = {a1}
  Resolver = resolver
  Values = {v1, v2}
  Clients = {c1, c2}
  SignerLists <- MCSignerLists
  InitialSigners <- MCInitialSigners
  InitialUrl = u1
  Timeouts <- MCTimeouts
  InitialTimeout = 1
  TTL = 1
  MaxTime = 2
  MaxChanges = 2
  MaxWrites = 1
SYMMETRY MCSymmetry
INVARIANTS
  TypeOK
  SignersAreConsistent
  AcceptedWasStored
PROPERTIES
  AcceptedIsVouchedFor
  ImplementsSignerSet
CHECK_DEADLOCK FALSE
