------------------------ MODULE DatabaseResolverProofs ------------------------
(***************************************************************************)
(* What the operations of EnumerableSet do to a set whose array and        *)
(* mapping are inverse to each other; then invariants of DatabaseResolver, *)
(* and its refinement of SignerSet, for every set of keys, gateways,       *)
(* clients and data and every bound.                                       *)
(***************************************************************************)
EXTENDS DatabaseResolver, TLAPS

-----------------------------------------------------------------------------
(* The set *)

\* The two views of a consistent set, the list and the membership test, are
\* the same set of addresses (signers() and isSigner()).
LEMMA ListedIsContained ==
  ASSUME NEW s \in Sets, Consistent(s)
  PROVE  Listed(s) = {e \in Elements : Contains(s, e)}
<1>1. ASSUME NEW i \in 1..Len(s.values)
      PROVE  s.values[i] \in Elements /\ Contains(s, s.values[i])
  BY <1>1 DEF Sets, Consistent, Contains
<1>2. ASSUME NEW e \in Elements, Contains(s, e)
      PROVE  s.index[e] \in 1..Len(s.values) /\ s.values[s.index[e]] = e
  BY <1>2 DEF Consistent
<1> QED
  BY <1>1, <1>2 DEF Listed

\* The set that a contract starts with is consistent and holds nothing.
LEMMA EmptySetProperties ==
  /\ EmptySet \in Sets
  /\ Consistent(EmptySet)
  /\ \A e \in Elements : ~ Contains(EmptySet, e)
<1>1. EmptySet.values = <<>> /\ EmptySet.index = [e \in Elements |-> 0]
  BY DEF EmptySet
<1>2. EmptySet \in Sets
  BY DEF EmptySet, Sets
<1> QED
  BY <1>1, <1>2 DEF Consistent, Contains

\* add keeps a set consistent and makes one address a member, whether it is
\* one already or not.
LEMMA AddProperties ==
  ASSUME NEW s \in Sets, Consistent(s), NEW e \in Elements
  PROVE  /\ Add(s, e) \in Sets
         /\ Consistent(Add(s, e))
         /\ \A x \in Elements : Contains(Add(s, e), x) <=> Contains(s, x) \/ x = e
<1>1. CASE Contains(s, e)
  BY <1>1 DEF Add
<1>2. CASE ~ Contains(s, e)
  <2> DEFINE n == Len(s.values)
             t == Add(s, e)
  <2>1. /\ s.values \in Seq(Elements) /\ s.index \in [Elements -> Nat]
        /\ n \in Nat /\ s.index[e] = 0
    BY <1>2 DEF Sets, Contains
  <2>2. /\ t.values = Append(s.values, e)
        /\ t.index = [s.index EXCEPT ![e] = n + 1]
        /\ t \in Sets
    BY <1>2, <2>1 DEF Add, Sets
  <2>3. /\ Len(t.values) = n + 1
        /\ \A i \in 1..n : t.values[i] = s.values[i] /\ s.values[i] \in Elements
        /\ t.values[n + 1] = e
    BY <2>1, <2>2
  <2>4. \A x \in Elements : t.index[x] = IF x = e THEN n + 1 ELSE s.index[x]
    BY <2>1, <2>2
  <2> HIDE DEF t
  <2>5. \A i \in 1..n : s.values[i] # e /\ s.index[s.values[i]] = i
    BY <1>2, <2>1, <2>3 DEF Consistent, Contains
  <2>6. \A i \in 1..Len(t.values) : t.index[t.values[i]] = i
    <3> SUFFICES ASSUME NEW i \in 1..Len(t.values) PROVE t.index[t.values[i]] = i
      OBVIOUS
    <3>1. CASE i = n + 1
      BY <3>1, <2>3, <2>4
    <3>2. CASE i \in 1..n
      BY <3>2, <2>3, <2>4, <2>5
    <3> QED  BY <3>1, <3>2, <2>1, <2>3
  <2>7. \A x \in Elements : Contains(t, x) <=> Contains(s, x) \/ x = e
    <3> SUFFICES ASSUME NEW x \in Elements
                 PROVE  t.index[x] # 0 <=> s.index[x] # 0 \/ x = e
      BY Zenon DEF Contains
    <3> QED  BY <2>1, <2>4
  <2>8. ASSUME NEW x \in Elements, Contains(t, x)
        PROVE  t.index[x] \in 1..Len(t.values) /\ t.values[t.index[x]] = x
    <3>1. CASE x = e
      BY <3>1, <2>1, <2>3, <2>4
    <3>2. CASE x # e
      <4>1. s.index[x] \in 1..n /\ s.values[s.index[x]] = x
        BY <3>2, <2>7, <2>8 DEF Consistent
      <4> QED  BY <3>2, <4>1, <2>1, <2>3, <2>4
    <3> QED  BY <3>1, <3>2
  <2>9. Consistent(t)
    BY <2>6, <2>8 DEF Consistent
  <2> QED  BY <2>2, <2>7, <2>9 DEF t
<1> QED
  BY <1>1, <1>2

\* remove keeps a set consistent, though it moves the last value, and makes
\* one address no member.
LEMMA RemoveProperties ==
  ASSUME NEW s \in Sets, Consistent(s), NEW e \in Elements
  PROVE  /\ Remove(s, e) \in Sets
         /\ Consistent(Remove(s, e))
         /\ \A x \in Elements : Contains(Remove(s, e), x) <=> Contains(s, x) /\ x # e
<1>1. CASE ~ Contains(s, e)
  BY <1>1 DEF Remove
<1>2. CASE Contains(s, e)
  <2> DEFINE n == Len(s.values)
             k == s.index[e]
             last == s.values[n]
             t == Remove(s, e)
  <2>1. /\ s.values \in Seq(Elements) /\ s.index \in [Elements -> Nat]
        /\ n \in Nat /\ k \in 1..n /\ s.values[k] = e
    BY <1>2 DEF Sets, Consistent
  <2>2. \A i \in 1..n : s.values[i] \in Elements /\ s.index[s.values[i]] = i
    BY <2>1 DEF Consistent
  <2>3. last \in Elements /\ s.index[last] = n
    BY <2>1, <2>2
  <2>4. /\ t.values = [i \in 1..(n - 1) |-> IF i = k THEN last ELSE s.values[i]]
        /\ t.index = [[s.index EXCEPT ![last] = k] EXCEPT ![e] = 0]
        /\ t = [values |-> t.values, index |-> t.index]
    BY <1>2 DEF Remove
  <2> HIDE DEF t, last
  <2>5. /\ t.values \in Seq(Elements) /\ Len(t.values) = n - 1
        /\ \A i \in 1..(n - 1) : t.values[i] = IF i = k THEN last ELSE s.values[i]
    <3>1. \A i \in 1..(n - 1) : (IF i = k THEN last ELSE s.values[i]) \in Elements
      BY <2>1, <2>2, <2>3
    <3>2. n - 1 \in Nat
      BY <2>1
    <3> QED  BY <2>4, <3>1, <3>2
  <2>6. /\ t.index \in [Elements -> Nat]
        /\ \A x \in Elements :
             t.index[x] = IF x = e THEN 0 ELSE IF x = last THEN k ELSE s.index[x]
    BY <2>1, <2>3, <2>4
  <2>7. t \in Sets
    BY <2>4, <2>5, <2>6 DEF Sets
  <2>8. \A i \in 1..Len(t.values) : t.index[t.values[i]] = i
    <3> SUFFICES ASSUME NEW i \in 1..(n - 1) PROVE t.index[t.values[i]] = i
      BY <2>5
    <3>1. CASE i = k
      <4>1. last # e
        BY <3>1, <2>1, <2>3
      <4> QED  BY <3>1, <4>1, <2>3, <2>5, <2>6
    <3>2. CASE i # k
      <4>1. /\ t.values[i] = s.values[i] /\ s.values[i] \in Elements
            /\ s.index[s.values[i]] = i /\ i # n
        BY <3>2, <2>1, <2>2, <2>5
      <4>2. s.values[i] # e /\ s.values[i] # last
        BY <3>2, <4>1, <2>1, <2>3
      <4> QED  BY <4>1, <4>2, <2>6
    <3> QED  BY <3>1, <3>2
  <2>9. \A x \in Elements : Contains(t, x) <=> Contains(s, x) /\ x # e
    <3> SUFFICES ASSUME NEW x \in Elements
                 PROVE  t.index[x] # 0 <=> s.index[x] # 0 /\ x # e
      BY Zenon DEF Contains
    <3>1. k # 0
      BY <2>1
    <3>2. x = last /\ x # e => s.index[x] # 0
      BY <2>1, <2>3
    <3> QED  BY <3>1, <3>2, <2>6
  <2>10. ASSUME NEW x \in Elements, Contains(t, x)
         PROVE  t.index[x] \in 1..Len(t.values) /\ t.values[t.index[x]] = x
    <3>1. x # e /\ s.index[x] \in 1..n /\ s.values[s.index[x]] = x
      BY <2>9, <2>10 DEF Consistent
    <3>2. CASE x = last
      <4>1. k # n
        BY <3>1, <3>2, <2>1 DEF last
      <4>2. t.index[x] = k /\ k \in 1..(n - 1)
        BY <3>1, <3>2, <4>1, <2>1, <2>6
      <4> QED  BY <4>2, <3>2, <2>5
    <3>3. CASE x # last
      <4>1. s.index[x] # n /\ s.index[x] # k
        BY <3>1, <3>3, <2>1 DEF last
      <4>2. t.index[x] = s.index[x] /\ t.index[x] \in 1..(n - 1)
        BY <3>1, <3>3, <4>1, <2>1, <2>6
      <4> QED  BY <4>1, <4>2, <3>1, <2>5
    <3> QED  BY <3>2, <3>3
  <2>11. Consistent(t)
    BY <2>8, <2>10 DEF Consistent
  <2> QED  BY <2>7, <2>9, <2>11 DEF t
<1> QED
  BY <1>1, <1>2

-----------------------------------------------------------------------------
(* The resolver *)

ClientState == {NoClient, Refused} \cup Reading \cup Writing \cup Stamped \cup Accepted

\* The call data and the sender of a client that may hand in an answer.
LEMMA CallerTypes ==
  ASSUME TypeOK, NEW c \in Clients, client[c].pc \in {"asked", "signed"}
  PROVE  client[c].data \in Data
<1>1. client[c] \in ClientState
  BY DEF TypeOK, ClientState
<1>2. client[c] \in Reading \cup Stamped
  BY <1>1 DEF ClientState, NoClient, Refused, Writing, Accepted
<1> QED BY <1>2 DEF Reading, Stamped

LEMMA DeferredTypes ==
  ASSUME TypeOK, NEW c \in Clients, client[c].pc \in {"deferred", "posted"}
  PROVE  /\ client[c] \in Writing
         /\ client[c].data \in Data /\ client[c].url \in Urls /\ client[c].sender \in Senders
<1>1. client[c] \in ClientState
  BY DEF TypeOK, ClientState
<1>2. client[c] \in Writing
  BY <1>1 DEF ClientState, NoClient, Refused, Reading, Stamped, Accepted
<1> QED BY <1>2 DEF Writing

LEMMA StampedTypes ==
  ASSUME TypeOK, NEW c \in Clients, client[c].pc = "stamped"
  PROVE  /\ client[c] \in Stamped
         /\ client[c].data \in Data /\ client[c].url \in Urls
         /\ client[c].sender \in Senders /\ client[c].ttl \in Nat
<1>1. client[c] \in ClientState
  BY DEF TypeOK, ClientState
<1>2. client[c] \in Stamped
  BY <1>1 DEF ClientState, NoClient, Refused, Reading, Writing, Accepted
<1> QED BY <1>2 DEF Stamped

LEMMA AcceptedTypes ==
  ASSUME TypeOK, NEW c \in Clients, client[c].pc = "accepted"
  PROVE  client[c].at \in Nat /\ client[c].data \in Data
<1>1. client[c] \in ClientState
  BY DEF TypeOK, ClientState
<1>2. client[c] \in Accepted
  BY <1>1 DEF ClientState, NoClient, Refused, Reading, Writing, Stamped
<1> QED BY <1>2 DEF Accepted

\* A step that changes one client only gives it a state.
LEMMA OneClient ==
  ASSUME TypeOK, NEW c \in Clients, NEW k \in ClientState,
         client' = [client EXCEPT ![c] = k]
  PROVE  client' \in [Clients -> ClientState]
<1>1. client \in [Clients -> ClientState]
  BY DEF TypeOK, ClientState
<1> QED BY <1>1

\* What one turn of the loop does to the set of signers.
LEMMA LoopSigners ==
  ASSUME TypeOK, SignersAreConsistent, Loop
  PROVE  /\ signers' \in Sets /\ Consistent(signers')
         /\ \E e \in Elements :
              \/ \A x \in Elements : Contains(signers', x) <=> Contains(signers, x) \/ x = e
              \/ \A x \in Elements : Contains(signers', x) <=> Contains(signers, x) /\ x # e
         /\ tx' \in [op : {"add", "remove"}, todo : Seq(Elements)]
<1> DEFINE e == Head(tx.todo)
<1>1. /\ tx.op \in {"add", "remove"} /\ tx.todo \in Seq(Elements)
      /\ tx.todo # <<>> /\ signers \in Sets /\ Consistent(signers)
  BY DEF TypeOK, SignersAreConsistent, Loop, Idle
<1>2. e \in Elements /\ Tail(tx.todo) \in Seq(Elements)
  BY <1>1
<1>3. signers' = IF tx.op = "add" THEN Add(signers, e) ELSE Remove(signers, e)
  BY DEF Loop
<1>4. tx' = [tx EXCEPT !.todo = Tail(tx.todo)]
  BY DEF Loop
<1>5. tx' \in [op : {"add", "remove"}, todo : Seq(Elements)]
  BY <1>1, <1>2, <1>4 DEF TypeOK
<1> HIDE DEF e
<1>6. CASE tx.op = "add"
  BY <1>1, <1>2, <1>3, <1>5, <1>6, AddProperties, Zenon
<1>7. CASE tx.op # "add"
  BY <1>1, <1>2, <1>3, <1>5, <1>7, RemoveProperties, Zenon
<1> QED BY <1>6, <1>7

-----------------------------------------------------------------------------
(* Types and the consistency of the set of signers *)

SignersInv == TypeOK /\ SignersAreConsistent

LEMMA SignersInit == Init => SignersInv
<1> SUFFICES ASSUME Init PROVE SignersInv
  OBVIOUS
<1> USE ResolverAssumption
<1>1. signers \in Sets /\ Consistent(signers)
  BY EmptySetProperties DEF Init
<1>2. /\ gatewayUrl \in Urls /\ timeout \in Timeouts
      /\ now \in 0..MaxTime /\ changes \in 0..MaxChanges /\ writes \in 0..MaxWrites
      /\ stored \in [Nodes -> Values] /\ answers \subseteq Answer
  BY DEF Init
<1>3. tx \in [op : {"add", "remove"}, todo : Seq(Elements)]
  BY DEF Init
<1>4. /\ held \in [0..MaxTime -> [Nodes -> SUBSET Values]]
      /\ made \in [0..MaxTime -> SUBSET Data]
  BY <1>2 DEF Init
<1>5. client \in [Clients -> ClientState]
  BY DEF Init, ClientState
<1> QED BY <1>1, <1>2, <1>3, <1>4, <1>5 DEF SignersInv, TypeOK, SignersAreConsistent, ClientState

\* A step that gives one client a state keeps the types of everything else.
LEMMA BecomeTypes ==
  ASSUME SignersInv, NEW c \in Clients, NEW k \in ClientState, Become(c, k),
         answers' \subseteq Answer
  PROVE  SignersInv'
<1>1. client' \in [Clients -> ClientState]
  BY OneClient DEF SignersInv, Become
<1> QED BY <1>1 DEF Become, contract, world, SignersInv, TypeOK, SignersAreConsistent,
                    ClientState

LEMMA SignersStep == SignersInv /\ [Next]_vars => SignersInv'
<1> SUFFICES ASSUME SignersInv, [Next]_vars PROVE SignersInv'
  OBVIOUS
<1> USE ResolverAssumption
<1>1. /\ TypeOK /\ signers \in Sets /\ Consistent(signers)
      /\ gatewayUrl \in Urls /\ timeout \in Timeouts
      /\ tx \in [op : {"add", "remove"}, todo : Seq(Elements)]
      /\ now \in 0..MaxTime /\ changes \in 0..MaxChanges /\ writes \in 0..MaxWrites
      /\ stored \in [Nodes -> Values]
      /\ held \in [0..MaxTime -> [Nodes -> SUBSET Values]]
      /\ made \in [0..MaxTime -> SUBSET Data]
      /\ answers \subseteq Answer
      /\ client \in [Clients -> ClientState]
  BY DEF SignersInv, TypeOK, SignersAreConsistent, ClientState
<1>2. CASE ChangeSigners
  <2>1. /\ changes' \in 0..MaxChanges
        /\ UNCHANGED <<signers, gatewayUrl, timeout, now, stored, writes, held, made, answers, client>>
    BY <1>1, <1>2 DEF ChangeSigners, Change, world
  <2>2. tx' \in [op : {"add", "remove"}, todo : Seq(Elements)]
    BY <1>2 DEF ChangeSigners
  <2> QED BY <1>1, <2>1, <2>2 DEF SignersInv, TypeOK, SignersAreConsistent, ClientState
<1>3. CASE SetGatewayUrl
  BY <1>1, <1>3 DEF SetGatewayUrl, Change, world, SignersInv, TypeOK, SignersAreConsistent,
                    ClientState
<1>4. CASE SetTimeout
  BY <1>1, <1>4 DEF SetTimeout, Change, world, SignersInv, TypeOK, SignersAreConsistent,
                    ClientState
<1>5. CASE Loop
  <2>1. UNCHANGED <<gatewayUrl, timeout, changes, now, stored, writes, held, made, answers, client>>
    BY <1>5 DEF Loop, world
  <2>2. /\ signers' \in Sets /\ Consistent(signers')
        /\ tx' \in [op : {"add", "remove"}, todo : Seq(Elements)]
    BY <1>1, <1>5, LoopSigners DEF SignersAreConsistent
  <2> QED BY <1>1, <2>1, <2>2 DEF SignersInv, TypeOK, SignersAreConsistent, ClientState
<1>6. ASSUME NEW c \in Clients, Lookup(c) PROVE SignersInv'
  <2>1. PICK d \in Data :
          Become(c, [pc |-> "asked", url |-> gatewayUrl, data |-> d, sender |-> Resolver])
    BY <1>6 DEF Lookup
  <2>2. [pc |-> "asked", url |-> gatewayUrl, data |-> d, sender |-> Resolver] \in ClientState
    BY <1>1 DEF ClientState, Reading
  <2> QED BY <1>1, <1>6, <2>1, <2>2, BecomeTypes DEF Lookup, SignersInv
<1>7. ASSUME NEW c \in Clients, AnswerLookup(c) PROVE SignersInv'
  <2>1. Refused \in ClientState
    BY DEF ClientState
  <2> QED BY <1>1, <1>7, <2>1, BecomeTypes DEF AnswerLookup, SignersInv
<1>8. ASSUME NEW c \in Clients, ResolveWithProof(c) PROVE SignersInv'
  <2>1. client[c].data \in Data
    BY <1>1, <1>8, CallerTypes DEF ResolveWithProof
  <2>2. PICK a \in answers : Become(c,
           IF Verifies(a, client[c].data, client[c].sender)
           THEN [pc |-> "accepted", data |-> client[c].data, answer |-> a, at |-> now]
           ELSE Refused)
    BY <1>8 DEF ResolveWithProof
  <2>3. [pc |-> "accepted", data |-> client[c].data, answer |-> a, at |-> now] \in ClientState
    BY <1>1, <2>1, <2>2 DEF Accepted, ClientState
  <2>4. Refused \in ClientState
    BY DEF ClientState
  <2>5. answers' \subseteq Answer
    BY <1>1, <1>8 DEF ResolveWithProof
  <2>6. CASE Verifies(a, client[c].data, client[c].sender)
    BY <1>1, <2>2, <2>3, <2>5, <2>6, BecomeTypes DEF SignersInv, SignersAreConsistent
  <2>7. CASE ~ Verifies(a, client[c].data, client[c].sender)
    BY <1>1, <2>2, <2>4, <2>5, <2>7, BecomeTypes DEF SignersInv, SignersAreConsistent
  <2> QED BY <2>6, <2>7
<1>9. ASSUME NEW c \in Clients, Defer(c) PROVE SignersInv'
  <2>1. PICK d \in Data, u \in Senders : Become(c, Message(d, u, now + timeout))
    BY <1>9 DEF Defer
  <2>2. Message(d, u, now + timeout) \in ClientState
    BY <1>1 DEF ClientState, Writing, Message
  <2> QED BY <1>1, <1>9, <2>1, <2>2, BecomeTypes DEF Defer, SignersInv
<1>10. ASSUME NEW c \in Clients, Post(c) PROVE SignersInv'
  <2>1. /\ client[c] \in Writing /\ client[c].data \in Data
        /\ NodeOf[client[c].data] \in Nodes
    BY <1>1, <1>10, DeferredTypes DEF Post
  <2>2. CASE client' = [client EXCEPT ![c] = Refused] /\ UNCHANGED world
    <3>1. Become(c, Refused) /\ Refused \in ClientState /\ answers' \subseteq Answer
      BY <1>1, <1>10, <2>2 DEF Post, Become, ClientState
    <3> QED BY <1>1, <3>1, BecomeTypes DEF SignersInv
  <2> DEFINE n == NodeOf[client[c].data]
  <2>3. CASE /\ client' = [client EXCEPT ![c].pc = "posted"]
             /\ \E v \in Values : /\ stored' = [stored EXCEPT ![n] = v]
                                  /\ held' = [held EXCEPT ![now][n] = @ \cup {v}]
             /\ made' = [made EXCEPT ![now] = @ \cup {client[c].data}]
             /\ UNCHANGED <<now, writes>>
    <3>1. [client[c] EXCEPT !.pc = "posted"] \in ClientState
      BY <2>1 DEF Writing, ClientState
    <3>2. client' \in [Clients -> ClientState]
      BY <1>1, <2>3, <3>1
    <3>3. PICK v \in Values : /\ stored' = [stored EXCEPT ![n] = v]
                              /\ held' = [held EXCEPT ![now][n] = @ \cup {v}]
      BY <2>3
    <3>4. /\ UNCHANGED <<signers, gatewayUrl, timeout, tx, changes, answers, now, writes>>
          /\ made' = [made EXCEPT ![now] = @ \cup {client[c].data}]
      BY <1>10, <2>3 DEF Post, contract
    <3> HIDE DEF n
    <3>5. n \in Nodes
      BY <2>1 DEF n
    <3>6. stored' \in [Nodes -> Values]
      BY <1>1, <3>3, <3>5
    <3>7. held' \in [0..MaxTime -> [Nodes -> SUBSET Values]]
      <4>1. held[now] \in [Nodes -> SUBSET Values]
        BY <1>1
      <4>2. [held[now] EXCEPT ![n] = @ \cup {v}] \in [Nodes -> SUBSET Values]
        BY <4>1
      <4> QED BY <1>1, <3>3, <4>2
    <3>8. made' \in [0..MaxTime -> SUBSET Data]
      BY <1>1, <2>1, <3>4
    <3> QED BY <1>1, <3>2, <3>4, <3>6, <3>7, <3>8 DEF SignersInv, TypeOK,
                                                  SignersAreConsistent, ClientState
  <2> QED BY <1>10, <2>2, <2>3 DEF Post
<1>11. CASE StoreValue
  <2>1. PICK n \in Nodes, v \in Values :
          /\ stored' = [stored EXCEPT ![n] = v]
          /\ held' = [held EXCEPT ![now][n] = @ \cup {v}]
    BY <1>11 DEF StoreValue
  <2>2. stored' \in [Nodes -> Values]
    BY <1>1, <2>1
  <2>3. held' \in [0..MaxTime -> [Nodes -> SUBSET Values]]
    <3>1. held[now] \in [Nodes -> SUBSET Values]
      BY <1>1
    <3>2. [held[now] EXCEPT ![n] = @ \cup {v}] \in [Nodes -> SUBSET Values]
      BY <3>1
    <3> QED BY <1>1, <2>1, <3>2
  <2>4. /\ writes' \in 0..MaxWrites
        /\ UNCHANGED <<signers, gatewayUrl, timeout, tx, changes, now, made, answers, client>>
    BY <1>1, <1>11 DEF StoreValue, contract
  <2> QED BY <1>1, <2>2, <2>3, <2>4 DEF SignersInv, TypeOK, SignersAreConsistent, ClientState
<1>12. CASE Tick
  <2>1. now' \in 0..MaxTime
    BY <1>1, <1>12 DEF Tick
  <2>2. held' \in [0..MaxTime -> [Nodes -> SUBSET Values]]
    <3>1. [n \in Nodes |-> {stored[n]}] \in [Nodes -> SUBSET Values]
      BY <1>1
    <3> QED BY <1>1, <1>12, <3>1 DEF Tick
  <2> QED BY <1>1, <1>12, <2>1, <2>2 DEF Tick, contract, SignersInv, TypeOK,
                                         SignersAreConsistent, ClientState
<1>13. CASE UNCHANGED vars
  BY <1>1, <1>13 DEF vars, SignersInv, TypeOK, SignersAreConsistent, ClientState
<1>14. ASSUME NEW c \in Clients, Stamp(c) PROVE SignersInv'
  <2> DEFINE k == [pc |-> "stamped", url |-> client[c].url, data |-> client[c].data,
                   sender |-> client[c].sender, ttl |-> now + TTL]
  <2>1. k \in ClientState
    BY <1>1, <1>14, DeferredTypes DEF Stamp, ClientState, Stamped
  <2>2. Become(c, k) /\ answers' \subseteq Answer
    BY <1>1, <1>14 DEF Stamp
  <2> QED BY <2>1, <2>2, BecomeTypes
<1>15. ASSUME NEW c \in Clients, Sign(c) PROVE SignersInv'
  <2>1. /\ client[c] \in Stamped
        /\ client[c].data \in Data /\ client[c].url \in Urls
        /\ client[c].sender \in Senders /\ client[c].ttl \in Nat
    BY <1>1, <1>15, StampedTypes DEF Sign
  <2>2. [client[c] EXCEPT !.pc = "signed"] \in ClientState
    BY <2>1 DEF Stamped, ClientState
  <2>3. answers' = answers \cup
          {[key |-> KeyOf[client[c].url], expires |-> client[c].ttl,
            sender |-> client[c].sender, data |-> client[c].data,
            value |-> stored[NodeOf[client[c].data]]]}
    BY <1>15 DEF Sign
  <2>4. answers' \subseteq Answer
    BY <1>1, <2>1, <2>3 DEF Answer
  <2> QED BY <1>15, <2>2, <2>4, BecomeTypes DEF Sign
<1> QED BY <1>2, <1>3, <1>4, <1>5, <1>6, <1>7, <1>8, <1>9, <1>10, <1>11, <1>12, <1>13,
           <1>14, <1>15 DEF Next

\* Every variable keeps its type.
THEOREM ResolverTypes == Spec => []TypeOK
<1>1. SignersInv => TypeOK
  BY DEF SignersInv
<1> QED BY <1>1, SignersInit, SignersStep, PTL DEF Spec

\* The array and the mapping of the set of signers stay inverse to each other,
\* whatever lists the owner adds and removes
\* (EnumerableSetUpgradeable.sol:81-113).
THEOREM SignersConsistent == Spec => []SignersAreConsistent
<1>1. SignersInv => SignersAreConsistent
  BY DEF SignersInv
<1> QED BY <1>1, SignersInit, SignersStep, PTL DEF Spec

-----------------------------------------------------------------------------
(* Revocation, and the refinement of SignerSet *)

\* Only Loop touches the signers.
LEMMA OnlyLoop ==
  ASSUME [Next]_vars, signers' # signers
  PROVE  Loop
BY DEF Next, vars, ChangeSigners, SetGatewayUrl, SetTimeout, Change, Lookup, AnswerLookup,
       ResolveWithProof, Defer, Post, Stamp, Sign, Become, StoreValue, Tick, contract

\* A client accepts an answer in ResolveWithProof only.
LEMMA AcceptStep ==
  ASSUME TypeOK, [Next]_vars, NEW c \in Clients,
         client'[c].pc = "accepted", client[c].pc # "accepted"
  PROVE  /\ UNCHANGED world
         /\ \E a \in answers :
              /\ Verifies(a, client[c].data, client[c].sender)
              /\ client'[c] = [pc |-> "accepted", data |-> client[c].data,
                               answer |-> a, at |-> now]
<1>1. client \in [Clients -> ClientState] /\ client' # client
  BY DEF TypeOK, ClientState
<1>2. PICK e \in Clients : \/ Lookup(e) \/ AnswerLookup(e) \/ ResolveWithProof(e)
                           \/ Defer(e) \/ Post(e) \/ Stamp(e) \/ Sign(e)
  BY <1>1 DEF Next, vars, ChangeSigners, SetGatewayUrl, SetTimeout, Change, Loop,
              StoreValue, Tick
<1>3. ~ Lookup(e) /\ ~ AnswerLookup(e) /\ ~ Stamp(e)
  BY <1>1 DEF Lookup, AnswerLookup, Stamp, Become, Refused
<1>4. ~ Defer(e)
  BY <1>1 DEF Defer, Become, Message
<1>5. ~ Post(e)
  <2> SUFFICES ASSUME Post(e) PROVE FALSE
    OBVIOUS
  <2>1. client[e] \in Writing
    BY DeferredTypes DEF Post
  <2>2. client'[e].pc \in {"posted", "refused"}
    BY <1>1, <2>1 DEF Post, Refused, Writing
  <2>3. \A f \in Clients \ {e} : client'[f] = client[f]
    BY <1>1 DEF Post
  <2> QED BY <2>2, <2>3
<1>6. ~ Sign(e)
  <2> SUFFICES ASSUME Sign(e) PROVE FALSE
    OBVIOUS
  <2>1. client[e] \in Stamped
    BY StampedTypes DEF Sign
  <2>2. client' = [client EXCEPT ![e] = [client[e] EXCEPT !.pc = "signed"]]
    BY DEF Sign, Become
  <2>3. client'[e].pc = "signed"
    BY <1>1, <2>1, <2>2 DEF Stamped
  <2>4. \A f \in Clients \ {e} : client'[f] = client[f]
    BY <1>1, <2>2
  <2> QED BY <2>3, <2>4
<1>7. ResolveWithProof(e)
  BY <1>2, <1>3, <1>4, <1>5, <1>6
<1>8. PICK a \in answers : Become(e,
         IF Verifies(a, client[e].data, client[e].sender)
         THEN [pc |-> "accepted", data |-> client[e].data, answer |-> a, at |-> now]
         ELSE Refused)
  BY <1>7 DEF ResolveWithProof
<1>9. e = c
  BY <1>1, <1>8 DEF Become
<1>10. Verifies(a, client[c].data, client[c].sender)
  BY <1>1, <1>8, <1>9 DEF Become, Refused
<1>11. client'[c] = [pc |-> "accepted", data |-> client[c].data, answer |-> a, at |-> now]
  BY <1>1, <1>8, <1>9, <1>10 DEF Become
<1> QED BY <1>8, <1>10, <1>11 DEF Become

\* A client accepts an answer only while the key that signed it is in the list
\* of signers: the membership test of resolveWithProof and the list that the
\* owner sees agree, so removing a signer revokes what it has signed.
THEOREM AcceptedVouchedFor == Spec => AcceptedIsVouchedFor
<1>1. SignersInv /\ [Next]_vars =>
        [\A c \in Clients :
           (client'[c].pc = "accepted" /\ client[c].pc # "accepted")
             => client'[c].answer.key \in Listed(signers)]_vars
  <2> SUFFICES ASSUME SignersInv, [Next]_vars, NEW c \in Clients,
                      client'[c].pc = "accepted", client[c].pc # "accepted"
               PROVE  client'[c].answer.key \in Listed(signers)
    OBVIOUS
  <2>1. PICK a \in answers :
          /\ Verifies(a, client[c].data, client[c].sender)
          /\ client'[c] = [pc |-> "accepted", data |-> client[c].data,
                           answer |-> a, at |-> now]
    BY AcceptStep DEF SignersInv
  <2>2. Contains(signers, a.key) /\ a.key \in Elements
    BY <2>1 DEF Verifies, SignersInv, TypeOK, Answer
  <2>3. a.key \in Listed(signers)
    BY <2>2, ListedIsContained DEF SignersInv, TypeOK, SignersAreConsistent
  <2> QED BY <2>1, <2>3
<1> QED BY <1>1, SignersInit, SignersStep, PTL DEF Spec, AcceptedIsVouchedFor

\* The set of signers implements SignerSet: what isSigner answers and what
\* signers() lists change together, one signer at a time.
THEOREM ImplementsSet == Spec => ImplementsSignerSet
<1> DEFINE members == {e \in Elements : Contains(signers, e)}
           listed == Listed(signers)
<1>1. Init => Abstract!Init
  <2> SUFFICES ASSUME Init PROVE members = {} /\ listed = {}
    BY DEF Abstract!Init
  <2>1. signers = EmptySet
    BY DEF Init
  <2>2. members = {}
    BY <2>1, EmptySetProperties
  <2> QED BY <2>1, <2>2, EmptySetProperties, ListedIsContained
<1>2. SignersInv /\ SignersInv' /\ [Next]_vars => [Abstract!Next]_<<members, listed>>
  <2> SUFFICES ASSUME SignersInv, SignersInv', [Next]_vars
               PROVE  Abstract!Next \/ UNCHANGED <<members, listed>>
    OBVIOUS
  <2>1. CASE signers' = signers
    BY <2>1
  <2>2. CASE signers' # signers
    <3>1. listed = members /\ listed' = members'
      BY ListedIsContained DEF SignersInv, TypeOK, SignersAreConsistent
    <3>2. PICK e \in Elements :
            \/ \A x \in Elements : Contains(signers', x) <=> Contains(signers, x) \/ x = e
            \/ \A x \in Elements : Contains(signers', x) <=> Contains(signers, x) /\ x # e
      BY <2>2, OnlyLoop, LoopSigners DEF SignersInv
    <3>3. members' = {x \in Elements : Contains(signers', x)}
      OBVIOUS
    <3>4. members' = members \cup {e} \/ members' = members \ {e}
      <4>1. CASE \A x \in Elements : Contains(signers', x) <=> Contains(signers, x) \/ x = e
        BY <3>3, <4>1, Zenon
      <4>2. CASE \A x \in Elements : Contains(signers', x) <=> Contains(signers, x) /\ x # e
        BY <3>3, <4>2, Zenon
      <4> QED BY <3>2, <4>1, <4>2
    <3> HIDE DEF members, listed
    <3>5. Abstract!Next
      BY <3>1, <3>4 DEF Abstract!Next, Abstract!Change, members, listed
    <3> QED BY <3>5
  <2> QED BY <2>1, <2>2
<1> QED BY <1>1, <1>2, SignersInit, SignersStep, PTL DEF Spec, ImplementsSignerSet, Abstract!Spec

-----------------------------------------------------------------------------
(* Freshness of what is accepted *)

\* The call data d was that of a client's write at t or before.
MadeBy(d, t) == \E w \in 0..t : d \in made[w]

\* The answer a carries a value that the record had at t, when a write of its
\* call data had been made, and expires no later than TTL after t.
SignedAt(a, t) ==
  a.expires <= t + TTL /\ a.value \in held[t][NodeOf[a.data]] /\ MadeBy(a.data, t)

\* What the client state k says of the past, at the instant n.
Honest(k, n) ==
  /\ k.pc \in {"posted", "stamped"} => MadeBy(k.data, n)
  /\ k.pc = "stamped" => k.ttl <= n + TTL
  /\ k.pc = "accepted" =>
       /\ k.at <= n
       /\ \E t \in 0..k.at : /\ k.at - t <= TTL
                             /\ k.answer.value \in held[t][NodeOf[k.data]]
                             /\ MadeBy(k.data, t)

StoredInv ==
  /\ \A n \in Nodes : stored[n] \in held[now][n]
  /\ \A a \in answers : \E t \in 0..now : SignedAt(a, t)
  /\ \A c \in Clients : Honest(client[c], now)

\* Time goes on, and what was held and made is not forgotten.
HistoryGrows ==
  /\ now \in Nat /\ now' \in Nat /\ now <= now'
  /\ \A t \in 0..now : \A n \in Nodes : held[t][n] \subseteq held'[t][n]
  /\ \A t \in 0..now : made[t] \subseteq made'[t]

LEMMA MadeGrows ==
  ASSUME HistoryGrows, NEW d, NEW t \in 0..now, MadeBy(d, t)
  PROVE  \E w \in 0..t : d \in made'[w]
<1>1. PICK w \in 0..t : d \in made[w]
  BY DEF MadeBy
<1>2. w \in 0..now
  BY DEF HistoryGrows
<1>3. d \in made'[w]
  BY <1>1, <1>2 DEF HistoryGrows
<1> QED BY <1>3

LEMMA MadeLater ==
  ASSUME NEW m \in Nat, NEW n \in Nat, m <= n, NEW d, MadeBy(d, m)
  PROVE  MadeBy(d, n)
<1>1. PICK w \in 0..m : d \in made[w]
  BY DEF MadeBy
<1>2. w \in 0..n
  OBVIOUS
<1> QED BY <1>1, <1>2 DEF MadeBy

\* What answers and clients say of the past stays true.
LEMMA SignedKept ==
  ASSUME SignersInv, HistoryGrows, NEW a \in answers, NEW t \in 0..now, SignedAt(a, t)
  PROVE  t \in 0..now' /\ SignedAt(a, t)'
<1>1. a.data \in Data /\ NodeOf[a.data] \in Nodes
  BY ResolverAssumption DEF SignersInv, TypeOK, Answer
<1>2. t \in 0..now' /\ a.value \in held'[t][NodeOf[a.data]]
  BY <1>1 DEF HistoryGrows, SignedAt
<1>3. \E w \in 0..t : a.data \in made'[w]
  BY MadeGrows DEF SignedAt
<1> QED BY <1>2, <1>3 DEF SignedAt, MadeBy

LEMMA HonestKept ==
  ASSUME SignersInv, HistoryGrows, NEW c \in Clients, Honest(client[c], now),
         client'[c] = client[c]
  PROVE  Honest(client[c], now)'
<1> DEFINE k == client[c]
<1>1. now \in Nat /\ now' \in Nat /\ now <= now' /\ now \in 0..now /\ TypeOK
  BY DEF HistoryGrows, SignersInv
<1>2. ASSUME k.pc \in {"posted", "stamped"} PROVE \E w \in 0..now' : k.data \in made'[w]
  <2>1. MadeBy(k.data, now)
    BY <1>2 DEF Honest
  <2>2. \E w \in 0..now : k.data \in made'[w]
    BY <1>1, <2>1 DEF MadeBy, HistoryGrows
  <2>3. \A w \in 0..now : w \in 0..now'
    BY <1>1
  <2> QED BY <2>2, <2>3
<1>3. ASSUME k.pc = "stamped" PROVE k.ttl <= now' + TTL
  <2>1. k.ttl \in Nat /\ k.ttl <= now + TTL
    BY <1>1, <1>3, StampedTypes DEF Honest
  <2> QED BY <1>1, <2>1, ResolverAssumption
<1>4. ASSUME k.pc = "accepted"
      PROVE  /\ k.at <= now'
             /\ \E t \in 0..k.at : /\ k.at - t <= TTL
                                   /\ k.answer.value \in held'[t][NodeOf[k.data]]
                                   /\ \E w \in 0..t : k.data \in made'[w]
  <2>1. k.at \in Nat /\ k.data \in Data /\ NodeOf[k.data] \in Nodes /\ k.at <= now
    BY <1>1, <1>4, AcceptedTypes, ResolverAssumption DEF Honest
  <2>2. PICK t \in 0..k.at : /\ k.at - t <= TTL
                             /\ k.answer.value \in held[t][NodeOf[k.data]]
                             /\ MadeBy(k.data, t)
    BY <1>4 DEF Honest
  <2>3. t \in 0..now
    BY <1>1, <2>1
  <2>4. \E w \in 0..t : k.data \in made'[w]
    BY <2>2, <2>3, MadeGrows
  <2>5. k.answer.value \in held'[t][NodeOf[k.data]]
    BY <2>1, <2>2, <2>3 DEF HistoryGrows
  <2> QED BY <1>1, <2>1, <2>2, <2>4, <2>5
<1> QED BY <1>2, <1>3, <1>4 DEF Honest, MadeBy

LEMMA StoredInit == Init => StoredInv
<1> SUFFICES ASSUME Init PROVE StoredInv
  OBVIOUS
<1>1. now = 0 /\ 0 \in 0..MaxTime
  BY ResolverAssumption DEF Init
<1>2. \A n \in Nodes : stored[n] \in held[now][n]
  BY <1>1 DEF Init
<1>3. \A c \in Clients : client[c].pc = "idle"
  BY DEF Init, NoClient
<1> QED BY <1>2, <1>3 DEF Init, StoredInv, Honest

\* Every step lets the history grow, and notes in it what it stores.
LEMMA StepGrows ==
  ASSUME SignersInv, SignersInv', [Next]_vars,
         \A n \in Nodes : stored[n] \in held[now][n]
  PROVE  HistoryGrows /\ \A n \in Nodes : stored'[n] \in held'[now'][n]
<1>1. /\ now \in 0..MaxTime /\ now' \in 0..MaxTime /\ stored \in [Nodes -> Values]
      /\ now \in Nat /\ now' \in Nat
      /\ held \in [0..MaxTime -> [Nodes -> SUBSET Values]]
      /\ made \in [0..MaxTime -> SUBSET Data]
      /\ \A t \in 0..now : t \in 0..MaxTime /\ t # now + 1
  BY ResolverAssumption DEF SignersInv, TypeOK
<1>2. CASE UNCHANGED world
  BY <1>1, <1>2 DEF world, HistoryGrows
<1>3. ASSUME NEW n \in Nodes, NEW v \in Values,
             stored' = [stored EXCEPT ![n] = v],
             held' = [held EXCEPT ![now][n] = @ \cup {v}], now' = now,
             \A t \in 0..now : made[t] \subseteq made'[t]
      PROVE  HistoryGrows /\ \A m \in Nodes : stored'[m] \in held'[now'][m]
  <2>1. held[now] \in [Nodes -> SUBSET Values]
    BY <1>1
  <2>2. \A t \in 0..MaxTime : \A m \in Nodes :
          held'[t][m] = IF t = now /\ m = n THEN held[t][m] \cup {v} ELSE held[t][m]
    BY <1>1, <1>3, <2>1
  <2>3. \A m \in Nodes : stored'[m] \in held'[now'][m]
    BY <1>1, <1>3, <2>2
  <2> QED BY <1>1, <1>3, <2>2, <2>3 DEF HistoryGrows
<1>4. CASE StoreValue
  <2>1. PICK n \in Nodes, v \in Values :
          /\ stored' = [stored EXCEPT ![n] = v]
          /\ held' = [held EXCEPT ![now][n] = @ \cup {v}]
    BY <1>4 DEF StoreValue
  <2>2. now' = now /\ made' = made
    BY <1>4 DEF StoreValue
  <2> QED BY <1>3, <2>1, <2>2
<1>5. CASE Tick
  <2>1. /\ now' = now + 1 /\ stored' = stored /\ made' = made
        /\ held' = [held EXCEPT ![now + 1] = [n \in Nodes |-> {stored[n]}]]
    BY <1>5 DEF Tick
  <2>2. \A t \in 0..now : held'[t] = held[t]
    BY <1>1, <2>1
  <2>3. \A n \in Nodes : stored'[n] \in held'[now'][n]
    BY <1>1, <2>1
  <2>4. now <= now'
    BY <1>1, <2>1
  <2> QED BY <1>1, <2>1, <2>2, <2>3, <2>4 DEF HistoryGrows
<1>6. ASSUME NEW c \in Clients, Post(c)
      PROVE  HistoryGrows /\ \A n \in Nodes : stored'[n] \in held'[now'][n]
  <2>1. NodeOf[client[c].data] \in Nodes
    BY <1>6, DeferredTypes, ResolverAssumption DEF Post, SignersInv
  <2>2. CASE ~ UNCHANGED world
    <3>1. PICK v \in Values :
            /\ stored' = [stored EXCEPT ![NodeOf[client[c].data]] = v]
            /\ held' = [held EXCEPT ![now][NodeOf[client[c].data]] = @ \cup {v}]
      BY <1>6, <2>2 DEF Post
    <3>2. now' = now /\ made' = [made EXCEPT ![now] = @ \cup {client[c].data}]
      BY <1>6, <2>2 DEF Post
    <3>3. \A t \in 0..now : made[t] \subseteq made'[t]
      BY <1>1, <3>2
    <3> QED BY <1>3, <2>1, <3>1, <3>2, <3>3
  <2> QED BY <1>2, <2>2
<1>7. CASE ~ UNCHANGED world /\ ~ StoreValue /\ ~ Tick /\ \A c \in Clients : ~ Post(c)
  BY <1>7 DEF Next, vars, ChangeSigners, SetGatewayUrl, SetTimeout, Change, Loop, Lookup,
              AnswerLookup, ResolveWithProof, Defer, Stamp, Sign, Become, world
<1> QED BY <1>2, <1>4, <1>5, <1>6, <1>7

\* A client that a step changes: what it becomes.
LEMMA ClientStep ==
  ASSUME SignersInv, [Next]_vars, NEW c \in Clients, client'[c] # client[c]
  PROVE  \/ client'[c].pc \in {"asked", "refused", "deferred", "signed"}
         \/ /\ client'[c].pc = "posted" /\ client'[c].data \in made'[now'] /\ now' = now
         \/ /\ client[c].pc = "posted" /\ client'[c].pc = "stamped"
            /\ client'[c].data = client[c].data /\ client'[c].ttl = now + TTL
            /\ UNCHANGED world
         \/ client'[c].pc = "accepted" /\ client[c].pc # "accepted"
<1>1. client \in [Clients -> ClientState] /\ client' # client
  BY DEF SignersInv, TypeOK, ClientState
<1>2. PICK e \in Clients : \/ Lookup(e) \/ AnswerLookup(e) \/ ResolveWithProof(e)
                           \/ Defer(e) \/ Post(e) \/ Stamp(e) \/ Sign(e)
  BY <1>1 DEF Next, vars, ChangeSigners, SetGatewayUrl, SetTimeout, Change, Loop,
              StoreValue, Tick
<1>3. CASE Lookup(e) \/ AnswerLookup(e) \/ Defer(e)
  BY <1>1, <1>3 DEF Lookup, AnswerLookup, Defer, Become, Refused, Message
<1>4. CASE ResolveWithProof(e)
  <2>1. PICK a \in answers : Become(e,
           IF Verifies(a, client[e].data, client[e].sender)
           THEN [pc |-> "accepted", data |-> client[e].data, answer |-> a, at |-> now]
           ELSE Refused)
    BY <1>4 DEF ResolveWithProof
  <2>2. e = c
    BY <1>1, <2>1 DEF Become
  <2>3. client'[c].pc \in {"accepted", "refused"}
    BY <1>1, <2>1, <2>2 DEF Become, Refused
  <2>4. client[c].pc # "accepted"
    BY <1>4, <2>2 DEF ResolveWithProof
  <2> QED BY <2>3, <2>4
<1>5. CASE Post(e)
  <2>1. client[e] \in Writing /\ e = c
    BY <1>1, <1>5, DeferredTypes DEF Post, SignersInv
  <2>2. CASE UNCHANGED world /\ client' = [client EXCEPT ![e] = Refused]
    BY <1>1, <2>1, <2>2 DEF Refused
  <2>3. CASE /\ client' = [client EXCEPT ![e].pc = "posted"]
             /\ made' = [made EXCEPT ![now] = @ \cup {client[e].data}] /\ now' = now
    <3>1. client'[c] = [client[c] EXCEPT !.pc = "posted"]
      BY <1>1, <2>1, <2>3
    <3>2. client'[c].pc = "posted" /\ client'[c].data = client[c].data
      BY <2>1, <3>1 DEF Writing
    <3>3. client[c].data \in made'[now]
      BY <2>1, <2>3, ResolverAssumption DEF SignersInv, TypeOK
    <3> QED BY <2>3, <3>2, <3>3
  <2> QED BY <1>5, <2>2, <2>3 DEF Post
<1>6. CASE Stamp(e)
  BY <1>1, <1>6 DEF Stamp, Become
<1>7. CASE Sign(e)
  <2>1. client[e] \in Stamped
    BY <1>7, StampedTypes DEF Sign, SignersInv
  <2>2. client' = [client EXCEPT ![e] = [client[e] EXCEPT !.pc = "signed"]]
    BY <1>7 DEF Sign, Become
  <2>3. e = c /\ client'[c] = [client[c] EXCEPT !.pc = "signed"]
    BY <1>1, <2>2
  <2> QED BY <2>1, <2>3 DEF Stamped
<1> QED BY <1>2, <1>3, <1>4, <1>5, <1>6, <1>7

LEMMA HonestStep ==
  ASSUME SignersInv, [Next]_vars, StoredInv, HistoryGrows, NEW c \in Clients
  PROVE  Honest(client[c], now)'
<1>1. now \in Nat /\ now' \in Nat /\ TypeOK /\ Honest(client[c], now)
  BY DEF HistoryGrows, SignersInv, StoredInv
<1>2. CASE client'[c] = client[c]
  BY <1>1, <1>2, HonestKept
<1>3. CASE client'[c].pc \in {"asked", "refused", "deferred", "signed"}
  BY <1>3 DEF Honest
<1>4. CASE client'[c].pc = "posted" /\ client'[c].data \in made'[now'] /\ now' = now
  <2>1. MadeBy(client[c].data, now)'
    BY <1>1, <1>4 DEF MadeBy
  <2> QED BY <1>4, <2>1 DEF Honest
<1>5. CASE /\ client[c].pc = "posted" /\ client'[c].pc = "stamped"
           /\ client'[c].data = client[c].data /\ client'[c].ttl = now + TTL
           /\ UNCHANGED world
  <2>1. MadeBy(client[c].data, now)
    BY <1>1, <1>5 DEF Honest
  <2>2. MadeBy(client[c].data, now)'
    BY <1>5, <2>1 DEF MadeBy, world
  <2>3. now' = now /\ now + TTL <= now + TTL
    BY <1>1, <1>5, ResolverAssumption DEF world
  <2> QED BY <1>5, <2>2, <2>3 DEF Honest
<1>6. CASE client'[c].pc = "accepted" /\ client[c].pc # "accepted"
  <2>1. UNCHANGED world
    BY <1>1, <1>6, AcceptStep
  <2>2. PICK a \in answers :
          /\ Verifies(a, client[c].data, client[c].sender)
          /\ client'[c] = [pc |-> "accepted", data |-> client[c].data,
                           answer |-> a, at |-> now]
    BY <1>1, <1>6, AcceptStep
  <2>3. PICK t \in 0..now : SignedAt(a, t)
    BY DEF StoredInv
  <2>4. /\ a.data = client[c].data /\ a.expires >= now /\ a.expires \in Nat
        /\ a.expires <= t + TTL
        /\ a.value \in held[t][NodeOf[a.data]] /\ MadeBy(a.data, t)
    BY <1>1, <2>2, <2>3 DEF Verifies, SignedAt, TypeOK, Answer
  <2>5. now - t <= TTL
    BY <1>1, <2>4, ResolverAssumption
  <2>6. /\ now' = now /\ held' = held /\ made' = made
    BY <2>1 DEF world
  <2>7. MadeBy(client[c].data, t)'
    BY <2>2, <2>4, <2>6 DEF MadeBy
  <2>8. now <= now
    BY <1>1
  <2> QED BY <2>2, <2>4, <2>5, <2>6, <2>7, <2>8 DEF Honest
<1> QED BY <1>2, <1>3, <1>4, <1>5, <1>6, ClientStep

\* An answer is signed when the record read has the value, and was stamped
\* before.
LEMMA SignStep ==
  ASSUME SignersInv, [Next]_vars, StoredInv, HistoryGrows, NEW a \in answers'
  PROVE  \E t \in 0..now' : SignedAt(a, t)'
<1>1. now \in Nat /\ now' \in Nat /\ TypeOK
  BY DEF HistoryGrows, SignersInv
<1>2. CASE a \in answers
  <2>1. PICK t \in 0..now : SignedAt(a, t)
    BY <1>2 DEF StoredInv
  <2> QED BY <1>2, <2>1, SignedKept
<1>3. CASE a \notin answers
  <2>1. answers' # answers
    BY <1>3
  <2>2. PICK c \in Clients : Sign(c)
    BY <2>1 DEF Next, vars, ChangeSigners, SetGatewayUrl, SetTimeout, Change, Loop, Lookup,
                AnswerLookup, ResolveWithProof, Defer, Post, Stamp, StoreValue, Tick
  <2> DEFINE k == client[c]
  <2>3. answers' = answers \cup
          {[key |-> KeyOf[k.url], expires |-> k.ttl, sender |-> k.sender,
            data |-> k.data, value |-> stored[NodeOf[k.data]]]}
    BY <2>2 DEF Sign
  <2>4. a = [key |-> KeyOf[k.url], expires |-> k.ttl, sender |-> k.sender,
             data |-> k.data, value |-> stored[NodeOf[k.data]]]
    BY <1>3, <2>3
  <2>5. /\ k.data \in Data /\ NodeOf[k.data] \in Nodes /\ k.pc = "stamped"
    BY <1>1, <2>2, StampedTypes, ResolverAssumption DEF Sign
  <2>6. k.ttl <= now + TTL /\ MadeBy(k.data, now) /\ stored[NodeOf[k.data]] \in held[now][NodeOf[k.data]]
    BY <2>5 DEF StoredInv, Honest
  <2>7. SignedAt(a, now)
    BY <2>4, <2>6 DEF SignedAt
  <2>8. now' = now /\ held' = held /\ made' = made
    BY <2>2 DEF Sign, Become, world
  <2>9. SignedAt(a, now)'
    BY <2>7, <2>8 DEF SignedAt, MadeBy
  <2> QED BY <1>1, <2>8, <2>9
<1> QED BY <1>2, <1>3

LEMMA StoredStep == SignersInv /\ SignersInv' /\ StoredInv /\ [Next]_vars => StoredInv'
<1> SUFFICES ASSUME SignersInv, SignersInv', StoredInv, [Next]_vars PROVE StoredInv'
  OBVIOUS
<1>1. HistoryGrows /\ \A n \in Nodes : stored'[n] \in held'[now'][n]
  BY StepGrows DEF StoredInv
<1>2. \A a \in answers' : \E t \in 0..now' : SignedAt(a, t)'
  BY <1>1, SignStep
<1>3. \A c \in Clients : Honest(client[c], now)'
  BY <1>1, HonestStep
<1> QED BY <1>1, <1>2, <1>3 DEF StoredInv

\* What a client accepts is a hash that the node's record had in the life time
\* of the signature, at or after a write of the same call data, whatever writes
\* come between write, time stamp and signature, and whatever the delays,
\* repetitions and exchanges of the answers (signer.ts:33-105,
\* DatabaseResolver.sol:417-433).
THEOREM AcceptedFresh == Spec => []AcceptedWasStored
<1>1. SignersInv /\ StoredInv => AcceptedWasStored
  <2> SUFFICES ASSUME SignersInv, StoredInv, NEW c \in Clients, client[c].pc = "accepted"
               PROVE  \E w \in 0..client[c].at, t \in 0..client[c].at :
                        /\ client[c].data \in made[w] /\ w <= t
                        /\ client[c].answer.value \in held[t][NodeOf[client[c].data]]
                        /\ client[c].at - t <= TTL
    BY DEF AcceptedWasStored
  <2>1. client[c].at \in Nat
    BY AcceptedTypes DEF SignersInv
  <2>2. PICK t \in 0..client[c].at :
          /\ client[c].at - t <= TTL
          /\ client[c].answer.value \in held[t][NodeOf[client[c].data]]
          /\ MadeBy(client[c].data, t)
    BY DEF StoredInv, Honest
  <2>3. PICK w \in 0..t : client[c].data \in made[w]
    BY <2>2 DEF MadeBy
  <2>4. w \in 0..client[c].at /\ w <= t
    BY <2>1
  <2> QED BY <2>2, <2>3, <2>4
<1>2. Spec => []SignersInv
  BY SignersInit, SignersStep, PTL DEF Spec
<1> QED BY <1>1, <1>2, StoredInit, StoredStep, PTL DEF Spec

=============================================================================
