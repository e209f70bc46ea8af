--------------------------- MODULE L1ResolverProofs ---------------------------
(***************************************************************************)
(* What L1Resolver and its gateway promise for any number of clients,      *)
(* names, blocks and reorganisations, and any records.                     *)
(*                                                                         *)
(* The invariant says of each read that the block it goes by was the head  *)
(* while it was served (Fits), of each client what its read was asked      *)
(* (Follows), of the contracts which slots hold what (Laid), and of the    *)
(* names that an owner stays owner in the blocks above (OwnersStay).  Once *)
(* it holds, a second one says that a read that met no failed call and no  *)
(* reorganisation has slots, words, proof and root of one block            *)
(* (Undisturbed).                                                          *)
(***************************************************************************)
EXTENDS L1Resolver, StorageProofProofs, SequenceTheorems

Contents == UNION {[D -> Words] : D \in SUBSET Slot}

\* prices are those of the deployment; of the slots of a resolver, the
\* versions are told from the records by the length of their path
Laid(state) ==
  /\ \A t \in Registrars : PriceOf(state, t) = Prices[t]
  /\ \A t \in Resolvers : \A s \in DOMAIN state[t] :
       \/ Len(s.path) = 2 /\ state[t][s] \in 0..MaxVersion
       \/ Len(s.path) >= 3 /\ state[t][s] \in Values

States == {state \in [Targets -> Contents] : Laid(state)}

ReadState ==
  [pc : {"idle", "asking", "locating", "header", "served", "failed", "accepted", "reverted"},
   block : Nat, target : Targets \cup {"none"}, prog : Seq(Command),
   slots : Seq(Seq(Slot)), words : Seq(Seq(Words)),
   proof : Seq(States), root : Seq(States), values : Seq(Seq(Words))]

Typed ==
  /\ chain \in Seq(States) /\ Height \in 1..MaxBlocks
  /\ read \in [Requests -> ReadState]
  /\ mishaps \in 0..MaxMishaps
  /\ current \in [Requests -> SUBSET States]
  /\ failed \in [Requests -> BOOLEAN] /\ shaken \in [Requests -> BOOLEAN]

Serving == {"asking", "locating", "header", "served"}

\* a read q, when the states in cur were at the head of seq while it was served
Fits(q, cur, seq) ==
  /\ q.block <= Len(seq)
  /\ q.pc \in Serving => seq[Len(seq)] \in cur
  /\ q.pc \in {"locating", "header"} => q.block \in 1..Len(seq) /\ seq[q.block] \in cur
  /\ q.pc \in {"asking", "locating"} =>
       Len(q.slots) = Len(q.prog) /\ Len(q.words) = Len(q.prog)
  /\ q.pc = "served" => Len(q.root) = 1 /\ q.root[1] \in cur

GatewayInv == Typed /\ \A r \in Requests : Fits(read[r], current[r], chain)

Priced == {"deferred", "sent", "registered", "refused"}

\* a client k and its read q
Follows(k, q) ==
  /\ k.pc = "new" => q.pc = "idle"
  /\ k.pc = "reading" =>
       /\ Len(k.question) = 1 /\ k.question[1] \in Questions /\ q.target \in Resolvers
       /\ q.pc \in Serving => q.prog = RecordProgram(k.question[1])
  /\ k.pc = "pricing" =>
       /\ k.node \in Nodes /\ q.target \in Registrars
       /\ q.pc \in Serving => q.prog = ParamsProgram
       /\ q.pc = "accepted" => Len(q.values) = 2 /\ q.values[1] = <<Prices[q.target]>>
  /\ k.pc \in Priced =>
       /\ k.node \in Nodes /\ q.pc \in {"accepted", "failed", "reverted"}
       /\ q.pc = "accepted" => q.target \in Registrars /\ k.value = Prices[q.target]

ClientsInv ==
  /\ targets \in [resolver : Resolvers, registrar : Registrars]
  /\ retargets \in 0..MaxRetargets
  /\ client \in [Requests -> ClientState]
  /\ \A c \in Requests : Follows(client[c], read[c])

\* a name that has an owner keeps it in the next block
OwnersStay ==
  \A n \in 1..(Height - 1), d \in Nodes :
    OwnerIn(chain[n], d) # Zero => OwnerIn(chain[n + 1], d) = OwnerIn(chain[n], d)

IInv == GatewayInv /\ ClientsInv /\ OwnersStay /\ RegisteredOwns

-----------------------------------------------------------------------------
(* Constants, slots and contracts *)

LEMMA Constants ==
  /\ Zero = 0 /\ Zero \in Words /\ Zero \notin Requests /\ Requests \subseteq Words
  /\ 0 \in Words /\ 1 \in Words /\ 2 \in Words /\ 3 \in Words /\ 10 \in Words /\ 60 \in Words
  /\ Nodes \subseteq Words /\ Keys \subseteq Words /\ CoinTypes \subseteq Words
  /\ Values \subseteq Words /\ Durations \subseteq Nat
  /\ Targets = Resolvers \cup Registrars \cup {Wrapper} /\ ClientResolver \in Resolvers
  /\ Resolvers \cap Registrars = {} /\ Wrapper \notin Resolvers /\ Wrapper \notin Registrars
  /\ Prices \in [Registrars -> Words] /\ \A t \in Registrars : Prices[t] \in Nat
  /\ MaxVersion \in Nat /\ 0..MaxVersion \subseteq Words
  /\ Expiries \in Nat \ {0} /\ 0..(Expiries - 1) \subseteq Words
  /\ MaxRetargets \in Nat /\ MaxBlocks \in Nat \ {0} /\ MaxMishaps \in Nat
  /\ FirstTargets \in [resolver : Resolvers, registrar : Registrars]
  /\ Readers \subseteq Requests /\ Registrants \subseteq Requests
BY L1ResolverAssumption, L1GatewayAssumption, StorageAssumption
   DEF RECORD_VERSIONS_SLOT, VERSIONABLE_ADDRESSES_SLOT, VERSIONABLE_HASHES_SLOT,
       VERSIONABLE_TEXTS_SLOT, COMMIT_SLOT, COIN_TYPE_ETH

LEMMA SlotAtFields ==
  ASSUME NEW path \in Seq(Words)
  PROVE  SlotAt(path) \in Slot /\ SlotAt(path).path = path
BY DEF SlotAt, Slot

LEMMA StorageFields ==
  ASSUME NEW storage \in Contents
  PROVE  /\ DOMAIN storage \subseteq Slot /\ IsContent(storage)
         /\ \A s \in DOMAIN storage : storage[s] \in Words
         /\ \A slot : At(storage, slot) \in Words
<1>1. DOMAIN storage \subseteq Slot /\ \A s \in DOMAIN storage : storage[s] \in Words
  BY DEF Contents
<1>2. IsContent(storage)
  BY <1>1 DEF IsContent
<1>3. QED BY <1>1, <1>2, AtType

LEMMA StateFields ==
  ASSUME NEW state \in States
  PROVE  /\ state \in [Targets -> Contents] /\ Laid(state) /\ IsState(state)
         /\ \A t \in Targets : state[t] \in Contents /\ IsContent(state[t])
<1>1. state \in [Targets -> Contents] /\ Laid(state)
  BY DEF States
<1>2. \A t \in Targets : state[t] \in Contents
  BY <1>1
<1>3. IsState(state)
  BY <1>1, <1>2, StorageFields DEF IsState
<1>4. QED BY <1>1, <1>2, <1>3, StorageFields

LEMMA PutFields ==
  ASSUME NEW state \in [Targets -> Contents], NEW t \in Targets, NEW slot \in Slot, NEW word \in Words
  PROVE  LET new == Put(state, t, slot, word) IN
         /\ new \in [Targets -> Contents]
         /\ \A u \in Targets : u # t => new[u] = state[u]
         /\ DOMAIN new[t] = DOMAIN state[t] \cup {slot}
         /\ \A s \in DOMAIN new[t] : new[t][s] = IF s = slot THEN word ELSE state[t][s]
         /\ \A s : At(new[t], s) = IF s = slot THEN word ELSE At(state[t], s)
<1> DEFINE old == state[t]
           storage == [s \in DOMAIN old \cup {slot} |-> IF s = slot THEN word ELSE old[s]]
           new == Put(state, t, slot, word)
<1>1. old \in Contents /\ DOMAIN old \subseteq Slot /\ \A s \in DOMAIN old : old[s] \in Words
  BY StorageFields
<1> HIDE DEF old
<1>2. storage \in [DOMAIN old \cup {slot} -> Words] /\ DOMAIN old \cup {slot} \in SUBSET Slot
  BY <1>1
<1>3. storage \in Contents
  BY <1>2 DEF Contents
<1>4. new = [state EXCEPT ![t] = storage]
  BY DEF Put, old
<1> HIDE DEF storage, new
<1>5. /\ new \in [Targets -> Contents] /\ new[t] = storage
      /\ \A u \in Targets : u # t => new[u] = state[u]
  BY <1>3, <1>4
<1>6. /\ DOMAIN storage = DOMAIN old \cup {slot}
      /\ \A s \in DOMAIN storage : storage[s] = IF s = slot THEN word ELSE old[s]
  BY DEF storage
<1>7. \A s : At(storage, s) = IF s = slot THEN word ELSE At(old, s)
  BY <1>6 DEF At
<1>8. QED BY <1>5, <1>6, <1>7 DEF old, new

LEMMA OwnerSlots ==
  ASSUME NEW n \in Words, NEW m \in Words
  PROVE  /\ OwnerSlot(n) \in Slot /\ ExpirySlot(n) \in Slot
         /\ OwnerSlot(n) = OwnerSlot(m) => n = m
         /\ OwnerSlot(n) # ExpirySlot(m)
<1>1. <<n>> \in Seq(Words) /\ <<n, 1>> \in Seq(Words)
  BY Constants
<1>2. /\ OwnerSlot(n) \in Slot /\ ExpirySlot(n) \in Slot
      /\ OwnerSlot(n).path = <<n>> /\ OwnerSlot(m).path = <<m>> /\ ExpirySlot(m).path = <<m, 1>>
  BY <1>1, SlotAtFields DEF OwnerSlot, ExpirySlot, COMMIT_SLOT, SlotAt
<1>3. Len(<<n>>) = 1 /\ Len(<<m, 1>>) = 2 /\ (<<n>> = <<m>> => n = m)
  OBVIOUS
<1>4. QED BY <1>2, <1>3

LEMMA QuestionFields ==
  ASSUME NEW q \in Questions
  PROVE  /\ q \in Question /\ q.base \in Words /\ q.node \in Nodes /\ q.node \in Words
         /\ q.keys \in Seq(Words)
<1>1. q \in Records
  BY QuestionAssumption
<1>2. ASSUME NEW n \in Nodes, NEW c \in Words
      PROVE  CoinAddrOf(n, c) \in Question /\ AddrOf(n) \in Question
  <2>1. <<c>> \in Seq(Words) /\ <<60>> \in Seq(Words)
    BY Constants
  <2>2. CoinAddrOf(n, c) \in Question /\ CoinAddrOf(n, COIN_TYPE_ETH) \in Question
    BY <2>1 DEF CoinAddrOf, Question, COIN_TYPE_ETH
  <2>3. QED BY <2>2 DEF AddrOf, Question
<1>3. ASSUME NEW n \in Nodes, NEW k \in Words
      PROVE  TextOf(n, k) \in Question /\ ContenthashOf(n) \in Question
  <2>1. <<k>> \in Seq(Words) /\ <<>> \in Seq(Words)
    OBVIOUS
  <2>2. QED BY <2>1 DEF TextOf, ContenthashOf, Question
<1>4. q \in Question
  BY <1>1, <1>2, <1>3, Constants DEF Records
<1>5. /\ q.node \in Nodes /\ q.keys \in Seq(Words)
      /\ q.base \in {VERSIONABLE_ADDRESSES_SLOT, VERSIONABLE_TEXTS_SLOT, VERSIONABLE_HASHES_SLOT}
  BY <1>4 DEF Question
<1>6. QED BY <1>4, <1>5, Constants
       DEF VERSIONABLE_ADDRESSES_SLOT, VERSIONABLE_TEXTS_SLOT, VERSIONABLE_HASHES_SLOT

\* a path of three words and more
LEMMA LongPath ==
  ASSUME NEW a \in Words, NEW b \in Words, NEW c \in Words, NEW keys \in Seq(Words)
  PROVE  LET path == <<a, b, c>> \o keys IN
         /\ path \in Seq(Words) /\ Len(path) = 3 + Len(keys) /\ Len(keys) \in Nat
         /\ path[1] = a /\ path[2] = b /\ path[3] = c
         /\ \A k \in 1..Len(keys) : path[k + 3] = keys[k]
<1> DEFINE first == <<a, b, c>>
           path == first \o keys
<1>1. /\ first \in Seq(Words) /\ Len(first) = 3
      /\ first[1] = a /\ first[2] = b /\ first[3] = c
  OBVIOUS
<1>2. Len(keys) \in Nat
  BY LenProperties
<1> HIDE DEF first
<1>3. /\ path \in Seq(Words) /\ Len(path) = Len(first) + Len(keys)
      /\ \A i \in 1..(Len(first) + Len(keys)) :
           path[i] = IF i <= Len(first) THEN first[i] ELSE keys[i - Len(first)]
  BY <1>1, ConcatProperties
<1>4. path[1] = a /\ path[2] = b /\ path[3] = c
  BY <1>1, <1>2, <1>3
<1>5. ASSUME NEW k \in 1..Len(keys)
      PROVE  path[k + 3] = keys[k]
  <2>1. k + 3 \in 1..(Len(first) + Len(keys)) /\ ~ (k + 3 <= Len(first)) /\ (k + 3) - Len(first) = k
    BY <1>1, <1>2
  <2>2. QED BY <1>3, <2>1
<1>6. QED BY <1>1, <1>2, <1>3, <1>4, <1>5 DEF first

LEMMA RecordSlotFields ==
  ASSUME NEW storage \in Contents, NEW q \in Questions
  PROVE  /\ RecordSlot(storage, q) \in Slot
         /\ Len(RecordSlot(storage, q).path) >= 3 /\ Len(RecordSlot(storage, q).path) # 2
<1> DEFINE path == <<q.base, VersionIn(storage, q.node), q.node>> \o q.keys
<1>1. VersionIn(storage, q.node) \in Words
  BY StorageFields DEF VersionIn
<1>2. path \in Seq(Words) /\ Len(path) >= 3 /\ Len(path) # 2
  BY <1>1, QuestionFields, LongPath
<1> HIDE DEF path
<1>3. SlotAt(path) \in Slot /\ SlotAt(path).path = path
  BY <1>2, SlotAtFields
<1>4. QED BY <1>2, <1>3 DEF RecordSlot, path

-----------------------------------------------------------------------------
(* The states that blocks lead to *)

SameOwners(new, state) == \A d \in Nodes : OwnerIn(new, d) = OwnerIn(state, d)

\* a write to a resolver that keeps its layout
LEMMA PutInResolver ==
  ASSUME NEW state \in States, NEW t \in Resolvers, NEW slot \in Slot, NEW word \in Words,
         \/ Len(slot.path) = 2 /\ word \in 0..MaxVersion
         \/ Len(slot.path) >= 3 /\ word \in Values
  PROVE  LET new == Put(state, t, slot, word) IN
         new \in States /\ SameOwners(new, state)
<1> DEFINE new == Put(state, t, slot, word)
<1>1. t \in Targets /\ t # Wrapper /\ t \notin Registrars /\ Wrapper \in Targets
      /\ Registrars \subseteq Targets /\ Resolvers \subseteq Targets
  BY Constants
<1>2. state \in [Targets -> Contents] /\ Laid(state)
  BY StateFields
<1>3. /\ new \in [Targets -> Contents]
      /\ \A u \in Targets : u # t => new[u] = state[u]
      /\ DOMAIN new[t] = DOMAIN state[t] \cup {slot}
      /\ \A s \in DOMAIN new[t] : new[t][s] = IF s = slot THEN word ELSE state[t][s]
  BY <1>1, <1>2, PutFields
<1> HIDE DEF new
<1>4. \A u \in Registrars : PriceOf(new, u) = Prices[u]
  BY <1>1, <1>2, <1>3 DEF Laid, PriceOf
<1>5. ASSUME NEW u \in Resolvers, NEW s \in DOMAIN new[u]
      PROVE  \/ Len(s.path) = 2 /\ new[u][s] \in 0..MaxVersion
             \/ Len(s.path) >= 3 /\ new[u][s] \in Values
  <2>1. CASE u # t
    BY <1>1, <1>2, <1>3, <2>1 DEF Laid
  <2>2. CASE u = t /\ s = slot
    BY <1>3, <2>2
  <2>3. CASE u = t /\ s # slot
    BY <1>2, <1>3, <2>3 DEF Laid
  <2>4. QED BY <2>1, <2>2, <2>3
<1>6. new \in States
  BY <1>3, <1>4, <1>5 DEF States, Laid
<1>7. SameOwners(new, state)
  BY <1>1, <1>3 DEF SameOwners, OwnerIn
<1>8. QED BY <1>6, <1>7 DEF new

LEMMA RecordSet ==
  ASSUME NEW state \in States, NEW t \in Resolvers, NEW q \in Questions, NEW v \in Values
  PROVE  LET new == Put(state, t, RecordSlot(state[t], q), v) IN
         new \in States /\ SameOwners(new, state)
<1>1. state[t] \in Contents /\ v \in Words
  BY StateFields, Constants
<1>2. RecordSlot(state[t], q) \in Slot /\ Len(RecordSlot(state[t], q).path) >= 3
  BY <1>1, RecordSlotFields
<1>3. QED BY <1>1, <1>2, PutInResolver

LEMMA VersionSlotFields ==
  ASSUME NEW n \in Words
  PROVE  LET slot == SlotAt(<<RECORD_VERSIONS_SLOT, n>>) IN slot \in Slot /\ Len(slot.path) = 2
<1>1. <<RECORD_VERSIONS_SLOT, n>> \in Seq(Words) /\ Len(<<RECORD_VERSIONS_SLOT, n>>) = 2
  BY Constants DEF RECORD_VERSIONS_SLOT
<1>2. QED BY <1>1, SlotAtFields

LEMMA VersionFields ==
  ASSUME NEW state \in States, NEW t \in Resolvers, NEW n \in Words
  PROVE  VersionIn(state[t], n) \in 0..MaxVersion
<1> DEFINE slot == SlotAt(<<RECORD_VERSIONS_SLOT, n>>)
<1>1. slot \in Slot /\ Len(slot.path) = 2
  BY VersionSlotFields
<1> HIDE DEF slot
<1>2. slot \in DOMAIN state[t] => state[t][slot] \in 0..MaxVersion
  <2>1. Laid(state)
    BY StateFields
  <2>2. \A u \in Resolvers : \A s \in DOMAIN state[u] :
          \/ Len(s.path) = 2 /\ state[u][s] \in 0..MaxVersion
          \/ Len(s.path) >= 3 /\ state[u][s] \in Values
    BY <2>1, Zenon DEF Laid
  <2>3. ~ (Len(slot.path) >= 3)
    BY <1>1
  <2>4. QED BY <2>2, <2>3, Zenon
<1>3. 0 \in 0..MaxVersion /\ Zero = 0
  BY Constants
<1>4. QED BY <1>2, <1>3 DEF VersionIn, At, slot

LEMMA RecordsCleared ==
  ASSUME NEW state \in States, NEW t \in Resolvers, NEW n \in Nodes,
         VersionIn(state[t], n) < MaxVersion
  PROVE  LET new == Put(state, t, SlotAt(<<RECORD_VERSIONS_SLOT, n>>), VersionIn(state[t], n) + 1) IN
         new \in States /\ SameOwners(new, state)
<1> DEFINE slot == SlotAt(<<RECORD_VERSIONS_SLOT, n>>)
           word == VersionIn(state[t], n) + 1
<1>1. n \in Words
  BY Constants
<1>2. slot \in Slot /\ Len(slot.path) = 2
  BY <1>1, VersionSlotFields
<1>3. word \in 0..MaxVersion /\ word \in Words
  BY <1>1, VersionFields, Constants
<1> HIDE DEF slot, word
<1>4. Put(state, t, slot, word) \in States /\ SameOwners(Put(state, t, slot, word), state)
  BY <1>2, <1>3, PutInResolver
<1>5. QED BY <1>4 DEF slot, word

\* a write to the name wrapper
LEMMA PutInWrapper ==
  ASSUME NEW state \in States, NEW slot \in Slot, NEW word \in Words
  PROVE  LET new == Put(state, Wrapper, slot, word) IN
         /\ new \in States
         /\ \A s : At(new[Wrapper], s) = IF s = slot THEN word ELSE At(state[Wrapper], s)
<1> DEFINE new == Put(state, Wrapper, slot, word)
<1>1. /\ Wrapper \in Targets /\ Registrars \subseteq Targets /\ Resolvers \subseteq Targets
      /\ Wrapper \notin Registrars /\ Wrapper \notin Resolvers
  BY Constants
<1>2. state \in [Targets -> Contents] /\ Laid(state)
  BY StateFields
<1>3. /\ new \in [Targets -> Contents]
      /\ \A u \in Targets : u # Wrapper => new[u] = state[u]
      /\ \A s : At(new[Wrapper], s) = IF s = slot THEN word ELSE At(state[Wrapper], s)
  BY <1>1, <1>2, PutFields
<1> HIDE DEF new
<1>4. \A u \in Registrars \cup Resolvers : new[u] = state[u]
  BY <1>1, <1>3
<1>5. Laid(new)
  BY <1>2, <1>4 DEF Laid, PriceOf
<1>6. QED BY <1>3, <1>5 DEF States, new

LEMMA NameRegistered ==
  ASSUME NEW state \in States, NEW c \in Requests, NEW q \in Questions, NEW v \in Values,
         client[c].duration \in Nat
  PROVE  LET new == Registered(state, c, q, v) IN
         /\ new \in States /\ OwnerIn(new, q.node) = c
         /\ \A d \in Nodes : d # q.node => OwnerIn(new, d) = OwnerIn(state, d)
<1> DEFINE expiry == client[c].duration % Expiries
           owned == Put(state, Wrapper, OwnerSlot(q.node), c)
           named == Put(owned, Wrapper, ExpirySlot(q.node), expiry)
           new == Put(named, ClientResolver, RecordSlot(named[ClientResolver], q), v)
<1>1. /\ expiry \in Words /\ c \in Words /\ q.node \in Words /\ q.node \in Nodes
      /\ Nodes \subseteq Words /\ ClientResolver \in Resolvers
  <2>1. expiry \in 0..(Expiries - 1)
    BY Constants
  <2>2. QED BY <2>1, Constants, QuestionFields
<1>2. OwnerSlot(q.node) \in Slot /\ ExpirySlot(q.node) \in Slot
  BY <1>1, OwnerSlots
<1>3. /\ owned \in States
      /\ \A s : At(owned[Wrapper], s) = IF s = OwnerSlot(q.node) THEN c ELSE At(state[Wrapper], s)
  <2>1. c \in Words /\ OwnerSlot(q.node) \in Slot
    BY <1>1, <1>2
  <2>2. QED BY <2>1, PutInWrapper
<1> HIDE DEF expiry, owned
<1>4. /\ named \in States
      /\ \A s : At(named[Wrapper], s) =
                  IF s = ExpirySlot(q.node) THEN expiry ELSE At(owned[Wrapper], s)
  BY <1>1, <1>2, <1>3, PutInWrapper
<1> HIDE DEF named
<1>5. new \in States /\ SameOwners(new, named)
  BY <1>1, <1>4, RecordSet
<1> HIDE DEF new
<1>6. ASSUME NEW d \in Nodes
      PROVE  OwnerIn(new, d) = IF d = q.node THEN c ELSE OwnerIn(state, d)
  <2>1. OwnerSlot(d) # ExpirySlot(q.node) /\ (OwnerSlot(d) = OwnerSlot(q.node) <=> d = q.node)
    BY <1>1, OwnerSlots
  <2>2. OwnerIn(named, d) = IF d = q.node THEN c ELSE OwnerIn(state, d)
    BY <1>3, <1>4, <2>1 DEF OwnerIn
  <2>3. QED BY <1>5, <2>2 DEF SameOwners
<1>7. Registered(state, c, q, v) = new
  BY DEF Registered, new, named, owned, expiry
<1>8. QED BY <1>1, <1>5, <1>6, <1>7

-----------------------------------------------------------------------------
(* The chain *)

LEMMA Known ==
  ASSUME GatewayInv, NEW r \in Requests
  PROVE  /\ read[r] \in ReadState /\ Fits(read[r], current[r], chain)
         /\ read \in [Requests -> ReadState]
         /\ current[r] \subseteq States /\ current \in [Requests -> SUBSET States]
         /\ failed \in [Requests -> BOOLEAN] /\ shaken \in [Requests -> BOOLEAN]
         /\ mishaps \in 0..MaxMishaps
BY DEF GatewayInv, Typed

LEMMA KnownChain ==
  ASSUME GatewayInv
  PROVE  /\ chain \in Seq(States) /\ Height \in Nat /\ Height >= 1 /\ Height <= MaxBlocks
         /\ Height = Len(chain) /\ HeadState = chain[Len(chain)] /\ HeadState \in States
         /\ \A n \in 1..Height : chain[n] \in States
<1>1. chain \in Seq(States) /\ Height \in 1..MaxBlocks /\ Height = Len(chain)
  BY DEF GatewayInv, Typed, Height
<1>2. Height \in Nat /\ Height >= 1 /\ Height <= MaxBlocks
  BY <1>1, Constants
<1>3. \A n \in 1..Height : chain[n] \in States
  BY <1>1, ElementOfSeq
<1>4. QED BY <1>1, <1>2, <1>3 DEF HeadState

LEMMA BecomesHeadKeeps ==
  ASSUME GatewayInv, NEW state \in States, BecomesHead(state)
  PROVE  /\ current' \in [Requests -> SUBSET States]
         /\ \A r \in Requests :
              /\ current[r] \subseteq current'[r]
              /\ read[r].pc \in Serving => state \in current'[r]
BY DEF GatewayInv, Typed, BecomesHead, Active, Serving

LEMMA MineKeeps ==
  ASSUME GatewayInv, NEW state \in States, Mine(state)
  PROVE  /\ GatewayInv' /\ read' = read
         /\ Height' = Height + 1 /\ HeadState' = state /\ chain'[Height + 1] = state
         /\ \A n \in 1..Height : chain'[n] = chain[n]
<1>1. /\ Height < MaxBlocks /\ chain' = Append(chain, state) /\ BecomesHead(state)
      /\ read' = read /\ mishaps' = mishaps /\ failed' = failed /\ shaken' = shaken
  BY DEF Mine
<1>2. /\ chain' \in Seq(States) /\ Len(chain') = Height + 1 /\ chain'[Height + 1] = state
      /\ \A n \in 1..Height : chain'[n] = chain[n]
  BY <1>1, KnownChain, AppendProperties
<1>3. Height' = Height + 1 /\ HeadState' = state /\ Height' \in 1..MaxBlocks
  BY <1>1, <1>2, KnownChain, Constants DEF Height, HeadState
<1>4. /\ current' \in [Requests -> SUBSET States]
      /\ \A r \in Requests :
           /\ current[r] \subseteq current'[r]
           /\ read[r].pc \in Serving => state \in current'[r]
  BY <1>1, BecomesHeadKeeps
<1>5. ASSUME NEW r \in Requests
      PROVE  Fits(read[r], current'[r], chain')
  <2>1. Fits(read[r], current[r], chain) /\ read[r].block \in Nat
    BY Known DEF ReadState
  <2>2. read[r].block <= Len(chain')
    BY <1>2, <2>1, KnownChain DEF Fits
  <2>3. read[r].pc \in Serving => chain'[Len(chain')] \in current'[r]
    BY <1>2, <1>4
  <2>4. read[r].pc \in {"locating", "header"} =>
          read[r].block \in 1..Len(chain') /\ chain'[read[r].block] \in current'[r]
    BY <1>2, <1>4, <2>1, KnownChain DEF Fits
  <2>5. read[r].pc = "served" => Len(read[r].root) = 1 /\ read[r].root[1] \in current'[r]
    BY <1>4, <2>1 DEF Fits
  <2>6. QED BY <2>1, <2>2, <2>3, <2>4, <2>5 DEF Fits
<1>6. Typed'
  BY <1>1, <1>2, <1>3, <1>4 DEF GatewayInv, Typed
<1>7. GatewayInv'
  BY <1>1, <1>5, <1>6 DEF GatewayInv
<1>8. QED BY <1>1, <1>2, <1>3, <1>7

LEMMA ReorgKeeps ==
  ASSUME GatewayInv, Reorg
  PROVE  /\ GatewayInv' /\ read' = read /\ Height > 1
         /\ Height' = Height /\ HeadState' = chain[Height - 1] /\ chain'[Height] = chain[Height - 1]
         /\ \A n \in 1..(Height - 1) : chain'[n] = chain[n]
<1> DEFINE state == chain[Height - 1]
<1>1. /\ Height > 1 /\ chain' = [chain EXCEPT ![Height] = state] /\ BecomesHead(state)
      /\ read' = read /\ mishaps < MaxMishaps /\ mishaps' = mishaps + 1 /\ failed' = failed
      /\ shaken' = [r \in Requests |-> shaken[r] \/ Active(r)]
  BY DEF Reorg, Mishap
<1>2. Height - 1 \in 1..Height /\ Height \in 1..Height /\ state \in States
  BY <1>1, KnownChain
<1> HIDE DEF state
<1>3. /\ chain' \in Seq(States) /\ Len(chain') = Height
      /\ \A n \in 1..Height : chain'[n] = IF n = Height THEN state ELSE chain[n]
  BY <1>1, <1>2, KnownChain, ExceptSeq
<1>4. Height' = Height /\ HeadState' = state /\ Height' \in 1..MaxBlocks
  BY <1>2, <1>3, KnownChain, Constants DEF Height, HeadState
<1>5. /\ current' \in [Requests -> SUBSET States]
      /\ \A r \in Requests :
           /\ current[r] \subseteq current'[r]
           /\ read[r].pc \in Serving => state \in current'[r]
  BY <1>1, <1>2, BecomesHeadKeeps
<1>6. ASSUME NEW r \in Requests
      PROVE  Fits(read[r], current'[r], chain')
  <2>1. Fits(read[r], current[r], chain) /\ read[r].block \in Nat
    BY Known DEF ReadState
  <2>2. read[r].block <= Len(chain')
    BY <1>3, <2>1, KnownChain DEF Fits
  <2>3. read[r].pc \in Serving => chain'[Len(chain')] \in current'[r]
    BY <1>2, <1>3, <1>5
  <2>4. read[r].pc \in {"locating", "header"} =>
          read[r].block \in 1..Len(chain') /\ chain'[read[r].block] \in current'[r]
    BY <1>3, <1>5, <2>1, KnownChain DEF Fits, Serving
  <2>5. read[r].pc = "served" => Len(read[r].root) = 1 /\ read[r].root[1] \in current'[r]
    BY <1>5, <2>1 DEF Fits
  <2>6. QED BY <2>1, <2>2, <2>3, <2>4, <2>5 DEF Fits
<1>7. shaken' \in [Requests -> BOOLEAN] /\ mishaps' \in 0..MaxMishaps
  <2>1. \A r \in Requests : (shaken[r] \/ Active(r)) \in BOOLEAN
    OBVIOUS
  <2>2. shaken' \in [Requests -> BOOLEAN]
    BY <1>1, <2>1
  <2>3. mishaps' \in 0..MaxMishaps
    BY <1>1, Constants DEF GatewayInv, Typed
  <2>4. QED BY <2>2, <2>3
<1>8. Typed'
  BY <1>1, <1>3, <1>4, <1>5, <1>7 DEF GatewayInv, Typed
<1>9. GatewayInv'
  BY <1>1, <1>6, <1>8 DEF GatewayInv
<1>10. QED BY <1>1, <1>2, <1>3, <1>4, <1>9, KnownChain DEF state

-----------------------------------------------------------------------------
(* The service *)

\* A step that changes one read only.
LEMMA OneRead ==
  ASSUME GatewayInv, NEW r \in Requests, NEW q \in ReadState,
         read' = [read EXCEPT ![r] = q], chain' = chain, mishaps' \in 0..MaxMishaps,
         current' \in [Requests -> SUBSET States],
         failed' \in [Requests -> BOOLEAN], shaken' \in [Requests -> BOOLEAN],
         \A p \in Requests : p # r => current'[p] = current[p],
         Fits(q, current'[r], chain)
  PROVE  GatewayInv'
<1>1. read' \in [Requests -> ReadState] /\ read'[r] = q
      /\ \A p \in Requests : p # r => read'[p] = read[p]
  BY DEF GatewayInv, Typed
<1>2. Typed'
  BY <1>1 DEF GatewayInv, Typed, Height
<1>3. ASSUME NEW p \in Requests
      PROVE  Fits(read'[p], current'[p], chain')
  <2>1. CASE p = r
    BY <1>1, <2>1
  <2>2. CASE p # r
    BY <1>1, <2>2 DEF GatewayInv
  <2>3. QED BY <2>1, <2>2
<1>4. QED BY <1>2, <1>3 DEF GatewayInv

LEMMA FaultTypes ==
  ASSUME GatewayInv, NEW r \in Requests, NoFault(r) \/ Fault(r)
  PROVE  mishaps' \in 0..MaxMishaps /\ failed' \in [Requests -> BOOLEAN]
<1>1. mishaps \in 0..MaxMishaps /\ failed \in [Requests -> BOOLEAN]
  BY Known
<1>2. CASE NoFault(r)
  BY <1>1, <1>2 DEF NoFault
<1>3. CASE Fault(r)
  <2>1. mishaps' \in 0..MaxMishaps
    BY <1>1, <1>3, Constants DEF Fault, Mishap
  <2>2. failed' = [failed EXCEPT ![r] = TRUE]
    BY <1>3 DEF Fault
  <2>3. failed' \in [Requests -> BOOLEAN]
    BY <1>1, <2>2
  <2>4. QED BY <2>1, <2>3
<1>4. QED BY <1>2, <1>3

LEMMA ForgetTypes ==
  ASSUME GatewayInv, NEW r \in Requests, Forget(r)
  PROVE  /\ current' \in [Requests -> SUBSET States]
         /\ failed' \in [Requests -> BOOLEAN] /\ shaken' \in [Requests -> BOOLEAN]
         /\ \A p \in Requests : p # r => current'[p] = current[p]
BY DEF GatewayInv, Typed, Forget

\* what one step of the service makes of a read
Goes(old, new) ==
  /\ old.pc \in Serving /\ new.target = old.target
  /\ \/ new.pc = "failed"
     \/ new.pc \in Serving /\ new.prog = old.prog

Progress(r) ==
  /\ GatewayInv' /\ chain' = chain
  /\ \E q \in ReadState : read' = [read EXCEPT ![r] = q] /\ Goes(read[r], q)

LEMMA IdleTypes == Idle \in ReadState /\ Idle.pc = "idle" /\ Idle.block = 0
<1>1. /\ <<>> \in Seq(Command) /\ <<>> \in Seq(Seq(Slot)) /\ <<>> \in Seq(Seq(Words))
      /\ <<>> \in Seq(States)
  OBVIOUS
<1>2. QED BY <1>1 DEF Idle, ReadState

\* Nothing is asked of a read that has not begun or has ended.
LEMMA RestingFits ==
  ASSUME GatewayInv, NEW q \in ReadState, q.block = 0, NEW cur,
         q.pc \in {"idle", "failed", "accepted", "reverted"}
  PROVE  Fits(q, cur, chain)
BY KnownChain DEF Fits, Serving

LEMMA FailProgress ==
  ASSUME GatewayInv, NEW r \in Requests, read[r].pc \in Serving, Fail(r), chain' = chain
  PROVE  Progress(r)
<1> DEFINE target == read[r].target
           q == [Idle EXCEPT !.pc = "failed", !.target = target]
<1>1. target \in Targets \cup {"none"}
  BY Known DEF ReadState
<1> HIDE DEF target
<1>2. q \in ReadState
  BY <1>1, IdleTypes DEF ReadState
<1>3. q.pc = "failed" /\ q.target = target /\ q.block = 0
  BY IdleTypes DEF ReadState
<1>4. read' = [read EXCEPT ![r] = q] /\ Forget(r) /\ mishaps < MaxMishaps /\ mishaps' = mishaps + 1
  BY DEF Fail, Mishap, target
<1> HIDE DEF q
<1>5. mishaps' \in 0..MaxMishaps
  BY <1>4, Constants DEF GatewayInv, Typed
<1>6. Fits(q, current'[r], chain)
  BY <1>2, <1>3, RestingFits
<1>7. GatewayInv'
  BY <1>2, <1>4, <1>5, <1>6, ForgetTypes, OneRead
<1>8. QED BY <1>2, <1>3, <1>4, <1>7 DEF Progress, Goes, target

\* A step of a read that goes on.
LEMMA GoesOn ==
  ASSUME GatewayInv, NEW r \in Requests, NEW q \in ReadState,
         read' = [read EXCEPT ![r] = q], chain' = chain, NoFault(r) \/ Fault(r),
         UNCHANGED <<current, shaken>>, Fits(q, current[r], chain), Goes(read[r], q)
  PROVE  Progress(r)
<1>1. /\ current' \in [Requests -> SUBSET States] /\ shaken' \in [Requests -> BOOLEAN]
      /\ \A p \in Requests : p # r => current'[p] = current[p]
      /\ Fits(q, current'[r], chain)
  BY DEF GatewayInv, Typed
<1>2. GatewayInv'
  BY <1>1, FaultTypes, OneRead
<1>3. QED BY <1>2 DEF Progress

LEMMA GetBlockProgress ==
  ASSUME GatewayInv, NEW r \in Requests, GetBlock(r)
  PROVE  Progress(r)
<1>1. read[r].pc = "asking" /\ read[r].pc \in Serving /\ chain' = chain
  BY DEF GetBlock, Serving
<1>2. CASE Fail(r)
  BY <1>1, <1>2, FailProgress
<1>3. CASE /\ NoFault(r) /\ UNCHANGED <<current, shaken>>
           /\ read' = [read EXCEPT ![r].pc = "locating", ![r].block = Height]
  <2> DEFINE q == [read[r] EXCEPT !.pc = "locating", !.block = Height]
  <2>1. read' = [read EXCEPT ![r] = q]
    BY <1>3, Known
  <2>2. q \in ReadState
    BY Known, KnownChain DEF ReadState
  <2>3. /\ q.pc = "locating" /\ q.block = Height /\ q.prog = read[r].prog
        /\ q.slots = read[r].slots /\ q.words = read[r].words /\ q.target = read[r].target
    BY Known DEF ReadState
  <2> HIDE DEF q
  <2>4. Fits(q, current[r], chain)
    BY <1>1, <2>3, Known, KnownChain DEF Fits, Serving
  <2>5. Goes(read[r], q)
    BY <1>1, <2>3 DEF Goes, Serving
  <2>6. QED BY <1>1, <1>3, <2>1, <2>2, <2>4, <2>5, GoesOn
<1>4. QED BY <1>2, <1>3 DEF GetBlock

LEMMA StorageAtBlock ==
  ASSUME GatewayInv, NEW r \in Requests, read[r].pc \in {"locating", "header"},
         read[r].target \in Targets, NEW slot
  PROVE  At(StorageOf(r, chain[read[r].block]), slot) \in Words
<1>1. chain[read[r].block] \in States
  BY Known DEF Fits
<1>2. chain[read[r].block][read[r].target] \in Contents
  BY <1>1, StateFields
<1>3. QED BY <1>2, StorageFields DEF StorageOf

LEMMA ReadValueProgress ==
  ASSUME GatewayInv, NEW r \in Requests, read[r].target \in Targets, NEW j, ReadValue(r, j)
  PROVE  Progress(r)
<1>1. /\ read[r].pc = "locating" /\ j \in 1..Len(read[r].prog)
      /\ chain' = chain /\ UNCHANGED <<current, shaken>>
  BY DEF ReadValue
<1>2. PICK got \in Fetched(r, read[r].slots[j][1]) :
        /\ Charge(r, got.fault)
        /\ read' = [read EXCEPT ![r].words[j] = <<got.word>>]
  BY DEF ReadValue
<1>3. NoFault(r) \/ Fault(r)
  BY <1>2 DEF Charge
<1>4. got.word \in Words
  <2>1. At(StorageOf(r, chain[read[r].block]), read[r].slots[j][1]) \in Words
    BY <1>1, StorageAtBlock
  <2>2. QED BY <1>2, <2>1, Constants DEF Fetched
<1> DEFINE words == [read[r].words EXCEPT ![j] = <<got.word>>]
           q == [read[r] EXCEPT !.words = words]
<1>5. read[r].words \in Seq(Seq(Words)) /\ j \in 1..Len(read[r].words)
  BY <1>1, Known DEF ReadState, Fits
<1>6. words \in Seq(Seq(Words)) /\ Len(words) = Len(read[r].words)
  BY <1>4, <1>5
<1>7. read' = [read EXCEPT ![r] = q]
  BY <1>2, Known
<1> HIDE DEF words
<1>8. q \in ReadState
  BY <1>6, Known DEF ReadState
<1>9. /\ q.pc = "locating" /\ q.block = read[r].block /\ q.prog = read[r].prog
      /\ q.slots = read[r].slots /\ q.words = words /\ q.target = read[r].target
  BY <1>1, Known DEF ReadState
<1> HIDE DEF q
<1>10. Fits(q, current[r], chain)
  BY <1>1, <1>6, <1>9, Known DEF Fits, Serving
<1>11. Goes(read[r], q)
  BY <1>1, <1>9 DEF Goes, Serving
<1>12. QED BY <1>1, <1>3, <1>7, <1>8, <1>10, <1>11, GoesOn

LEMMA SlotsForTypes ==
  ASSUME NEW slot \in Slot, NEW header \in Words
  PROVE  SlotsFor(slot, header) \in Seq(Slot)
<1>1. <<slot>> \in Seq(Slot)
  OBVIOUS
<1>2. DataSlots(slot, 1) \in [1..1 -> Slot]
  <2>1. [slot EXCEPT !.part = 1] \in Slot
    BY DEF Slot
  <2>2. QED BY <2>1 DEF DataSlots
<1>3. DataSlots(slot, 1) \in Seq(Slot)
  <2>1. PICK n \in Nat : DataSlots(slot, 1) \in [1..n -> Slot]
    BY <1>2
  <2>2. QED BY <2>1
<1>4. <<slot>> \o DataSlots(slot, 1) \in Seq(Slot)
  BY <1>1, <1>3
<1>5. QED BY <1>1, <1>4 DEF SlotsFor

LEMMA LocateProgress ==
  ASSUME GatewayInv, NEW r \in Requests, read[r].target \in Targets, NEW i, Locate(r, i)
  PROVE  Progress(r)
<1> DEFINE command == read[r].prog[i]
           slot == SlotOf(command, [j \in RefsOf(command) |-> read[r].words[j][1]])
<1>1. /\ read[r].pc = "locating" /\ i \in 1..Len(read[r].prog)
      /\ chain' = chain /\ UNCHANGED <<current, shaken>>
      /\ \A j \in RefsOf(command) : j < i /\ read[r].words[j] # <<>>
  BY DEF Locate
<1>2. /\ command \in Command
      /\ read[r].slots \in Seq(Seq(Slot)) /\ read[r].words \in Seq(Seq(Words))
      /\ Len(read[r].slots) = Len(read[r].prog) /\ Len(read[r].words) = Len(read[r].prog)
      /\ Len(read[r].prog) \in Nat
  BY <1>1, Known DEF ReadState, Fits
<1>3. slot \in Slot
  <2>1. ASSUME NEW j \in RefsOf(command)
        PROVE  read[r].words[j][1] \in Words
    <3>1. j \in Nat \ {0}
      BY <1>2, OperandTypes DEF RefsOf
    <3>2. j \in 1..Len(read[r].words)
      BY <1>1, <1>2, <3>1
    <3>3. read[r].words[j] \in Seq(Words) /\ read[r].words[j] # <<>>
      BY <1>1, <1>2, <3>2
    <3>4. QED BY <3>3
  <2> HIDE DEF command
  <2>2. QED BY <1>2, <2>1, SlotOfType
<1>4. PICK found \in Seq(Slot) :
        /\ NoFault(r) \/ Fault(r)
        /\ read' = [read EXCEPT ![r].slots[i] = found]
  <2>1. CASE NoFault(r) /\ read' = [read EXCEPT ![r].slots[i] = <<slot>>]
    <3>1. <<slot>> \in Seq(Slot)
      <4> HIDE DEF slot
      <4>1. QED BY <1>3
    <3>2. QED BY <2>1, <3>1
  <2>2. CASE \E got \in Fetched(r, slot) :
               /\ Charge(r, got.fault)
               /\ read' = [read EXCEPT ![r].slots[i] = SlotsFor(slot, got.word)]
    <3>1. PICK got \in Fetched(r, slot) :
               /\ Charge(r, got.fault)
               /\ read' = [read EXCEPT ![r].slots[i] = SlotsFor(slot, got.word)]
      BY <2>2
    <3> HIDE DEF slot
    <3>2. At(StorageOf(r, chain[read[r].block]), slot) \in Words
      BY <1>1, StorageAtBlock
    <3>3. got.word \in Words
      BY <3>1, <3>2, Constants DEF Fetched
    <3>4. QED BY <1>3, <3>1, <3>3, SlotsForTypes DEF Charge
  <2>3. QED BY <2>1, <2>2 DEF Locate
<1> DEFINE slots == [read[r].slots EXCEPT ![i] = found]
           q == [read[r] EXCEPT !.slots = slots]
<1>5. slots \in Seq(Seq(Slot)) /\ Len(slots) = Len(read[r].prog)
  BY <1>1, <1>2, <1>4
<1>6. read' = [read EXCEPT ![r] = q]
  BY <1>4, Known
<1> HIDE DEF slots
<1>7. q \in ReadState
  BY <1>5, Known DEF ReadState
<1>8. /\ q.pc = "locating" /\ q.block = read[r].block /\ q.prog = read[r].prog
      /\ q.slots = slots /\ q.words = read[r].words /\ q.target = read[r].target
  BY <1>1, Known DEF ReadState
<1> HIDE DEF q
<1>9. Fits(q, current[r], chain)
  BY <1>1, <1>2, <1>5, <1>8, Known DEF Fits, Serving
<1>10. Goes(read[r], q)
  BY <1>1, <1>8 DEF Goes, Serving
<1>11. QED BY <1>1, <1>4, <1>6, <1>7, <1>9, <1>10, GoesOn

LEMMA ProveProgress ==
  ASSUME GatewayInv, NEW r \in Requests, Prove(r)
  PROVE  Progress(r)
<1>1. read[r].pc = "locating" /\ read[r].pc \in Serving /\ chain' = chain
  BY DEF Prove, Serving
<1>2. CASE Fail(r)
  BY <1>1, <1>2, FailProgress
<1>3. CASE /\ NoFault(r) /\ UNCHANGED <<current, shaken>>
           /\ read' = [read EXCEPT ![r].pc = "header", ![r].proof = <<chain[read[r].block]>>]
  <2> DEFINE proof == <<chain[read[r].block]>>
             q == [read[r] EXCEPT !.pc = "header", !.proof = proof]
  <2>1. chain[read[r].block] \in States
    BY <1>1, Known DEF Fits
  <2>2. proof \in Seq(States)
    BY <2>1
  <2>3. read' = [read EXCEPT ![r] = q]
    BY <1>3, Known
  <2> HIDE DEF proof
  <2>4. q \in ReadState
    BY <2>2, Known DEF ReadState
  <2>5. /\ q.pc = "header" /\ q.block = read[r].block /\ q.prog = read[r].prog
        /\ q.target = read[r].target
    BY Known DEF ReadState
  <2> HIDE DEF q
  <2>6. Fits(q, current[r], chain)
    BY <1>1, <2>5, Known DEF Fits, Serving
  <2>7. Goes(read[r], q)
    BY <1>1, <2>5 DEF Goes, Serving
  <2>8. QED BY <1>1, <1>3, <2>3, <2>4, <2>6, <2>7, GoesOn
<1>4. QED BY <1>2, <1>3 DEF Prove

LEMMA GetHeaderProgress ==
  ASSUME GatewayInv, NEW r \in Requests, GetHeader(r)
  PROVE  Progress(r)
<1>1. read[r].pc = "header" /\ read[r].pc \in Serving /\ chain' = chain
  BY DEF GetHeader, Serving
<1>2. CASE Fail(r)
  BY <1>1, <1>2, FailProgress
<1>3. CASE /\ NoFault(r) /\ UNCHANGED <<current, shaken>>
           /\ read' = [read EXCEPT ![r].pc = "served", ![r].root = <<chain[read[r].block]>>]
  <2> DEFINE root == <<chain[read[r].block]>>
             q == [read[r] EXCEPT !.pc = "served", !.root = root]
  <2>1. chain[read[r].block] \in States /\ chain[read[r].block] \in current[r]
    BY <1>1, Known DEF Fits
  <2>2. root \in Seq(States) /\ Len(root) = 1 /\ root[1] \in current[r]
    BY <2>1
  <2>3. read' = [read EXCEPT ![r] = q]
    BY <1>3, Known
  <2> HIDE DEF root
  <2>4. q \in ReadState
    BY <2>2, Known DEF ReadState
  <2>5. /\ q.pc = "served" /\ q.block = read[r].block /\ q.prog = read[r].prog
        /\ q.target = read[r].target /\ q.root = root
    BY Known DEF ReadState
  <2> HIDE DEF q
  <2>6. Fits(q, current[r], chain)
    BY <1>1, <2>2, <2>5, Known DEF Fits, Serving
  <2>7. Goes(read[r], q)
    BY <1>1, <2>5 DEF Goes, Serving
  <2>8. QED BY <1>1, <1>3, <2>3, <2>4, <2>6, <2>7, GoesOn
<1>4. QED BY <1>2, <1>3 DEF GetHeader

LEMMA GatewayProgress ==
  ASSUME GatewayInv, NEW r \in Requests, read[r].target \in Targets, GatewayStep(r)
  PROVE  Progress(r)
BY GetBlockProgress, ProveProgress, GetHeaderProgress, ReadValueProgress, LocateProgress
   DEF GatewayStep

-----------------------------------------------------------------------------
(* The client's callback *)

LEMMA NoRefs ==
  ASSUME NEW path \in Seq(Operand), \A k \in DOMAIN path : ~ path[k].ref
  PROVE  Static(path) \in Command /\ ~ Static(path).dynamic /\ RefsOf(Static(path)) = {}
<1>1. Static(path) \in Command /\ ~ Static(path).dynamic /\ Static(path).path = path
  BY DEF Static, Command
<1>2. {k \in DOMAIN path : path[k].ref} = {}
  OBVIOUS
<1>3. QED BY <1>1, <1>2 DEF RefsOf

\* its paths are based, and it refers back to static commands only
Verifiable(prog) == Backward(prog) /\ Based(prog) /\ StaticRefs(prog)

\* A program that is asked for refers backward only, to static commands.
LEMMA ProgramTypes ==
  /\ ParamsProgram \in Seq(Command) /\ Verifiable(ParamsProgram) /\ Len(ParamsProgram) = 2
  /\ ~ ParamsProgram[1].dynamic
  /\ \A q \in Questions :
       /\ RecordProgram(q) \in Seq(Command) /\ Verifiable(RecordProgram(q))
       /\ Len(RecordProgram(q)) = 2
<1>1. /\ Const(0) \in Operand /\ Const(1) \in Operand /\ Ref(1) \in Operand
      /\ ~ Const(0).ref /\ ~ Const(1).ref /\ Ref(1).arg = 1
      /\ \A w \in Words : Const(w) \in Operand /\ ~ Const(w).ref
  BY Constants DEF Const, Ref, Operand
<1>2. ASSUME NEW path \in Seq(Operand)
      PROVE  /\ Static(path) \in Command /\ Static(path).path = path /\ ~ Static(path).dynamic
             /\ Dynamic(path) \in Command /\ Dynamic(path).path = path
  BY DEF Static, Dynamic, Command
<1>3. ASSUME NEW w \in Words
      PROVE  /\ Static(<<Const(w)>>) \in Command /\ RefsOf(Static(<<Const(w)>>)) = {}
             /\ ~ Static(<<Const(w)>>).dynamic
             /\ Static(<<Const(w)>>).path # <<>> /\ ~ Static(<<Const(w)>>).path[1].ref
  <2> DEFINE path == <<Const(w)>>
  <2>1. path \in Seq(Operand) /\ path # <<>> /\ DOMAIN path = {1} /\ path[1] = Const(w)
    BY <1>1
  <2> HIDE DEF path
  <2>2. \A k \in DOMAIN path : ~ path[k].ref
    BY <1>1, <2>1
  <2>3. Static(path) \in Command /\ ~ Static(path).dynamic /\ RefsOf(Static(path)) = {}
    BY <2>1, <2>2, NoRefs
  <2>4. Static(path).path = path /\ path # <<>> /\ ~ path[1].ref
    <3>1. Static(path).path = path
      BY <1>2, <2>1
    <3>2. path[1] = Const(w) /\ ~ Const(w).ref
      BY <1>1, <2>1
    <3>3. QED BY <2>1, <3>1, <3>2
  <2>5. QED BY <2>3, <2>4 DEF path
<1>4. /\ ParamsProgram \in Seq(Command) /\ Verifiable(ParamsProgram) /\ Len(ParamsProgram) = 2
      /\ ~ ParamsProgram[1].dynamic
  <2> DEFINE a == Static(<<Const(0)>>)
             b == Static(<<Const(1)>>)
  <2>1. /\ a \in Command /\ b \in Command /\ RefsOf(a) = {} /\ RefsOf(b) = {} /\ ~ a.dynamic
        /\ a.path # <<>> /\ ~ a.path[1].ref /\ b.path # <<>> /\ ~ b.path[1].ref
    BY <1>3, Constants
  <2>2. ParamsProgram = <<a, b>>
    BY DEF ParamsProgram, PRICE_SLOT, COMMIT_SLOT
  <2> HIDE DEF a, b
  <2>3. /\ <<a, b>> \in Seq(Command) /\ Len(<<a, b>>) = 2 /\ <<a, b>>[1] = a /\ <<a, b>>[2] = b
        /\ DOMAIN <<a, b>> = {1, 2}
    BY <2>1
  <2>4. Verifiable(<<a, b>>)
    BY <2>1, <2>3 DEF Verifiable, Backward, Based, StaticRefs
  <2>5. QED BY <2>1, <2>2, <2>3, <2>4
<1>5. ASSUME NEW q \in Questions
      PROVE  /\ RecordProgram(q) \in Seq(Command) /\ Verifiable(RecordProgram(q))
             /\ Len(RecordProgram(q)) = 2
  <2> DEFINE first == <<Const(0), Const(q.node)>>
             a == Static(first)
             head == <<Const(q.base), Ref(1), Const(q.node)>>
             tail == [k \in DOMAIN q.keys |-> Const(q.keys[k])]
             path == head \o tail
             b == Dynamic(path)
  <2>1. q.base \in Words /\ q.node \in Words /\ q.keys \in Seq(Words)
    BY QuestionFields
  <2>2. /\ first \in Seq(Operand) /\ head \in Seq(Operand) /\ Len(head) = 3
        /\ head[1] = Const(q.base) /\ head[2] = Ref(1) /\ head[3] = Const(q.node)
        /\ DOMAIN first = {1, 2} /\ first[1] = Const(0) /\ first[2] = Const(q.node)
    BY <1>1, <2>1
  <2>3. Len(q.keys) \in Nat /\ DOMAIN q.keys = 1..Len(q.keys) /\ \A k \in 1..Len(q.keys) : q.keys[k] \in Words
    BY <2>1, LenProperties, ElementOfSeq
  <2>4. tail \in Seq(Operand) /\ Len(tail) = Len(q.keys)
        /\ \A k \in 1..Len(q.keys) : tail[k] = Const(q.keys[k])
    <3>1. tail \in [1..Len(q.keys) -> Operand]
      BY <1>1, <2>3
    <3>2. QED BY <2>3, <3>1
  <2>15. a.path = first /\ first # <<>> /\ ~ first[1].ref /\ ~ a.dynamic
    BY <1>1, <1>2, <2>2
  <2>5. a \in Command /\ RefsOf(a) = {}
    <3> HIDE DEF first
    <3>1. \A k \in DOMAIN first : ~ first[k].ref
      BY <1>1, <2>1, <2>2
    <3>2. QED BY <2>2, <3>1, NoRefs
  <2> HIDE DEF a, head, tail
  <2>6. /\ path \in Seq(Operand) /\ Len(path) = 3 + Len(q.keys)
        /\ \A i \in 1..(3 + Len(q.keys)) :
             path[i] = IF i <= 3 THEN head[i] ELSE tail[i - 3]
    <3>1. head \in Seq(Operand) /\ tail \in Seq(Operand)
      BY <2>2, <2>4
    <3>2. /\ path \in Seq(Operand) /\ Len(path) = Len(head) + Len(tail)
          /\ \A i \in 1..(Len(head) + Len(tail)) :
               path[i] = IF i <= Len(head) THEN head[i] ELSE tail[i - Len(head)]
      BY <3>1, ConcatProperties
    <3> HIDE DEF path
    <3>3. Len(head) = 3 /\ Len(tail) = Len(q.keys)
      BY <2>2, <2>4
    <3>4. QED BY <3>2, <3>3
  <2> HIDE DEF path
  <2>7. b \in Command /\ b.path = path
    BY <1>2, <2>6
  <2>16. path # <<>> /\ ~ path[1].ref
    BY <1>1, <2>1, <2>2, <2>3, <2>6
  <2> HIDE DEF b
  <2>8. ASSUME NEW j \in RefsOf(b)
        PROVE  j = 1
    <3>1. PICK k \in DOMAIN path : path[k].ref /\ j = path[k].arg
      BY <2>7 DEF RefsOf
    <3>2. k \in 1..(3 + Len(q.keys))
      BY <2>6, <3>1
    <3>3. CASE k \in {1, 3}
      BY <1>1, <2>1, <2>2, <2>3, <2>6, <3>1, <3>2, <3>3
    <3>4. CASE k = 2
      BY <1>1, <2>2, <2>3, <2>6, <3>1, <3>2, <3>4
    <3>5. CASE k > 3
      <4>1. k - 3 \in 1..Len(q.keys) /\ path[k] = tail[k - 3]
        BY <2>3, <2>6, <3>2, <3>5
      <4>2. ~ path[k].ref
        BY <1>1, <2>3, <2>4, <4>1
      <4>3. QED BY <3>1, <4>2
    <3>6. QED BY <2>3, <3>2, <3>3, <3>4, <3>5
  <2>9. RecordProgram(q) = <<a, b>>
    BY DEF RecordProgram, a, b, path, head, tail, RECORD_VERSIONS_SLOT
  <2>10. /\ <<a, b>> \in Seq(Command) /\ Len(<<a, b>>) = 2 /\ <<a, b>>[1] = a /\ <<a, b>>[2] = b
         /\ DOMAIN <<a, b>> = {1, 2}
    BY <2>5, <2>7
  <2> HIDE DEF first
  <2>11. Verifiable(<<a, b>>)
    BY <2>5, <2>7, <2>8, <2>10, <2>15, <2>16 DEF Verifiable, Backward, Based, StaticRefs
  <2>12. QED BY <2>9, <2>10, <2>11
<1>6. QED BY <1>4, <1>5

\* values are read by prog in storage, but for zeros that are lost from the
\* dynamic ones
ReadIn(values, storage, prog) ==
  LET exact == Reading(storage, prog) IN
  /\ Len(values) = Len(prog) /\ Len(exact) = Len(prog) /\ DOMAIN exact = 1..Len(prog)
  /\ \A i \in 1..Len(prog) :
       /\ values[i] \in {exact[i], [k \in DOMAIN exact[i] |-> Unpadded[exact[i][k]]]}
       /\ ~ prog[i].dynamic => values[i] = exact[i]

LEMMA CallbackEnds ==
  ASSUME GatewayInv, NEW r \in Requests, read[r].target \in Targets,
         Verifiable(read[r].prog), Callback(r)
  PROVE  /\ GatewayInv' /\ chain' = chain /\ read[r].pc = "served"
         /\ \E q \in ReadState :
              /\ read' = [read EXCEPT ![r] = q]
              /\ q.pc \in {"accepted", "reverted"} /\ q.target = read[r].target
              /\ q.pc = "accepted" =>
                   \E state \in current[r] :
                     ReadIn(q.values, StorageOf(r, state), read[r].prog)
<1> DEFINE prog == read[r].prog
           state == read[r].root[1]
           witness == Witness(read[r].slots)
<1>1. /\ read[r].pc = "served" /\ Forget(r) /\ chain' = chain /\ mishaps' = mishaps
  BY DEF Callback
<1>2. PICK lenient \in BOOLEAN :
        read' = [read EXCEPT ![r] =
         [@ EXCEPT !.pc = IF Verdict(r, lenient).ok THEN "accepted" ELSE "reverted",
                   !.values = Verdict(r, lenient).values, !.block = 0,
                   !.slots = <<>>, !.words = <<>>, !.proof = <<>>, !.root = <<>>]]
  BY DEF Callback
<1> DEFINE got == Verdict(r, lenient)
           pc == IF got.ok THEN "accepted" ELSE "reverted"
           values == got.values
           q == [read[r] EXCEPT !.pc = pc, !.values = values, !.block = 0,
                   !.slots = <<>>, !.words = <<>>, !.proof = <<>>, !.root = <<>>]
<1>3. read' = [read EXCEPT ![r] = q]
  BY <1>2, Known
<1>4. prog \in Seq(Command) /\ state \in States /\ state \in current[r]
  BY <1>1, Known DEF ReadState, Fits
<1>5. IsContent(StorageOf(r, state))
  BY <1>4, StateFields DEF StorageOf
<1>6. got = Verified(StorageOf(r, state), prog, witness, lenient) \/ got = Refused
  BY DEF Verdict
<1> HIDE DEF prog, state, witness, got
<1>7. values \in Seq(Seq(Words))
  <2>1. Verified(StorageOf(r, state), prog, witness, lenient).values \in Seq(Seq(Words))
    BY <1>4, <1>5, VerifiedTypes
  <2>2. QED BY <1>6, <2>1, EmptyValues
<1>8. pc = "accepted" => ReadIn(values, StorageOf(r, state), prog)
  <2> SUFFICES ASSUME got.ok PROVE ReadIn(values, StorageOf(r, state), prog)
    OBVIOUS
  <2>1. got = Verified(StorageOf(r, state), prog, witness, lenient)
    BY <1>6, EmptyValues
  <2>2. Verified(StorageOf(r, state), prog, witness, lenient).ok
    BY <2>1
  <2>3. Based(prog) /\ StaticRefs(prog) /\ Backward(prog)
    BY DEF prog, Verifiable
  <2> DEFINE v == Verified(StorageOf(r, state), prog, witness, lenient).values
             exact == Reading(StorageOf(r, state), prog)
  <2>4. /\ Len(v) = Len(exact) /\ DOMAIN exact = 1..Len(prog)
        /\ \A i \in DOMAIN exact :
             /\ v[i] \in {exact[i], [k \in DOMAIN exact[i] |-> Unpadded[exact[i][k]]]}
             /\ ~ prog[i].dynamic => v[i] = exact[i]
    BY <1>4, <1>5, <2>2, <2>3, VerifiedSound
  <2>5. Len(exact) = Len(prog)
    BY <1>4, <1>5, <2>3, ReadingValues
  <2> HIDE DEF exact
  <2>6. values = v
    BY <2>1
  <2> HIDE DEF v, values
  <2>7. QED BY <2>4, <2>5, <2>6 DEF ReadIn, exact
<1>9. pc \in {"accepted", "reverted"}
  OBVIOUS
<1> HIDE DEF pc, values
<1>10. /\ <<>> \in Seq(Seq(Slot)) /\ <<>> \in Seq(Seq(Words)) /\ <<>> \in Seq(States)
  OBVIOUS
<1>11. q \in ReadState
  BY <1>7, <1>9, <1>10, Known DEF ReadState
<1>12. q.pc = pc /\ q.values = values /\ q.block = 0 /\ q.target = read[r].target
  BY Known DEF ReadState
<1> HIDE DEF q
<1>13. Fits(q, current'[r], chain)
  BY <1>9, <1>11, <1>12, RestingFits
<1>14. mishaps' \in 0..MaxMishaps
  BY <1>1, Known
<1>15. GatewayInv'
  BY <1>1, <1>3, <1>11, <1>13, <1>14, ForgetTypes, OneRead
<1>16. pc = "accepted" =>
         \E s \in current[r] : ReadIn(values, StorageOf(r, s), read[r].prog)
  BY <1>4, <1>8 DEF prog
<1>17. QED BY <1>1, <1>3, <1>9, <1>11, <1>12, <1>15, <1>16

-----------------------------------------------------------------------------
(* What the programs read *)

LEMMA ExactlyStatic ==
  ASSUME NEW storage, NEW command, NEW words, ~ command.dynamic
  PROVE  Exactly(storage, command, words) = <<At(storage, SlotOf(command, words))>>
BY DEF Exactly

\* registerParams reads the price of the registrar
LEMMA ParamsReading ==
  ASSUME NEW state \in States, NEW t \in Registrars, NEW values,
         ReadIn(values, state[t], ParamsProgram)
  PROVE  Len(values) = 2 /\ values[1] = <<Prices[t]>>
<1> DEFINE storage == state[t]
           word == Headers(storage, ParamsProgram)
           command == ParamsProgram[1]
<1>1. t \in Targets /\ IsContent(storage) /\ PriceOf(state, t) = Prices[t]
  BY StateFields, Constants DEF Laid
<1>2. Reading(storage, ParamsProgram)[1] = Exactly(storage, command, word)
  BY <1>1, ProgramTypes, ReadingValues DEF Verifiable
<1>3. command = Static(<<Const(0)>>)
  BY DEF ParamsProgram, PRICE_SLOT
<1> HIDE DEF word, command
<1>4. SlotOf(command, word) = SlotAt(<<0>>)
  <2> DEFINE path == <<Const(0)>>
             slots == [k \in DOMAIN path |-> IF path[k].ref THEN word[path[k].arg] ELSE path[k].arg]
  <2>1. DOMAIN path = {1} /\ ~ path[1].ref /\ path[1].arg = 0
    BY DEF Const
  <2>2. command.path = path
    BY <1>3 DEF Static
  <2>3. SlotOf(command, word) = [path |-> slots, part |-> 0]
    BY <2>2 DEF SlotOf
  <2> HIDE DEF path
  <2>4. slots = [k \in {1} |-> 0]
    BY <2>1
  <2>5. [k \in {1} |-> 0] = <<0>>
    OBVIOUS
  <2> HIDE DEF slots
  <2>6. QED BY <2>3, <2>4, <2>5 DEF SlotAt
<1>5. ~ command.dynamic
  BY <1>3 DEF Static
<1>6. Reading(storage, ParamsProgram)[1] = <<Prices[t]>>
  BY <1>1, <1>2, <1>4, <1>5, ExactlyStatic DEF PriceOf, PRICE_SLOT
<1>7. QED BY <1>5, <1>6, ProgramTypes DEF ReadIn, command

\* the slot of a record is the one that its program leads to
LEMMA RecordPath ==
  ASSUME NEW q \in Questions, NEW v \in Words, NEW word, word[1] = v
  PROVE  /\ SlotOf(RecordProgram(q)[1], word) = SlotAt(<<RECORD_VERSIONS_SLOT, q.node>>)
         /\ ~ RecordProgram(q)[1].dynamic /\ RecordProgram(q)[2].dynamic
         /\ SlotOf(RecordProgram(q)[2], word) = SlotAt(<<q.base, v, q.node>> \o q.keys)
<1> DEFINE first == <<Const(0), Const(q.node)>>
           head == <<Const(q.base), Ref(1), Const(q.node)>>
           tail == [k \in DOMAIN q.keys |-> Const(q.keys[k])]
           path == head \o tail
           Value(operand) == IF operand.ref THEN word[operand.arg] ELSE operand.arg
           long == <<q.base, v, q.node>> \o q.keys
           n == Len(q.keys)
<1>1. RecordProgram(q)[1] = Static(first) /\ RecordProgram(q)[2] = Dynamic(path)
  BY DEF RecordProgram, RECORD_VERSIONS_SLOT
<1>2. q.base \in Words /\ q.node \in Words /\ q.keys \in Seq(Words)
  BY QuestionFields
<1>3. n \in Nat /\ DOMAIN q.keys = 1..n /\ \A k \in 1..n : q.keys[k] \in Words
  BY <1>2, LenProperties, ElementOfSeq
<1>4. /\ \A w : Value(Const(w)) = w
      /\ Value(Ref(1)) = v
  BY DEF Const, Ref
<1>5. SlotOf(Static(first), word) = SlotAt(<<0, q.node>>)
  <2>1. DOMAIN first = {1, 2} /\ first[1] = Const(0) /\ first[2] = Const(q.node)
    OBVIOUS
  <2>2. Static(first).path = first
    BY DEF Static
  <2>3. SlotOf(Static(first), word) = [path |-> [k \in DOMAIN first |-> Value(first[k])], part |-> 0]
    BY <2>2 DEF SlotOf
  <2> HIDE DEF Value, first
  <2>4. [k \in DOMAIN first |-> Value(first[k])] = [k \in {1, 2} |-> IF k = 1 THEN 0 ELSE q.node]
    BY <1>4, <2>1
  <2>5. [k \in {1, 2} |-> IF k = 1 THEN 0 ELSE q.node] = <<0, q.node>>
    OBVIOUS
  <2>6. QED BY <2>3, <2>4, <2>5 DEF SlotAt
<1>6. /\ path \in Seq(Operand) /\ Len(path) = 3 + n
      /\ path[1] = Const(q.base) /\ path[2] = Ref(1) /\ path[3] = Const(q.node)
      /\ \A i \in 1..(3 + n) : i > 3 => path[i] = Const(q.keys[i - 3])
  <2>1. \A w \in Words : Const(w) \in Operand
    BY DEF Const, Operand
  <2>2. head \in Seq(Operand) /\ Len(head) = 3
        /\ head[1] = Const(q.base) /\ head[2] = Ref(1) /\ head[3] = Const(q.node)
    <3>1. Ref(1) \in Operand
      BY DEF Ref, Operand
    <3>2. QED BY <1>2, <2>1, <3>1
  <2>3. tail \in Seq(Operand) /\ Len(tail) = n
        /\ \A k \in 1..n : tail[k] = Const(q.keys[k])
    <3>1. tail \in [1..n -> Operand]
      BY <1>3, <2>1
    <3>2. QED BY <1>3, <3>1
  <2> HIDE DEF head, tail
  <2>4. /\ path \in Seq(Operand) /\ Len(path) = Len(head) + Len(tail)
        /\ \A i \in 1..(Len(head) + Len(tail)) :
             path[i] = IF i <= Len(head) THEN head[i] ELSE tail[i - Len(head)]
    <3>1. head \in Seq(Operand) /\ tail \in Seq(Operand)
      BY <2>2, <2>3
    <3>2. QED BY <3>1, ConcatProperties
  <2> HIDE DEF path
  <2>5. /\ Len(path) = 3 + n
        /\ \A i \in 1..(3 + n) : path[i] = IF i <= 3 THEN head[i] ELSE tail[i - 3]
    BY <2>2, <2>3, <2>4
  <2>6. path[1] = head[1] /\ path[2] = head[2] /\ path[3] = head[3]
    BY <1>3, <2>5
  <2>7. ASSUME NEW i \in 1..(3 + n), i > 3
        PROVE  path[i] = Const(q.keys[i - 3])
    <3>1. i - 3 \in 1..n /\ path[i] = tail[i - 3]
      BY <1>3, <2>5, <2>7
    <3>2. QED BY <2>3, <3>1
  <2>8. QED BY <2>2, <2>4, <2>5, <2>6, <2>7
<1> HIDE DEF head, tail, path, Value
<1>7. /\ long \in Seq(Words) /\ Len(long) = 3 + n
      /\ long[1] = q.base /\ long[2] = v /\ long[3] = q.node
      /\ \A k \in 1..n : long[k + 3] = q.keys[k]
  BY <1>2, LongPath
<1> HIDE DEF long
<1>8. ASSUME NEW i \in 1..(3 + n)
      PROVE  Value(path[i]) = long[i]
  <2>1. CASE i \in {1, 2, 3}
    BY <1>4, <1>6, <1>7, <2>1
  <2>2. CASE i > 3
    <3>1. i - 3 \in 1..n /\ (i - 3) + 3 = i
      BY <1>3, <2>2
    <3>2. long[(i - 3) + 3] = q.keys[i - 3]
      BY <1>7, <3>1
    <3>3. QED BY <1>4, <1>6, <2>2, <3>1, <3>2
  <2>3. QED BY <1>3, <2>1, <2>2
<1>9. [k \in DOMAIN path |-> Value(path[k])] = long
  <2>1. DOMAIN path = 1..(3 + n) /\ DOMAIN long = 1..(3 + n)
    BY <1>6, <1>7
  <2>2. long = [k \in 1..(3 + n) |-> long[k]]
    BY <1>7, <2>1
  <2>3. QED BY <1>8, <2>1, <2>2
<1>10. Dynamic(path).path = path /\ Dynamic(path).dynamic /\ ~ Static(first).dynamic
  BY DEF Dynamic, Static
<1>11. SlotOf(Dynamic(path), word) = [path |-> [k \in DOMAIN path |-> Value(path[k])], part |-> 0]
  BY <1>10 DEF SlotOf, Value
<1>12. SlotOf(Dynamic(path), word) = SlotAt(long)
  BY <1>9, <1>11 DEF SlotAt
<1>13. QED BY <1>1, <1>5, <1>10, <1>12 DEF long, RECORD_VERSIONS_SLOT

\* what is returned for a question is the record of the resolver
LEMMA RecordReading ==
  ASSUME NEW state \in States, NEW t \in Resolvers, NEW q \in Questions, NEW values,
         ReadIn(values, state[t], RecordProgram(q))
  PROVE  LET v == RecordIn(state[t], q) IN
         Returned(q, values) \in
           {Returned(q, <<<<Zero>>, <<v>>>>), Returned(q, <<<<Zero>>, <<Unpadded[v]>>>>)}
<1> DEFINE storage == state[t]
           prog == RecordProgram(q)
           word == Headers(storage, prog)
           v == RecordIn(storage, q)
           version == VersionIn(storage, q.node)
           slot == RecordSlot(storage, q)
<1>1. /\ t \in Targets /\ storage \in Contents /\ IsContent(storage) /\ Laid(state)
      /\ q.node \in Words
  BY StateFields, Constants, QuestionFields
<1>2. prog \in Seq(Command) /\ Backward(prog) /\ Len(prog) = 2
  BY ProgramTypes DEF Verifiable
<1>3. Headers(storage, prog) = [i \in 1..Len(prog) |-> At(storage, SlotOf(prog[i], word))]
  BY <1>2, HeadersUnfold
<1>4. word[1] = At(storage, SlotOf(prog[1], word))
  BY <1>2, <1>3
<1>5. Reading(storage, prog)[2] = Exactly(storage, prog[2], word)
  BY <1>1, <1>2, ReadingValues
<1> HIDE DEF word
<1>6. word[1] = version
  <2>1. word[1] \in Words
    BY <1>1, <1>4, AtType
  <2>2. SlotOf(prog[1], word) = SlotAt(<<RECORD_VERSIONS_SLOT, q.node>>)
    BY <2>1, RecordPath
  <2>3. QED BY <1>4, <2>2 DEF VersionIn
<1>7. version \in Words
  BY <1>1, StorageFields DEF VersionIn
<1>8. SlotOf(prog[2], word) = slot /\ prog[2].dynamic
  BY <1>6, <1>7, RecordPath DEF RecordSlot
<1> HIDE DEF prog
<1>9. Long[v] = 0
  <2>1. slot \in Slot /\ ~ (Len(slot.path) = 2)
    BY <1>1, RecordSlotFields
  <2> HIDE DEF slot
  <2>2. \A s \in DOMAIN storage :
          \/ Len(s.path) = 2 /\ storage[s] \in 0..MaxVersion
          \/ Len(s.path) >= 3 /\ storage[s] \in Values
    BY <1>1, Zenon DEF Laid
  <2>4. slot \in DOMAIN storage => storage[slot] \in Values
    BY <2>1, <2>2, Zenon
  <2>5. v = IF slot \in DOMAIN storage THEN storage[slot] ELSE Zero
    BY DEF RecordIn, At, slot
  <2>6. Long[Zero] = 0 /\ \A w \in Values : Long[w] = 0
    BY StorageAssumption, L1ResolverAssumption
  <2>7. QED BY <2>4, <2>5, <2>6, Zenon
<1>10. At(storage, slot) = v
  BY DEF RecordIn
<1> HIDE DEF slot, v
<1>11. Exactly(storage, prog[2], word) = <<v>>
  BY <1>8, <1>9, <1>10 DEF Exactly
<1>12. values[2] \in {<<v>>, [k \in DOMAIN <<v>> |-> Unpadded[<<v>>[k]]]}
  <2>1. ReadIn(values, storage, prog)
    BY DEF prog
  <2>2. values[2] \in {Reading(storage, prog)[2],
                       [k \in DOMAIN Reading(storage, prog)[2] |-> Unpadded[Reading(storage, prog)[2][k]]]}
    BY <1>2, <2>1 DEF ReadIn
  <2>3. Reading(storage, prog)[2] = <<v>>
    BY <1>5, <1>11
  <2>4. QED BY <2>2, <2>3
<1>13. values[2][1] \in {v, Unpadded[v]}
  BY <1>12
<1>14. \A w : <<<<Zero>>, <<w>>>>[2][1] = w
  OBVIOUS
<1>15. Returned(q, values) \in {Returned(q, <<<<Zero>>, <<v>>>>), Returned(q, <<<<Zero>>, <<Unpadded[v]>>>>)}
  BY <1>13, <1>14 DEF Returned
<1>16. QED BY <1>15 DEF v

-----------------------------------------------------------------------------
(* The names *)

LEMMA NamesKept ==
  ASSUME OwnersStay, RegisteredOwns, chain' = chain,
         \A c \in Requests : client'[c].pc = "registered" =>
           client[c].pc = "registered" /\ client'[c].node = client[c].node
  PROVE  OwnersStay' /\ RegisteredOwns'
<1>1. Height' = Height /\ HeadState' = HeadState
  BY DEF Height, HeadState
<1>2. OwnersStay'
  BY <1>1 DEF OwnersStay
<1>3. RegisteredOwns'
  BY <1>1 DEF RegisteredOwns
<1>4. QED BY <1>2, <1>3

LEMMA NamesMined ==
  ASSUME GatewayInv, OwnersStay, NEW state \in States, Mine(state),
         \A d \in Nodes : OwnerIn(HeadState, d) # Zero => OwnerIn(state, d) = OwnerIn(HeadState, d),
         \A c \in Requests : client'[c].pc = "registered" => OwnerIn(state, client'[c].node) = c
  PROVE  OwnersStay' /\ RegisteredOwns'
<1>1. /\ Height' = Height + 1 /\ HeadState' = state /\ chain'[Height + 1] = state
      /\ \A n \in 1..Height : chain'[n] = chain[n]
  BY MineKeeps
<1>2. Height \in Nat /\ HeadState = chain[Height]
  BY KnownChain DEF HeadState
<1>3. ASSUME NEW n \in 1..(Height' - 1), NEW d \in Nodes
      PROVE  OwnerIn(chain'[n], d) # Zero => OwnerIn(chain'[n + 1], d) = OwnerIn(chain'[n], d)
  <2>1. CASE n = Height
    <3>1. chain'[n] = HeadState /\ chain'[n + 1] = state
      BY <1>1, <1>2, <1>3, <2>1
    <3>2. QED BY <3>1
  <2>2. CASE n # Height
    <3>1. n \in 1..(Height - 1)
      BY <1>1, <1>2, <1>3, <2>2
    <3>2. n \in 1..Height /\ n + 1 \in 1..Height
      BY <1>2, <3>1
    <3>3. chain'[n] = chain[n] /\ chain'[n + 1] = chain[n + 1]
      BY <1>1, <3>2
    <3>4. OwnerIn(chain[n], d) # Zero => OwnerIn(chain[n + 1], d) = OwnerIn(chain[n], d)
      BY <3>1 DEF OwnersStay
    <3>5. QED BY <3>3, <3>4
  <2>3. QED BY <2>1, <2>2
<1>4. QED BY <1>1, <1>3 DEF OwnersStay, RegisteredOwns

LEMMA NamesReorganised ==
  ASSUME GatewayInv, OwnersStay, RegisteredOwns, Reorg,
         \A c \in Requests : client'[c].pc = "registered" =>
           /\ client[c].pc = "registered" /\ client'[c].node = client[c].node
           /\ client[c].node \in Nodes /\ OwnerIn(chain[Height - 1], client[c].node) # Zero
  PROVE  OwnersStay' /\ RegisteredOwns'
<1>1. /\ Height > 1 /\ Height' = Height /\ HeadState' = chain[Height - 1]
      /\ chain'[Height] = chain[Height - 1]
      /\ \A n \in 1..(Height - 1) : chain'[n] = chain[n]
  BY ReorgKeeps
<1>2. Height \in Nat /\ HeadState = chain[Height]
  BY KnownChain DEF HeadState
<1>3. ASSUME NEW n \in 1..(Height' - 1), NEW d \in Nodes
      PROVE  OwnerIn(chain'[n], d) # Zero => OwnerIn(chain'[n + 1], d) = OwnerIn(chain'[n], d)
  <2>1. n \in 1..(Height - 1) /\ chain'[n] = chain[n]
    BY <1>1, <1>3
  <2>2. CASE n = Height - 1
    <3>1. n + 1 = Height
      BY <1>2, <2>2
    <3>2. QED BY <1>1, <2>1, <2>2, <3>1
  <2>3. CASE n # Height - 1
    <3>1. n + 1 \in 1..(Height - 1)
      BY <1>2, <2>1, <2>3
    <3>2. chain'[n + 1] = chain[n + 1]
      BY <1>1, <3>1
    <3>3. OwnerIn(chain[n], d) # Zero => OwnerIn(chain[n + 1], d) = OwnerIn(chain[n], d)
      BY <2>1 DEF OwnersStay
    <3>4. QED BY <2>1, <3>2, <3>3
  <2>4. QED BY <2>2, <2>3
<1>4. ASSUME NEW c \in Requests, client'[c].pc = "registered"
      PROVE  OwnerIn(HeadState', client'[c].node) = c
  <2> DEFINE d == client[c].node
             n == Height - 1
  <2>1. client'[c].node = d /\ d \in Nodes /\ OwnerIn(chain[n], d) # Zero /\ client[c].pc = "registered"
    BY <1>4
  <2>2. OwnerIn(chain[Height], d) = c
    BY <1>2, <2>1 DEF RegisteredOwns
  <2> HIDE DEF d
  <2>3. n \in 1..(Height - 1) /\ n + 1 = Height
    BY <1>1, <1>2
  <2>4. OwnerIn(chain[n + 1], d) = OwnerIn(chain[n], d)
    BY <2>1, <2>3 DEF OwnersStay
  <2>5. OwnerIn(chain[n], d) = c
    BY <2>2, <2>3, <2>4
  <2>6. QED BY <1>1, <2>1, <2>5
<1>5. QED BY <1>3, <1>4 DEF OwnersStay, RegisteredOwns

-----------------------------------------------------------------------------
(* The clients *)

LEMMA KnownClient ==
  ASSUME ClientsInv, NEW c \in Requests
  PROVE  /\ client \in [Requests -> ClientState] /\ client[c] \in ClientState
         /\ Follows(client[c], read[c])
         /\ client[c].pc \in {"new", "reading", "pricing", "deferred", "sent", "registered", "refused"}
         /\ client[c].question \in Seq(Question) /\ client[c].node \in Nodes \cup {Zero}
         /\ client[c].duration \in Durations \cup {0} /\ client[c].duration \in Nat
         /\ client[c].value \in Words /\ client[c].to \in Registrars \cup {"none"}
         /\ targets \in [resolver : Resolvers, registrar : Registrars]
         /\ targets.resolver \in Resolvers /\ targets.registrar \in Registrars
         /\ retargets \in 0..MaxRetargets
<1>1. client \in [Requests -> ClientState] /\ client[c] \in ClientState
  BY DEF ClientsInv
<1>2. client[c].duration \in Durations \cup {0}
  BY <1>1 DEF ClientState
<1>3. client[c].duration \in Nat
  <2>1. Durations \subseteq Nat /\ 0 \in Nat
    BY Constants
  <2>2. client[c].duration \in Durations \/ client[c].duration = 0
    BY <1>2, Zenon
  <2>3. QED BY <2>1, <2>2, Zenon
<1>4. QED BY <1>1, <1>2, <1>3 DEF ClientsInv, ClientState

\* A step that changes one client, or only its read.
LEMMA OneClient ==
  ASSUME ClientsInv, NEW c \in Requests, NEW k \in ClientState,
         client' = [client EXCEPT ![c] = k], UNCHANGED resolverVars,
         \A d \in Requests : d # c => read'[d] = read[d],
         Follows(k, read'[c])
  PROVE  ClientsInv'
<1>1. /\ client' \in [Requests -> ClientState] /\ client'[c] = k
      /\ \A d \in Requests : d # c => client'[d] = client[d]
  BY DEF ClientsInv
<1>2. ASSUME NEW d \in Requests
      PROVE  Follows(client'[d], read'[d])
  <2>1. CASE d = c
    BY <1>1, <2>1
  <2>2. CASE d # c
    BY <1>1, <2>2, KnownClient
  <2>3. QED BY <2>1, <2>2
<1>3. QED BY <1>1, <1>2 DEF ClientsInv, resolverVars

\* Only reads of the two programs of L1Resolver are served.
LEMMA ServedReads ==
  ASSUME ClientsInv, NEW r \in Requests, read[r].pc \in Serving
  PROVE  /\ client[r].pc \in {"reading", "pricing"} /\ read[r].target \in Targets
         /\ read[r].prog \in Seq(Command) /\ Verifiable(read[r].prog)
<1>1. Follows(client[r], read[r]) /\ Resolvers \subseteq Targets /\ Registrars \subseteq Targets
  BY KnownClient, Constants
<1>2. CASE client[r].pc = "new"
  BY <1>1, <1>2 DEF Follows, Serving
<1>3. CASE client[r].pc = "reading"
  <2>1. /\ client[r].question[1] \in Questions /\ read[r].target \in Resolvers
        /\ read[r].prog = RecordProgram(client[r].question[1])
    BY <1>1, <1>3 DEF Follows
  <2>2. QED BY <1>1, <1>3, <2>1, ProgramTypes
<1>4. CASE client[r].pc = "pricing"
  <2>1. read[r].target \in Registrars /\ read[r].prog = ParamsProgram
    BY <1>1, <1>4 DEF Follows
  <2>2. QED BY <1>1, <1>4, <2>1, ProgramTypes
<1>5. CASE client[r].pc \in Priced
  BY <1>1, <1>5 DEF Follows, Serving
<1>6. QED BY <1>2, <1>3, <1>4, <1>5, KnownClient DEF Priced

LEMMA GoesFollows ==
  ASSUME NEW k, NEW old, NEW new, Follows(k, old), Goes(old, new)
  PROVE  Follows(k, new)
<1>1. k.pc = "new" => new.pc = "idle"
  BY DEF Follows, Goes, Serving
<1>2. k.pc = "reading" =>
        /\ Len(k.question) = 1 /\ k.question[1] \in Questions /\ new.target \in Resolvers
        /\ new.pc \in Serving => new.prog = RecordProgram(k.question[1])
  BY DEF Follows, Goes, Serving
<1>3. k.pc = "pricing" =>
       /\ k.node \in Nodes /\ new.target \in Registrars
       /\ new.pc \in Serving => new.prog = ParamsProgram
       /\ new.pc \notin {"accepted"}
  BY DEF Follows, Goes, Serving
<1>4. k.pc \notin Priced
  BY DEF Follows, Goes, Serving
<1>5. QED BY <1>1, <1>2, <1>3, <1>4 DEF Follows

LEMMA ArriveKeeps ==
  ASSUME GatewayInv, NEW r \in Requests, NEW target \in Targets, NEW prog \in Seq(Command),
         Arrive(r, target, prog)
  PROVE  /\ GatewayInv' /\ chain' = chain /\ read[r].pc = "idle"
         /\ \E q \in ReadState :
              /\ read' = [read EXCEPT ![r] = q]
              /\ q.pc = "asking" /\ q.target = target /\ q.prog = prog
<1> DEFINE slots == [i \in 1..Len(prog) |-> <<>>]
           q == [Idle EXCEPT !.pc = "asking", !.target = target, !.prog = prog,
                             !.slots = slots, !.words = slots]
<1>1. /\ read[r].pc = "idle" /\ read' = [read EXCEPT ![r] = q]
      /\ current' = [current EXCEPT ![r] = {HeadState}]
      /\ chain' = chain /\ mishaps' = mishaps /\ failed' = failed /\ shaken' = shaken
  BY DEF Arrive
<1>2. Len(prog) \in Nat
  BY LenProperties
<1>3. slots \in Seq(Seq(Slot)) /\ slots \in Seq(Seq(Words)) /\ Len(slots) = Len(prog)
  <2>1. slots \in [1..Len(prog) -> Seq(Slot)] /\ slots \in [1..Len(prog) -> Seq(Words)]
    OBVIOUS
  <2>2. QED BY <1>2, <2>1
<1> HIDE DEF slots
<1>4. q \in ReadState
  BY <1>3, IdleTypes DEF ReadState
<1>5. /\ q.pc = "asking" /\ q.block = 0 /\ q.target = target /\ q.prog = prog
      /\ q.slots = slots /\ q.words = slots
  BY IdleTypes DEF ReadState
<1> HIDE DEF q
<1>6. HeadState \in States /\ HeadState = chain[Len(chain)] /\ Len(chain) \in Nat
  BY KnownChain
<1>7. /\ current' \in [Requests -> SUBSET States] /\ current'[r] = {HeadState}
      /\ \A p \in Requests : p # r => current'[p] = current[p]
  BY <1>1, <1>6, Known
<1>8. Fits(q, current'[r], chain)
  BY <1>3, <1>5, <1>6, <1>7 DEF Fits, Serving
<1>9. /\ mishaps' \in 0..MaxMishaps
      /\ failed' \in [Requests -> BOOLEAN] /\ shaken' \in [Requests -> BOOLEAN]
  BY <1>1, Known
<1>10. GatewayInv'
  BY <1>1, <1>4, <1>7, <1>8, <1>9, OneRead
<1>11. QED BY <1>1, <1>4, <1>5, <1>10

LEMMA ResolveKeeps ==
  ASSUME IInv, NEW c \in Requests, Resolve(c)
  PROVE  IInv'
<1>1. /\ GatewayInv /\ ClientsInv /\ OwnersStay /\ RegisteredOwns
      /\ client[c].pc = "new" /\ UNCHANGED resolverVars
  BY DEF IInv, Resolve
<1>2. PICK q \in Questions :
        /\ Arrive(c, targets.resolver, RecordProgram(q))
        /\ client' = [client EXCEPT ![c].pc = "reading", ![c].question = <<q>>]
  BY DEF Resolve
<1> DEFINE question == <<q>>
           k == [client[c] EXCEPT !.pc = "reading", !.question = question]
<1>3. targets.resolver \in Resolvers /\ targets.resolver \in Targets /\ client[c] \in ClientState
  BY <1>1, KnownClient, Constants
<1>4. RecordProgram(q) \in Seq(Command)
  BY ProgramTypes
<1>5. PICK p \in ReadState :
        /\ GatewayInv' /\ chain' = chain /\ read' = [read EXCEPT ![c] = p]
        /\ p.pc = "asking" /\ p.target = targets.resolver /\ p.prog = RecordProgram(q)
  <2> DEFINE target == targets.resolver
             prog == RecordProgram(q)
  <2>1. target \in Targets /\ prog \in Seq(Command) /\ Arrive(c, target, prog)
    BY <1>2, <1>3, <1>4
  <2> HIDE DEF target, prog
  <2>2. \E p \in ReadState :
          /\ GatewayInv' /\ chain' = chain /\ read' = [read EXCEPT ![c] = p]
          /\ p.pc = "asking" /\ p.target = target /\ p.prog = prog
    BY <1>1, <2>1, ArriveKeeps
  <2>3. QED BY <2>2 DEF target, prog
<1>6. client' = [client EXCEPT ![c] = k]
  BY <1>1, <1>2, KnownClient
<1>7. question \in Seq(Question) /\ Len(question) = 1 /\ question[1] = q
  BY QuestionFields
<1> HIDE DEF question
<1>8. k \in ClientState /\ k.pc = "reading" /\ k.question = question
  BY <1>3, <1>7 DEF ClientState
<1> HIDE DEF k
<1>9. read'[c] = p /\ \A d \in Requests : d # c => read'[d] = read[d]
  BY <1>1, <1>5, Known
<1>10. Follows(k, p)
  BY <1>3, <1>5, <1>7, <1>8 DEF Follows, Priced
<1>11. ClientsInv'
  BY <1>1, <1>6, <1>8, <1>9, <1>10, OneClient
<1>12. \A d \in Requests : client'[d].pc = "registered" =>
         client[d].pc = "registered" /\ client'[d].node = client[d].node
  BY <1>1, <1>6, <1>8, KnownClient
<1>13. QED BY <1>1, <1>5, <1>11, <1>12, NamesKept DEF IInv

LEMMA AskPriceKeeps ==
  ASSUME IInv, NEW c \in Requests, AskPrice(c)
  PROVE  IInv'
<1>1. /\ GatewayInv /\ ClientsInv /\ OwnersStay /\ RegisteredOwns
      /\ client[c].pc = "new" /\ UNCHANGED resolverVars
      /\ Arrive(c, targets.registrar, ParamsProgram)
  BY DEF IInv, AskPrice
<1>2. PICK n \in Nodes, t \in Durations :
        client' = [client EXCEPT ![c].pc = "pricing", ![c].node = n, ![c].duration = t]
  BY DEF AskPrice
<1> DEFINE k == [client[c] EXCEPT !.pc = "pricing", !.node = n, !.duration = t]
<1>3. targets.registrar \in Registrars /\ targets.registrar \in Targets /\ client[c] \in ClientState
  BY <1>1, KnownClient, Constants
<1>4. PICK p \in ReadState :
        /\ GatewayInv' /\ chain' = chain /\ read' = [read EXCEPT ![c] = p]
        /\ p.pc = "asking" /\ p.target = targets.registrar /\ p.prog = ParamsProgram
  <2> DEFINE target == targets.registrar
  <2>1. target \in Targets /\ ParamsProgram \in Seq(Command) /\ Arrive(c, target, ParamsProgram)
    BY <1>1, <1>3, ProgramTypes
  <2> HIDE DEF target
  <2>2. \E p \in ReadState :
          /\ GatewayInv' /\ chain' = chain /\ read' = [read EXCEPT ![c] = p]
          /\ p.pc = "asking" /\ p.target = target /\ p.prog = ParamsProgram
    BY <1>1, <2>1, ArriveKeeps
  <2>3. QED BY <2>2 DEF target
<1>5. client' = [client EXCEPT ![c] = k]
  BY <1>1, <1>2, KnownClient
<1>6. k \in ClientState /\ k.pc = "pricing" /\ k.node = n
  BY <1>3 DEF ClientState
<1> HIDE DEF k
<1>7. read'[c] = p /\ \A d \in Requests : d # c => read'[d] = read[d]
  BY <1>1, <1>4, Known
<1>8. Follows(k, p)
  BY <1>3, <1>4, <1>6 DEF Follows, Priced
<1>9. ClientsInv'
  BY <1>1, <1>5, <1>6, <1>7, <1>8, OneClient
<1>10. \A d \in Requests : client'[d].pc = "registered" =>
         client[d].pc = "registered" /\ client'[d].node = client[d].node
  BY <1>1, <1>5, <1>6, KnownClient
<1>11. QED BY <1>1, <1>4, <1>9, <1>10, NamesKept DEF IInv

\* A step of a client alone.
LEMMA ClientAlone ==
  ASSUME IInv, NEW c \in Requests, NEW k \in ClientState,
         client' = [client EXCEPT ![c] = k], UNCHANGED <<gatewayVars, resolverVars>>,
         Follows(k, read[c]), k.pc # "registered"
  PROVE  IInv'
<1>1. /\ GatewayInv /\ ClientsInv /\ OwnersStay /\ RegisteredOwns
      /\ read' = read /\ chain' = chain /\ UNCHANGED resolverVars
  BY DEF IInv, gatewayVars
<1>2. GatewayInv'
  BY <1>1 DEF GatewayInv, Typed, Height, gatewayVars
<1>3. ClientsInv'
  BY <1>1, OneClient
<1>4. \A d \in Requests : client'[d].pc = "registered" =>
        client[d].pc = "registered" /\ client'[d].node = client[d].node
  BY <1>1, KnownClient
<1>5. QED BY <1>1, <1>2, <1>3, <1>4, NamesKept DEF IInv

LEMMA DeferKeeps ==
  ASSUME IInv, NEW c \in Requests, Defer(c)
  PROVE  IInv'
<1> DEFINE value == IF read[c].pc = "accepted" THEN read[c].values[1][1] ELSE 0
           to == targets.registrar
           k == [client[c] EXCEPT !.pc = "deferred", !.to = to, !.value = value]
<1>1. /\ GatewayInv /\ ClientsInv /\ client[c].pc = "pricing"
      /\ read[c].pc \in {"accepted", "failed", "reverted"}
      /\ UNCHANGED <<gatewayVars, resolverVars>>
  BY DEF IInv, Defer
<1>2. client' = [client EXCEPT ![c] = k]
  <2>1. client' = [client EXCEPT ![c].pc = "deferred", ![c].to = to, ![c].value = value]
    BY DEF Defer
  <2> HIDE DEF to, value
  <2>2. QED BY <1>1, <2>1, KnownClient
<1>3. Follows(client[c], read[c]) /\ client[c] \in ClientState /\ to \in Registrars \cup {"none"}
  BY <1>1, KnownClient
<1>4. /\ client[c].node \in Nodes
      /\ read[c].pc = "accepted" => read[c].target \in Registrars /\ value = Prices[read[c].target]
  <2>1. read[c].pc = "accepted" =>
          read[c].target \in Registrars /\ read[c].values[1] = <<Prices[read[c].target]>>
    BY <1>1, <1>3 DEF Follows
  <2>2. client[c].node \in Nodes
    BY <1>1, <1>3 DEF Follows
  <2>3. QED BY <2>1, <2>2
<1>5. value \in Words
  BY <1>4, Constants
<1> HIDE DEF value, to
<1>6. k \in ClientState /\ k.pc = "deferred" /\ k.node = client[c].node /\ k.value = value
  BY <1>3, <1>5 DEF ClientState
<1> HIDE DEF k
<1>7. Follows(k, read[c])
  BY <1>1, <1>4, <1>6 DEF Follows, Priced
<1>8. QED BY <1>1, <1>2, <1>6, <1>7, ClientAlone

LEMMA PricedStays ==
  ASSUME NEW k, NEW new, NEW q, Follows(k, q), k.pc \in Priced, new.pc \in Priced,
         new.node = k.node, new.value = k.value
  PROVE  Follows(new, q)
BY DEF Follows, Priced

LEMMA SimulateKeeps ==
  ASSUME IInv, NEW c \in Requests, Simulate(c)
  PROVE  IInv'
<1> DEFINE pc == IF Payable(HeadState, c) THEN "sent" ELSE "refused"
           k == [client[c] EXCEPT !.pc = pc]
<1>1. /\ ClientsInv /\ client[c].pc = "deferred" /\ UNCHANGED <<gatewayVars, resolverVars>>
      /\ client' = [client EXCEPT ![c].pc = pc]
  BY DEF IInv, Simulate, Becomes
<1>2. pc \in {"sent", "refused"}
  OBVIOUS
<1> HIDE DEF pc
<1>3. client[c] \in ClientState /\ Follows(client[c], read[c]) /\ client' = [client EXCEPT ![c] = k]
  BY <1>1, KnownClient
<1>4. /\ k \in ClientState /\ k.pc = pc /\ k.node = client[c].node /\ k.value = client[c].value
  BY <1>2, <1>3 DEF ClientState
<1> HIDE DEF k
<1>5. Follows(k, read[c])
  BY <1>1, <1>2, <1>3, <1>4, PricedStays DEF Priced
<1>6. QED BY <1>1, <1>2, <1>3, <1>4, <1>5, ClientAlone

\* A block in which the owners of all names stay.
LEMMA MinedKeeps ==
  ASSUME IInv, NEW state \in States, Mine(state), SameOwners(state, HeadState),
         UNCHANGED <<resolverVars, client>>
  PROVE  IInv'
<1>1. GatewayInv /\ ClientsInv /\ OwnersStay /\ RegisteredOwns
  BY DEF IInv
<1>2. GatewayInv' /\ read' = read
  BY <1>1, MineKeeps
<1>3. ClientsInv'
  BY <1>1, <1>2 DEF ClientsInv, resolverVars
<1>4. \A d \in Nodes : OwnerIn(HeadState, d) # Zero => OwnerIn(state, d) = OwnerIn(HeadState, d)
  BY DEF SameOwners
<1>5. ASSUME NEW c \in Requests, client'[c].pc = "registered"
      PROVE  OwnerIn(state, client'[c].node) = c
  <2>1. client[c].pc = "registered" /\ client'[c].node = client[c].node
    BY <1>5
  <2>2. client[c].node \in Nodes
    BY <1>1, <2>1, KnownClient DEF Follows, Priced
  <2>3. OwnerIn(HeadState, client[c].node) = c
    BY <1>1, <2>1 DEF RegisteredOwns
  <2>4. QED BY <2>1, <2>2, <2>3 DEF SameOwners
<1>6. QED BY <1>1, <1>2, <1>3, <1>4, <1>5, NamesMined DEF IInv

LEMMA SetRecordKeeps ==
  ASSUME IInv, SetRecord
  PROVE  IInv'
<1>1. PICK t \in Resolvers, q \in Questions, v \in Values :
        Mine(Put(HeadState, t, RecordSlot(HeadState[t], q), v))
  BY DEF SetRecord
<1> DEFINE new == Put(HeadState, t, RecordSlot(HeadState[t], q), v)
<1>2. HeadState \in States /\ UNCHANGED <<resolverVars, client>>
  BY KnownChain DEF IInv, SetRecord
<1>3. new \in States /\ SameOwners(new, HeadState)
  <2> DEFINE head == HeadState
  <2>1. head \in States
    BY <1>2
  <2> HIDE DEF head
  <2>2. Put(head, t, RecordSlot(head[t], q), v) \in States
        /\ SameOwners(Put(head, t, RecordSlot(head[t], q), v), head)
    BY <2>1, RecordSet
  <2>3. QED BY <2>2 DEF head
<1>4. Mine(new)
  BY <1>1
<1> HIDE DEF new
<1>5. QED BY <1>2, <1>3, <1>4, MinedKeeps

LEMMA ClearRecordsKeeps ==
  ASSUME IInv, ClearRecords
  PROVE  IInv'
<1>1. PICK t \in Resolvers, n \in Nodes :
        /\ VersionIn(HeadState[t], n) < MaxVersion
        /\ Mine(Put(HeadState, t, SlotAt(<<RECORD_VERSIONS_SLOT, n>>), VersionIn(HeadState[t], n) + 1))
  BY DEF ClearRecords
<1> DEFINE head == HeadState
           new == Put(head, t, SlotAt(<<RECORD_VERSIONS_SLOT, n>>), VersionIn(head[t], n) + 1)
<1>2. head \in States /\ UNCHANGED <<resolverVars, client>>
  BY KnownChain DEF IInv, ClearRecords
<1>3. VersionIn(head[t], n) < MaxVersion /\ Mine(new)
  BY <1>1
<1> HIDE DEF head
<1>4. new \in States /\ SameOwners(new, head)
  BY <1>2, <1>3, RecordsCleared
<1> HIDE DEF new
<1>5. SameOwners(new, HeadState)
  BY <1>4 DEF head
<1>6. QED BY <1>2, <1>3, <1>4, <1>5, MinedKeeps

LEMMA SetTargetKeeps ==
  ASSUME IInv, SetTarget
  PROVE  IInv'
<1>1. /\ GatewayInv /\ ClientsInv /\ OwnersStay /\ RegisteredOwns
      /\ UNCHANGED <<gatewayVars, client>> /\ retargets < MaxRetargets /\ retargets' = retargets + 1
      /\ \/ \E t \in Resolvers : targets' = [targets EXCEPT !.resolver = t]
         \/ \E t \in Registrars : targets' = [targets EXCEPT !.registrar = t]
  BY DEF IInv, SetTarget
<1>2. GatewayInv'
  BY <1>1 DEF GatewayInv, Typed, Height, gatewayVars
<1>3. targets' \in [resolver : Resolvers, registrar : Registrars]
  BY <1>1 DEF ClientsInv
<1>4. retargets' \in 0..MaxRetargets
  BY <1>1, Constants DEF ClientsInv
<1>5. ClientsInv'
  BY <1>1, <1>3, <1>4 DEF ClientsInv, gatewayVars
<1>6. OwnersStay' /\ RegisteredOwns'
  BY <1>1, NamesKept DEF gatewayVars
<1>7. QED BY <1>2, <1>5, <1>6 DEF IInv

LEMMA ReorganiseKeeps ==
  ASSUME IInv, Reorganise
  PROVE  IInv'
<1> DEFINE Lost(c) ==
             client[c].pc = "registered" /\ OwnerIn(chain[Height - 1], client[c].node) = Zero
           k(c) == IF Lost(c) THEN [client[c] EXCEPT !.pc = "sent"] ELSE client[c]
<1>1. /\ GatewayInv /\ ClientsInv /\ OwnersStay /\ RegisteredOwns /\ Reorg
      /\ client' = [c \in Requests |-> k(c)] /\ UNCHANGED resolverVars
  BY DEF IInv, Reorganise
<1>2. GatewayInv' /\ read' = read
  BY <1>1, ReorgKeeps
<1>3. ASSUME NEW c \in Requests
      PROVE  /\ k(c) \in ClientState /\ Follows(k(c), read[c])
             /\ k(c).pc = "registered" =>
                  /\ client[c].pc = "registered" /\ k(c).node = client[c].node
                  /\ client[c].node \in Nodes /\ OwnerIn(chain[Height - 1], client[c].node) # Zero
  <2>1. client[c] \in ClientState /\ Follows(client[c], read[c])
    BY <1>1, KnownClient
  <2>2. CASE Lost(c)
    <3> DEFINE new == [client[c] EXCEPT !.pc = "sent"]
    <3>1. k(c) = new /\ client[c].pc \in Priced
      BY <2>2 DEF Priced
    <3>2. new \in ClientState /\ new.pc = "sent" /\ new.node = client[c].node /\ new.value = client[c].value
      BY <2>1 DEF ClientState
    <3> HIDE DEF new, k
    <3>3. Follows(new, read[c])
      BY <2>1, <3>1, <3>2, PricedStays DEF Priced
    <3>4. QED BY <3>1, <3>2, <3>3
  <2>3. CASE ~ Lost(c)
    <3>1. k(c) = client[c]
      BY <2>3
    <3>2. client[c].pc = "registered" =>
            client[c].node \in Nodes /\ OwnerIn(chain[Height - 1], client[c].node) # Zero
      BY <2>1, <2>3 DEF Follows, Priced
    <3> HIDE DEF k
    <3>3. QED BY <2>1, <3>1, <3>2
  <2>4. QED BY <2>2, <2>3
<1> HIDE DEF k
<1>4. client' \in [Requests -> ClientState] /\ \A c \in Requests : client'[c] = k(c)
  BY <1>1, <1>3
<1>5. ClientsInv'
  BY <1>1, <1>2, <1>3, <1>4 DEF ClientsInv, resolverVars
<1>6. OwnersStay' /\ RegisteredOwns'
  BY <1>1, <1>3, <1>4, NamesReorganised
<1>7. QED BY <1>2, <1>5, <1>6 DEF IInv

LEMMA IncludeKeeps ==
  ASSUME IInv, NEW c \in Requests, Include(c)
  PROVE  IInv'
<1>1. /\ GatewayInv /\ ClientsInv /\ OwnersStay /\ RegisteredOwns
      /\ client[c].pc = "sent" /\ client[c].pc \in Priced /\ UNCHANGED resolverVars
  BY DEF IInv, Include, Priced
<1>2. client[c] \in ClientState /\ Follows(client[c], read[c]) /\ client[c].duration \in Nat
  BY <1>1, KnownClient
<1>3. ASSUME NEW pc \in {"registered", "refused"}, Becomes(c, pc)
      PROVE  LET k == [client[c] EXCEPT !.pc = pc] IN
             /\ k \in ClientState /\ client' = [client EXCEPT ![c] = k] /\ Follows(k, read[c])
             /\ k.pc = pc /\ k.node = client[c].node
  <2> DEFINE k == [client[c] EXCEPT !.pc = pc]
  <2>1. client' = [client EXCEPT ![c] = k]
    BY <1>1, <1>3, KnownClient DEF Becomes
  <2>2. k \in ClientState /\ k.pc = pc /\ k.node = client[c].node /\ k.value = client[c].value
    BY <1>2 DEF ClientState
  <2> HIDE DEF k
  <2>3. Follows(k, read[c])
    BY <1>1, <1>2, <1>3, <2>2, PricedStays DEF Priced
  <2>4. QED BY <2>1, <2>2, <2>3 DEF k
<1>4. CASE Becomes(c, "refused") /\ UNCHANGED gatewayVars
  <2> DEFINE k == [client[c] EXCEPT !.pc = "refused"]
  <2>1. /\ k \in ClientState /\ client' = [client EXCEPT ![c] = k] /\ Follows(k, read[c])
        /\ k.pc = "refused"
    BY <1>3, <1>4
  <2> HIDE DEF k
  <2>2. QED BY <1>1, <1>4, <2>1, ClientAlone
<1>5. CASE /\ Payable(HeadState, c)
           /\ \E q \in Questions, v \in Values :
                q.node = client[c].node /\ Mine(Registered(HeadState, c, q, v))
           /\ Becomes(c, "registered")
  <2>1. PICK q \in Questions, v \in Values :
          q.node = client[c].node /\ Mine(Registered(HeadState, c, q, v))
    BY <1>5
  <2> DEFINE head == HeadState
             new == Registered(head, c, q, v)
             k == [client[c] EXCEPT !.pc = "registered"]
  <2>2. head \in States /\ Mine(new) /\ OwnerIn(head, q.node) = Zero
    BY <1>1, <1>5, <2>1, KnownChain DEF Payable
  <2>3. /\ k \in ClientState /\ client' = [client EXCEPT ![c] = k] /\ Follows(k, read[c])
        /\ k.pc = "registered" /\ k.node = q.node
    BY <1>3, <1>5, <2>1
  <2> HIDE DEF head, k
  <2>4. /\ new \in States /\ OwnerIn(new, q.node) = c
        /\ \A d \in Nodes : d # q.node => OwnerIn(new, d) = OwnerIn(head, d)
    BY <1>2, <2>2, NameRegistered
  <2> HIDE DEF new
  <2>5. \A d \in Nodes : OwnerIn(head, d) # Zero => OwnerIn(new, d) = OwnerIn(head, d)
    BY <2>2, <2>4
  <2>6. GatewayInv' /\ read' = read
    BY <1>1, <2>2, <2>4, MineKeeps
  <2>7. ClientsInv'
    BY <1>1, <2>3, <2>6, OneClient
  <2>8. ASSUME NEW d \in Requests, client'[d].pc = "registered"
        PROVE  OwnerIn(new, client'[d].node) = d
    <3>1. CASE d = c
      <4>1. client'[d] = k
        BY <1>1, <2>3, <3>1, KnownClient
      <4>2. QED BY <2>3, <2>4, <3>1, <4>1
    <3>2. CASE d # c
      <4>1. client'[d] = client[d] /\ client[d].pc = "registered"
        BY <1>1, <2>3, <2>8, <3>2, KnownClient
      <4>2. client[d].node \in Nodes
        BY <1>1, <4>1, KnownClient DEF Follows, Priced
      <4>3. OwnerIn(head, client[d].node) = d
        BY <1>1, <4>1 DEF RegisteredOwns, head
      <4>4. d # Zero
        BY Constants
      <4>5. QED BY <2>5, <4>1, <4>2, <4>3, <4>4
    <3>3. QED BY <3>1, <3>2
  <2>9. OwnersStay' /\ RegisteredOwns'
    <3>1. \A d \in Nodes :
            OwnerIn(HeadState, d) # Zero => OwnerIn(new, d) = OwnerIn(HeadState, d)
      BY <2>5 DEF head
    <3>2. QED BY <1>1, <2>2, <2>4, <2>8, <3>1, NamesMined
  <2>10. QED BY <2>6, <2>7, <2>9 DEF IInv
<1>6. QED BY <1>4, <1>5 DEF Include

LEMMA CallbackKeeps ==
  ASSUME IInv, NEW r \in Requests, Callback(r), UNCHANGED <<resolverVars, client>>
  PROVE  IInv'
<1>1. /\ GatewayInv /\ ClientsInv /\ OwnersStay /\ RegisteredOwns /\ read[r].pc \in Serving
  BY DEF IInv, Callback, Serving
<1>2. /\ client[r].pc \in {"reading", "pricing"} /\ read[r].target \in Targets
      /\ Verifiable(read[r].prog)
  BY <1>1, ServedReads
<1>3. PICK q \in ReadState :
        /\ read' = [read EXCEPT ![r] = q]
        /\ q.pc \in {"accepted", "reverted"} /\ q.target = read[r].target
        /\ q.pc = "accepted" =>
             \E state \in current[r] : ReadIn(q.values, StorageOf(r, state), read[r].prog)
  BY <1>1, <1>2, CallbackEnds
<1>4. GatewayInv' /\ chain' = chain
  BY <1>1, <1>2, CallbackEnds
<1>5. Follows(client[r], read[r]) /\ client[r] \in ClientState /\ current[r] \subseteq States
  BY <1>1, Known, KnownClient
<1>6. Follows(client[r], q)
  <2>1. CASE client[r].pc = "reading"
    BY <1>3, <1>5, <2>1 DEF Follows, Serving, Priced
  <2>2. CASE client[r].pc = "pricing"
    <3>1. client[r].node \in Nodes /\ read[r].target \in Registrars /\ read[r].prog = ParamsProgram
      BY <1>1, <1>5, <2>2 DEF Follows
    <3>2. ASSUME q.pc = "accepted"
          PROVE  Len(q.values) = 2 /\ q.values[1] = <<Prices[q.target]>>
      <4>1. PICK state \in current[r] : ReadIn(q.values, StorageOf(r, state), read[r].prog)
        BY <1>3, <3>2
      <4>2. state \in States /\ ReadIn(q.values, state[read[r].target], ParamsProgram)
        BY <1>5, <3>1, <4>1 DEF StorageOf
      <4>3. QED BY <1>3, <3>1, <4>2, ParamsReading
    <3>3. QED BY <1>3, <2>2, <3>1, <3>2 DEF Follows, Serving, Priced
  <2>3. QED BY <1>2, <2>1, <2>2
<1>7. read'[r] = q /\ \A p \in Requests : p # r => read'[p] = read[p]
  BY <1>1, <1>3, Known
<1>8. ClientsInv'
  <2>1. client' = [client EXCEPT ![r] = client[r]] /\ UNCHANGED resolverVars
    BY <1>1, KnownClient
  <2>2. QED BY <1>1, <1>5, <1>6, <1>7, <2>1, OneClient
<1>9. QED BY <1>1, <1>4, <1>8, NamesKept DEF IInv

LEMMA ServeKeeps ==
  ASSUME IInv, NEW r \in Requests, Serve(r)
  PROVE  IInv'
<1>1. UNCHANGED <<resolverVars, client>> /\ GatewayInv /\ ClientsInv /\ OwnersStay /\ RegisteredOwns
  BY DEF IInv, Serve
<1>2. CASE Callback(r)
  BY <1>1, <1>2, CallbackKeeps
<1>3. CASE GatewayStep(r)
  <2>1. read[r].pc \in Serving
    BY <1>3 DEF GatewayStep, GetBlock, Prove, GetHeader, ReadValue, Locate, Serving
  <2>2. read[r].target \in Targets
    BY <1>1, <2>1, ServedReads
  <2>3. Progress(r)
    BY <1>1, <1>3, <2>2, GatewayProgress
  <2>4. PICK q \in ReadState : read' = [read EXCEPT ![r] = q] /\ Goes(read[r], q)
    BY <2>3 DEF Progress
  <2>5. read'[r] = q /\ \A p \in Requests : p # r => read'[p] = read[p]
    BY <1>1, <2>4, Known
  <2>6. Follows(client[r], q) /\ client[r] \in ClientState
    BY <1>1, <2>4, KnownClient, GoesFollows
  <2>7. ClientsInv'
    <3>1. client' = [client EXCEPT ![r] = client[r]]
      BY <1>1, KnownClient
    <3>2. QED BY <1>1, <2>5, <2>6, <3>1, OneClient
  <2>8. QED BY <1>1, <2>3, <2>7, NamesKept DEF IInv, Progress
<1>4. QED BY <1>2, <1>3 DEF Serve

-----------------------------------------------------------------------------
(* The invariant *)

LEMMA GenesisFields == Genesis \in States
<1> DEFINE price == SlotAt(<<PRICE_SLOT>>)
           commit == SlotAt(<<COMMIT_SLOT>>)
           priced(t) == [s \in {price, commit} |-> IF s = price THEN Prices[t] ELSE Zero]
           empty == [s \in {} |-> Zero]
<1>1. <<PRICE_SLOT>> \in Seq(Words) /\ <<COMMIT_SLOT>> \in Seq(Words)
  BY Constants DEF PRICE_SLOT, COMMIT_SLOT
<1>2. price \in Slot /\ commit \in Slot
  BY <1>1, SlotAtFields
<1> HIDE DEF price, commit
<1>3. ASSUME NEW t \in Registrars
      PROVE  priced(t) \in Contents /\ At(priced(t), price) = Prices[t]
  <2>1. Prices[t] \in Words /\ Zero \in Words
    BY Constants
  <2>2. priced(t) \in [{price, commit} -> Words] /\ {price, commit} \in SUBSET Slot
    BY <1>2, <2>1
  <2>3. priced(t) \in Contents
    BY <2>2 DEF Contents
  <2>4. QED BY <2>3 DEF At
<1>4. empty \in Contents /\ DOMAIN empty = {}
  <2>1. empty \in [{} -> Words] /\ {} \in SUBSET Slot
    OBVIOUS
  <2>2. QED BY <2>1 DEF Contents
<1>5. Genesis = [t \in Targets |-> IF t \in Registrars THEN priced(t) ELSE empty]
  BY DEF Genesis, price, commit
<1> HIDE DEF priced, empty
<1>6. Genesis \in [Targets -> Contents]
  BY <1>3, <1>4, <1>5
<1>7. ASSUME NEW t \in Registrars
      PROVE  PriceOf(Genesis, t) = Prices[t]
  <2>1. Genesis[t] = priced(t)
    BY <1>5, Constants
  <2>2. QED BY <1>3, <2>1 DEF PriceOf, price
<1>8. ASSUME NEW t \in Resolvers
      PROVE  DOMAIN Genesis[t] = {}
  <2>1. t \in Targets /\ t \notin Registrars
    BY Constants
  <2>2. QED BY <1>4, <1>5, <2>1
<1>9. QED BY <1>6, <1>7, <1>8 DEF States, Laid

LEMMA InitIInv == Init => IInv
<1> SUFFICES ASSUME Init PROVE IInv
  OBVIOUS
<1>1. /\ GatewayInit(Genesis) /\ targets = FirstTargets /\ retargets = 0
      /\ client = [c \in Requests |-> NewClient]
  BY DEF Init
<1>2. chain = <<Genesis>> /\ read = [r \in Requests |-> Idle]
  BY <1>1 DEF GatewayInit
<1>3. chain \in Seq(States) /\ Height = 1 /\ Len(chain) = 1 /\ Height \in 1..MaxBlocks
  BY <1>2, GenesisFields, Constants DEF Height
<1>4. /\ mishaps \in 0..MaxMishaps /\ current \in [Requests -> SUBSET States]
      /\ failed \in [Requests -> BOOLEAN] /\ shaken \in [Requests -> BOOLEAN]
  BY <1>1, Constants DEF GatewayInit
<1>5. GatewayInv
  <2>1. Typed
    BY <1>2, <1>3, <1>4, IdleTypes DEF Typed
  <2>2. \A r \in Requests : Fits(read[r], current[r], chain)
    BY <1>2, <1>3, IdleTypes DEF Fits, Serving
  <2>3. QED BY <2>1, <2>2 DEF GatewayInv
<1>6. NewClient \in ClientState /\ NewClient.pc = "new"
  <2>1. <<>> \in Seq(Question) /\ 0 \in Words
    BY Constants
  <2>2. QED BY <2>1 DEF NewClient, ClientState
<1>7. ClientsInv
  <2>1. \A c \in Requests : Follows(client[c], read[c])
    BY <1>1, <1>2, <1>6, IdleTypes DEF Follows, Priced
  <2>2. QED BY <1>1, <1>6, <2>1, Constants DEF ClientsInv
<1>8. OwnersStay
  BY <1>3 DEF OwnersStay
<1>9. RegisteredOwns
  BY <1>1, <1>6 DEF RegisteredOwns
<1>10. QED BY <1>5, <1>7, <1>8, <1>9 DEF IInv

LEMMA StutterKeeps ==
  ASSUME IInv, UNCHANGED vars
  PROVE  IInv'
<1>1. /\ GatewayInv /\ ClientsInv /\ OwnersStay /\ RegisteredOwns
      /\ UNCHANGED gatewayVars /\ UNCHANGED resolverVars /\ client' = client
  BY DEF IInv, vars
<1>2. GatewayInv'
  BY <1>1 DEF GatewayInv, Typed, Height, gatewayVars
<1>3. ClientsInv'
  BY <1>1 DEF ClientsInv, gatewayVars, resolverVars
<1>4. QED BY <1>1, <1>2, <1>3, NamesKept DEF IInv, gatewayVars

LEMMA NextIInv == IInv /\ [Next]_vars => IInv'
BY StutterKeeps, SetTargetKeeps, SetRecordKeeps, ClearRecordsKeeps, ReorganiseKeeps,
   ResolveKeeps, AskPriceKeeps, DeferKeeps, SimulateKeeps, IncludeKeeps, ServeKeeps
   DEF Next

LEMMA Invariance == Spec => []IInv
BY InitIInv, NextIInv, PTL DEF Spec

-----------------------------------------------------------------------------
(* What L1Resolver promises *)

LEMMA ReadsAreTyped ==
  ASSUME GatewayInv, NEW r \in Requests
  PROVE  ReadOK(r)
<1> DEFINE q == read[r]
<1>1. /\ q \in ReadState /\ q.block \in Nat /\ q.block <= Len(chain)
      /\ Height = Len(chain) /\ Height \in Nat
  BY Known, KnownChain DEF ReadState, Fits
<1> HIDE DEF q
<1>2. q.proof \in Seq(States) /\ q.root \in Seq(States)
  BY <1>1 DEF ReadState
<1>3. \A i \in DOMAIN q.proof : IsState(q.proof[i])
  BY <1>2, ElementOfSeq, StateFields
<1>4. \A i \in DOMAIN q.root : IsState(q.root[i])
  BY <1>2, ElementOfSeq, StateFields
<1>5. \A state \in {q.proof[i] : i \in DOMAIN q.proof} \cup {q.root[i] : i \in DOMAIN q.root} :
        IsState(state)
  BY <1>3, <1>4
<1>6. q.block \in 0..Height
  BY <1>1
<1>7. /\ q.pc \in {"idle", "asking", "locating", "header", "served", "failed", "accepted", "reverted"}
      /\ q.target \in Targets \cup {"none"} /\ q.prog \in Seq(Command)
      /\ q.slots \in Seq(Seq(Slot)) /\ q.words \in Seq(Seq(Words)) /\ q.values \in Seq(Seq(Words))
  BY <1>1 DEF ReadState
<1>8. QED BY <1>5, <1>6, <1>7 DEF ReadOK, q

\* Types hold for any contracts, clients and records: of the chain and of each
\* read in it, of the targets and of what each client knows
\* (L1Resolver.sol:60-72, l1proof.ts:37-80, write.ts:45-163).
THEOREM TypeCorrect == Spec => []TypeOK
<1>1. IInv => TypeOK
  <2> SUFFICES ASSUME IInv PROVE TypeOK
    OBVIOUS
  <2>1. GatewayInv /\ ClientsInv
    BY DEF IInv
  <2>2. Height \in 1..MaxBlocks /\ \A n \in 1..Height : IsState(chain[n])
    BY <2>1, KnownChain, StateFields DEF GatewayInv, Typed
  <2>3. \A r \in Requests : ReadOK(r)
    BY <2>1, ReadsAreTyped
  <2>4. \A r \in Requests : \A state \in current[r] : IsState(state)
    BY <2>1, Known, StateFields
  <2>5. GatewayTypeOK
    BY <2>1, <2>2, <2>3, <2>4 DEF GatewayTypeOK, GatewayInv, Typed
  <2>6. QED BY <2>1, <2>5 DEF TypeOK, ClientsInv
<1>2. QED BY <1>1, Invariance, PTL

\* A client whose registration is in the chain owns its name there, whoever
\* else simulated the same registration before and however often the head was
\* replaced (SubdomainController.sol:48-57, write.ts:157-163).
THEOREM RegistrationOwns == Spec => []RegisteredOwns
<1>1. IInv => RegisteredOwns
  BY DEF IInv
<1>2. QED BY <1>1, Invariance, PTL

\* Only the callback of a read gives it a verdict.
LEMMA OnlyCallbackEnds ==
  ASSUME IInv, Next, NEW r \in Requests, NEW pc \in {"accepted", "reverted"}, Ends(r, pc)
  PROVE  Callback(r) /\ UNCHANGED <<resolverVars, client>>
<1>1. /\ GatewayInv /\ ClientsInv /\ read[r].pc = "served" /\ read'[r].pc = pc
      /\ read'[r] # read[r]
  BY DEF IInv, Ends
<1>2. CASE SetTarget \/ SetRecord \/ ClearRecords \/ Reorganise
  BY <1>1, <1>2 DEF SetTarget, SetRecord, ClearRecords, Reorganise, Mine, Reorg, gatewayVars
<1>3. ASSUME NEW c \in Requests, Resolve(c) \/ AskPrice(c)
      PROVE  FALSE
  <2>1. PICK target, prog : Arrive(c, target, prog)
    BY <1>3 DEF Resolve, AskPrice
  <2>2. read[c].pc = "idle"
    BY <2>1 DEF Arrive
  <2>3. c # r /\ read'[r] = read[r]
    BY <1>1, <2>1, <2>2, Known DEF Arrive
  <2>4. QED BY <1>1, <2>3
<1>4. ASSUME NEW c \in Requests, Defer(c) \/ Simulate(c) \/ Include(c)
      PROVE  FALSE
  BY <1>1, <1>4 DEF Defer, Simulate, Include, Mine, gatewayVars
<1>5. ASSUME NEW c \in Requests, Serve(c)
      PROVE  Callback(r) /\ UNCHANGED <<resolverVars, client>>
  <2>1. read[c].pc \in Serving
    BY <1>5 DEF Serve, Callback, GatewayStep, GetBlock, Prove, GetHeader, ReadValue, Locate, Serving
  <2>2. read[c].target \in Targets
    BY <1>1, <2>1, ServedReads
  <2>3. CASE GatewayStep(c)
    <3>1. PICK q \in ReadState : read' = [read EXCEPT ![c] = q] /\ Goes(read[c], q)
      BY <1>1, <2>2, <2>3, GatewayProgress DEF Progress
    <3>2. c = r => read'[r] = q
      BY <1>1, <3>1, Known
    <3>3. c # r => read'[r] = read[r]
      BY <1>1, <3>1, Known
    <3>4. QED BY <1>1, <3>1, <3>2, <3>3 DEF Goes, Serving
  <2>4. CASE Callback(c)
    <3>1. c # r => read'[r] = read[r]
      BY <1>1, <2>4, Known DEF Callback
    <3>2. QED BY <1>1, <1>5, <2>4, <3>1 DEF Serve
  <2>5. QED BY <1>5, <2>3, <2>4 DEF Serve
<1>6. QED BY <1>2, <1>3, <1>4, <1>5 DEF Next

\* what an accepted read shows
LEMMA AcceptedReads ==
  ASSUME IInv, Next, NEW r \in Requests, Ends(r, "accepted")
  PROVE  /\ Follows(client[r], read[r]) /\ read[r].pc = "served" /\ current[r] \subseteq States
         /\ read[r].target \in Targets
         /\ \E state \in current[r] : ReadIn(read'[r].values, StorageOf(r, state), read[r].prog)
<1>1. /\ GatewayInv /\ ClientsInv /\ read[r].pc = "served" /\ read'[r].pc = "accepted"
      /\ Callback(r) /\ read[r].pc \in Serving
  BY OnlyCallbackEnds DEF IInv, Ends, Serving
<1>2. read[r].target \in Targets /\ Verifiable(read[r].prog)
  BY <1>1, ServedReads
<1>3. PICK q \in ReadState :
        /\ read' = [read EXCEPT ![r] = q]
        /\ q.pc = "accepted" =>
             \E state \in current[r] : ReadIn(q.values, StorageOf(r, state), read[r].prog)
  BY <1>1, <1>2, CallbackEnds
<1>4. read'[r] = q
  BY <1>1, <1>3, Known
<1>5. QED BY <1>1, <1>2, <1>3, <1>4, Known, KnownClient

LEMMA ReadInShows ==
  ASSUME NEW values, NEW storage, NEW prog, ReadIn(values, storage, prog)
  PROVE  Shows(values, storage, prog)
BY DEF ReadIn, Shows

\* What a client accepts was in the contract, all at once, at a moment between
\* its question and the answer, however many blocks are mined or replaced
\* between the calls for storage, proofs and header (l1proof.ts:37-80).
THEOREM AcceptedReadsAreCurrent == Spec => AcceptedWasCurrent
<1> DEFINE A == \A r \in Requests : Ends(r, "accepted") =>
       \E state \in current[r] :
         Shows(read'[r].values, StorageOf(r, state), read[r].prog)
<1>1. IInv /\ [Next]_vars => [A]_gatewayVars
  <2>1. ASSUME IInv, Next PROVE A
    BY <2>1, AcceptedReads, ReadInShows
  <2>2. UNCHANGED vars => UNCHANGED gatewayVars
    BY DEF vars
  <2> HIDE DEF A
  <2>3. QED BY <2>1, <2>2
<1> HIDE DEF A
<1>2. Spec => [][A]_gatewayVars
  BY <1>1, Invariance, PTL DEF Spec
<1>3. QED BY <1>2 DEF AcceptedWasCurrent, A

\* An accepted answer is the record of the question under the version that the
\* node had at the same moment, in the resolver that was asked: what was
\* cleared, or replaced by a reorganisation before the question, is never
\* returned (L1Resolver.sol:231-394).
THEOREM AnswersAreCurrent == Spec => AnswersWereCurrent
<1> DEFINE A == \A c \in Requests : Ends(c, "accepted") /\ client[c].pc = "reading" =>
       LET q == client[c].question[1] IN
       \E state \in current[c] :
         LET v == RecordIn(state[read[c].target], q) IN
         Returned(q, read'[c].values) \in
           {Returned(q, <<<<Zero>>, <<v>>>>), Returned(q, <<<<Zero>>, <<Unpadded[v]>>>>)}
<1>1. IInv /\ [Next]_vars => [A]_vars
  <2>1. ASSUME IInv, Next PROVE A
    <3> SUFFICES ASSUME NEW c \in Requests, Ends(c, "accepted"), client[c].pc = "reading"
                 PROVE  LET q == client[c].question[1] IN
                        \E state \in current[c] :
                          LET v == RecordIn(state[read[c].target], q) IN
                          Returned(q, read'[c].values) \in
                            {Returned(q, <<<<Zero>>, <<v>>>>),
                             Returned(q, <<<<Zero>>, <<Unpadded[v]>>>>)}
      OBVIOUS
    <3> DEFINE q == client[c].question[1]
               t == read[c].target
               values == read'[c].values
    <3>1. /\ Follows(client[c], read[c]) /\ read[c].pc = "served" /\ current[c] \subseteq States
      BY <2>1, AcceptedReads
    <3>2. PICK state \in current[c] : ReadIn(values, StorageOf(c, state), read[c].prog)
      BY <2>1, AcceptedReads
    <3>3. q \in Questions /\ t \in Resolvers /\ read[c].prog = RecordProgram(q)
      BY <3>1 DEF Follows, Serving
    <3>4. ReadIn(values, state[t], RecordProgram(q)) /\ state \in States
      BY <3>1, <3>2, <3>3 DEF StorageOf
    <3> HIDE DEF q, t, values
    <3>5. LET v == RecordIn(state[t], q) IN
          Returned(q, values) \in
            {Returned(q, <<<<Zero>>, <<v>>>>), Returned(q, <<<<Zero>>, <<Unpadded[v]>>>>)}
      BY <3>3, <3>4, RecordReading
    <3>6. QED BY <3>5 DEF q, t, values
  <2> HIDE DEF A
  <2>2. QED BY <2>1
<1> HIDE DEF A
<1>2. Spec => [][A]_vars
  BY <1>1, Invariance, PTL DEF Spec
<1>3. QED BY <1>2 DEF AnswersWereCurrent, A

\* A client becomes refused by its own simulation or transaction only.
LEMMA OnlyUnpaidRefused ==
  ASSUME IInv, Next, NEW c \in Requests, client'[c].pc = "refused", client[c].pc # "refused"
  PROVE  client[c].pc \in Priced /\ ~ Payable(HeadState, c)
<1>1. client \in [Requests -> ClientState] /\ client' # client
  BY DEF IInv, ClientsInv
<1>2. CASE SetTarget \/ SetRecord \/ ClearRecords
  BY <1>1, <1>2 DEF SetTarget, SetRecord, ClearRecords
<1>3. CASE Reorganise
  <2>1. client'[c] = IF client[c].pc = "registered" /\ OwnerIn(chain[Height - 1], client[c].node) = Zero
                     THEN [client[c] EXCEPT !.pc = "sent"] ELSE client[c]
    BY <1>3 DEF Reorganise
  <2>2. [client[c] EXCEPT !.pc = "sent"].pc = "sent"
    BY <1>1 DEF ClientState
  <2>3. QED BY <2>1, <2>2
<1>4. ASSUME NEW d \in Requests, Resolve(d)
      PROVE  FALSE
  BY <1>1, <1>4 DEF Resolve, ClientState
<1>5. ASSUME NEW d \in Requests, AskPrice(d)
      PROVE  FALSE
  BY <1>1, <1>5 DEF AskPrice, ClientState
<1>6. ASSUME NEW d \in Requests, Defer(d)
      PROVE  FALSE
  BY <1>1, <1>6 DEF Defer, ClientState
<1>7. ASSUME NEW d \in Requests, Serve(d)
      PROVE  FALSE
  BY <1>1, <1>7 DEF Serve
<1>8. ASSUME NEW d \in Requests, NEW pc, Becomes(d, pc)
      PROVE  d = c /\ pc = "refused"
  BY <1>1, <1>8 DEF Becomes, ClientState
<1>9. ASSUME NEW d \in Requests, Simulate(d)
       PROVE  client[c].pc \in Priced /\ ~ Payable(HeadState, c)
  <2>1. d = c /\ (IF Payable(HeadState, d) THEN "sent" ELSE "refused") = "refused"
    BY <1>8, <1>9 DEF Simulate
  <2>2. QED BY <1>9, <2>1 DEF Simulate, Priced
<1>10. ASSUME NEW d \in Requests, Include(d)
       PROVE  client[c].pc \in Priced /\ ~ Payable(HeadState, c)
  <2>1. ~ Becomes(d, "registered")
    BY <1>8
  <2>2. Becomes(d, "refused") /\ ~ Payable(HeadState, d) /\ client[d].pc = "sent"
    BY <1>10, <2>1 DEF Include
  <2>3. d = c
    BY <1>8, <2>2
  <2>4. QED BY <2>2, <2>3 DEF Priced
<1>11. QED BY <1>2, <1>3, <1>4, <1>5, <1>6, <1>7, <1>9, <1>10 DEF Next

\* A registration is refused only when the name is taken, no price could be
\* read, or the registrar is another one than the price was read of: what
\* registerParams answered is enough at every later block
\* (L1Resolver.sol:131-158, SubdomainController.sol:48-52, write.ts:57-72).
THEOREM RefusalsHaveCause == Spec => RefusedForCause
<1> DEFINE A == \A c \in Requests :
       client'[c].pc = "refused" /\ client[c].pc # "refused" =>
         \/ OwnerIn(HeadState, client[c].node) # Zero
         \/ read[c].pc # "accepted"
         \/ client[c].to # read[c].target
<1>1. IInv /\ [Next]_vars => [A]_vars
  <2>1. ASSUME IInv, Next PROVE A
    <3> SUFFICES ASSUME NEW c \in Requests, client'[c].pc = "refused", client[c].pc # "refused",
                        OwnerIn(HeadState, client[c].node) = Zero, read[c].pc = "accepted",
                        client[c].to = read[c].target
                 PROVE  FALSE
      OBVIOUS
    <3>1. client[c].pc \in Priced /\ ~ Payable(HeadState, c)
      BY <2>1, OnlyUnpaidRefused
    <3>2. client[c].to \in Registrars /\ client[c].value = Prices[client[c].to]
      BY <2>1, <3>1, KnownClient DEF IInv, Follows
    <3>3. PriceOf(HeadState, client[c].to) = Prices[client[c].to]
      BY <2>1, <3>2, KnownChain, StateFields DEF IInv, Laid
    <3>4. Prices[client[c].to] \in Nat
      BY <3>2, Constants
    <3>5. Payable(HeadState, c)
      BY <3>2, <3>3, <3>4 DEF Payable
    <3>6. QED BY <3>1, <3>5
  <2> HIDE DEF A
  <2>2. QED BY <2>1
<1> HIDE DEF A
<1>2. Spec => [][A]_vars
  BY <1>1, Invariance, PTL DEF Spec
<1>3. QED BY <1>2 DEF RefusedForCause, A

-----------------------------------------------------------------------------
(* What a client refuses *)

\* a read q of which no call failed and under which no block was replaced: all
\* that is known of it comes from one block, the proofs and the root too
Unhurt(q, seq) ==
  /\ q.pc = "asking" => \A i \in 1..Len(q.prog) : q.slots[i] = <<>> /\ q.words[i] = <<>>
  /\ q.pc \in {"locating", "header"} =>
       LET storage == seq[q.block][q.target] IN
       SlotsAgree(q.slots, storage, q.prog) /\ WordsAgree(q.words, storage, q.prog)
  /\ q.pc = "header" => q.proof = <<seq[q.block]>>
  /\ q.pc = "served" =>
       q.proof = q.root /\ SlotsAgree(q.slots, q.root[1][q.target], q.prog)
  /\ q.pc \in {"header", "served"} => \A i \in 1..Len(q.prog) : q.slots[i] # <<>>

Undisturbed ==
  \A r \in Requests : ~ failed[r] /\ ~ shaken[r] => Unhurt(read[r], chain)

\* A step that changes one read.
LEMMA OneUnhurt ==
  ASSUME GatewayInv, Undisturbed, NEW r \in Requests, NEW q,
         read' = [read EXCEPT ![r] = q], chain' = chain,
         \A p \in Requests : p # r => failed'[p] = failed[p] /\ shaken'[p] = shaken[p],
         ~ failed'[r] /\ ~ shaken'[r] => Unhurt(q, chain)
  PROVE  Undisturbed'
<1>1. read'[r] = q /\ \A p \in Requests : p # r => read'[p] = read[p]
  BY Known
<1>2. ASSUME NEW p \in Requests, ~ failed'[p] /\ ~ shaken'[p]
      PROVE  Unhurt(read'[p], chain')
  <2>1. CASE p = r
    BY <1>1, <1>2, <2>1
  <2>2. CASE p # r
    <3>1. ~ failed[p] /\ ~ shaken[p] /\ read'[p] = read[p]
      BY <1>1, <1>2, <2>2
    <3> QED BY <3>1 DEF Undisturbed
  <2> QED BY <2>1, <2>2
<1> QED BY <1>2 DEF Undisturbed

\* A read that is not served is not hurt.
LEMMA RestingUnhurt ==
  ASSUME NEW q, q.pc \notin Serving, NEW seq
  PROVE  Unhurt(q, seq)
BY DEF Unhurt, Serving

LEMMA ForgetOthers ==
  ASSUME GatewayInv, NEW r \in Requests, Forget(r)
  PROVE  \A p \in Requests : p # r => failed'[p] = failed[p] /\ shaken'[p] = shaken[p]
BY Known DEF Forget

LEMMA FailUnhurt ==
  ASSUME GatewayInv, Undisturbed, NEW r \in Requests, Fail(r), chain' = chain
  PROVE  Undisturbed'
<1> DEFINE target == read[r].target
           q == [Idle EXCEPT !.pc = "failed", !.target = target]
<1>1. read' = [read EXCEPT ![r] = q] /\ Forget(r)
  BY DEF Fail
<1>2. q.pc = "failed"
  BY IdleTypes DEF ReadState
<1> HIDE DEF q
<1>3. Unhurt(q, chain)
  BY <1>2, RestingUnhurt DEF Serving
<1> QED BY <1>1, <1>3, ForgetOthers, OneUnhurt

\* A step that goes on: a call that failed disturbs the read.
LEMMA GoesOnUnhurt ==
  ASSUME GatewayInv, Undisturbed, NEW r \in Requests, NEW q,
         read' = [read EXCEPT ![r] = q], chain' = chain, shaken' = shaken,
         \/ NoFault(r) /\ (~ failed[r] /\ ~ shaken[r] => Unhurt(q, chain))
         \/ Fault(r)
  PROVE  Undisturbed'
<1>1. CASE NoFault(r) /\ (~ failed[r] /\ ~ shaken[r] => Unhurt(q, chain))
  <2>1. failed' = failed
    BY <1>1 DEF NoFault
  <2> QED BY <1>1, <2>1, OneUnhurt
<1>2. CASE Fault(r)
  <2>1. failed' = [failed EXCEPT ![r] = TRUE]
    BY <1>2 DEF Fault
  <2>2. failed'[r] /\ \A p \in Requests : p # r => failed'[p] = failed[p]
    BY <2>1, Known
  <2> QED BY <2>2, OneUnhurt
<1> QED BY <1>1, <1>2

LEMMA GetBlockUnhurt ==
  ASSUME GatewayInv, Undisturbed, NEW r \in Requests, GetBlock(r)
  PROVE  Undisturbed'
<1>1. read[r].pc = "asking" /\ chain' = chain
  BY DEF GetBlock
<1>2. CASE Fail(r)
  BY <1>1, <1>2, FailUnhurt
<1>3. CASE /\ NoFault(r) /\ UNCHANGED <<current, shaken>>
           /\ read' = [read EXCEPT ![r].pc = "locating", ![r].block = Height]
  <2> DEFINE q == [read[r] EXCEPT !.pc = "locating", !.block = Height]
  <2>1. read' = [read EXCEPT ![r] = q]
    BY <1>3, Known
  <2>2. /\ q.pc = "locating" /\ q.prog = read[r].prog
        /\ q.slots = read[r].slots /\ q.words = read[r].words
    BY Known DEF ReadState
  <2> HIDE DEF q
  <2>3. Len(read[r].slots) = Len(read[r].prog) /\ Len(read[r].words) = Len(read[r].prog)
    BY <1>1, Known DEF Fits
  <2>4. ASSUME ~ failed[r] /\ ~ shaken[r]
        PROVE  Unhurt(q, chain)
    <3>1. \A i \in 1..Len(read[r].prog) : read[r].slots[i] = <<>> /\ read[r].words[i] = <<>>
      BY <1>1, <2>4 DEF Undisturbed, Unhurt
    <3>2. \A storage : /\ SlotsAgree(read[r].slots, storage, read[r].prog)
                       /\ WordsAgree(read[r].words, storage, read[r].prog)
      BY <2>3, <3>1, NothingKnownAgrees
    <3> QED BY <2>2, <3>2 DEF Unhurt
  <2> QED BY <1>1, <1>3, <2>1, <2>4, GoesOnUnhurt
<1> QED BY <1>2, <1>3 DEF GetBlock

LEMMA ReadValueUnhurt ==
  ASSUME GatewayInv, Undisturbed, NEW r \in Requests, Backward(read[r].prog),
         NEW j, ReadValue(r, j)
  PROVE  Undisturbed'
<1> DEFINE storage == chain[read[r].block][read[r].target]
<1>1. /\ read[r].pc = "locating" /\ j \in 1..Len(read[r].prog) /\ chain' = chain /\ shaken' = shaken
      /\ ~ read[r].prog[j].dynamic /\ read[r].slots[j] # <<>>
  BY DEF ReadValue, Located
<1>2. PICK got \in Fetched(r, read[r].slots[j][1]) :
        /\ Charge(r, got.fault)
        /\ read' = [read EXCEPT ![r].words[j] = <<got.word>>]
  BY DEF ReadValue
<1>3. \/ NoFault(r) /\ got.word = At(storage, read[r].slots[j][1])
      \/ Fault(r)
  BY <1>2 DEF Fetched, Charge, StorageOf
<1> DEFINE words == [read[r].words EXCEPT ![j] = <<got.word>>]
           q == [read[r] EXCEPT !.words = words]
<1>4. read' = [read EXCEPT ![r] = q]
  BY <1>2, Known
<1>5. read[r].words \in Seq(Seq(Words)) /\ read[r].prog \in Seq(Command)
  BY Known DEF ReadState
<1> HIDE DEF words
<1>6. /\ q.pc = "locating" /\ q.block = read[r].block /\ q.prog = read[r].prog
      /\ q.slots = read[r].slots /\ q.words = words /\ q.target = read[r].target
  BY <1>1, Known DEF ReadState
<1> HIDE DEF q, storage
<1>7. ASSUME got.word = At(storage, read[r].slots[j][1]), ~ failed[r] /\ ~ shaken[r]
      PROVE  Unhurt(q, chain)
  <2>1. SlotsAgree(read[r].slots, storage, read[r].prog) /\ WordsAgree(read[r].words, storage, read[r].prog)
    BY <1>1, <1>7 DEF Undisturbed, Unhurt, storage
  <2>2. words = [read[r].words EXCEPT ![j] = <<At(storage, read[r].slots[j][1])>>]
    BY <1>7 DEF words
  <2>3. WordsAgree(words, storage, read[r].prog)
    BY <1>1, <1>5, <2>1, <2>2, ReadAgrees
  <2> QED BY <1>6, <2>1, <2>3 DEF Unhurt, storage
<1> QED BY <1>1, <1>3, <1>4, <1>7, GoesOnUnhurt

LEMMA LocateUnhurt ==
  ASSUME GatewayInv, Undisturbed, NEW r \in Requests, NEW i, Locate(r, i)
  PROVE  Undisturbed'
<1> DEFINE storage == chain[read[r].block][read[r].target]
           command == read[r].prog[i]
           slot == SlotOf(command, [j \in RefsOf(command) |-> read[r].words[j][1]])
           found == IF command.dynamic THEN SlotsFor(slot, At(storage, slot)) ELSE <<slot>>
<1>1. /\ read[r].pc = "locating" /\ i \in 1..Len(read[r].prog) /\ chain' = chain /\ shaken' = shaken
      /\ \A j \in RefsOf(command) : j < i /\ read[r].words[j] # <<>>
  BY DEF Locate
<1>2. PICK new : /\ read' = [read EXCEPT ![r].slots[i] = new]
                 /\ (NoFault(r) /\ new = found) \/ Fault(r)
  <2>1. CASE ~ command.dynamic /\ NoFault(r) /\ read' = [read EXCEPT ![r].slots[i] = <<slot>>]
    <3>1. <<slot>> = found
      BY <2>1
    <3> QED BY <2>1, <3>1
  <2>2. CASE /\ command.dynamic
             /\ \E got \in Fetched(r, slot) :
                  /\ Charge(r, got.fault)
                  /\ read' = [read EXCEPT ![r].slots[i] = SlotsFor(slot, got.word)]
    <3>1. PICK got \in Fetched(r, slot) :
                  /\ Charge(r, got.fault)
                  /\ read' = [read EXCEPT ![r].slots[i] = SlotsFor(slot, got.word)]
      BY <2>2
    <3>2. \/ NoFault(r) /\ got.word = At(storage, slot)
          \/ Fault(r)
      BY <3>1 DEF Fetched, Charge, StorageOf
    <3> HIDE DEF slot, storage, command
    <3>3. NoFault(r) => SlotsFor(slot, got.word) = found \/ Fault(r)
      BY <2>2, <3>2
    <3> QED BY <3>1, <3>2, <3>3
  <2> QED BY <2>1, <2>2 DEF Locate
<1> DEFINE slots == [read[r].slots EXCEPT ![i] = new]
           q == [read[r] EXCEPT !.slots = slots]
<1>3. read' = [read EXCEPT ![r] = q]
  BY <1>2, Known
<1>4. read[r].slots \in Seq(Seq(Slot)) /\ read[r].prog \in Seq(Command)
  BY Known DEF ReadState
<1> HIDE DEF slots
<1>5. /\ q.pc = "locating" /\ q.block = read[r].block /\ q.prog = read[r].prog
      /\ q.slots = slots /\ q.words = read[r].words /\ q.target = read[r].target
  BY <1>1, Known DEF ReadState
<1> HIDE DEF q, storage
<1>6. ASSUME new = found, ~ failed[r] /\ ~ shaken[r]
      PROVE  Unhurt(q, chain)
  <2>1. SlotsAgree(read[r].slots, storage, read[r].prog) /\ WordsAgree(read[r].words, storage, read[r].prog)
    BY <1>1, <1>6 DEF Undisturbed, Unhurt, storage
  <2>2. SlotsAgree([read[r].slots EXCEPT ![i] = found], storage, read[r].prog)
    BY <1>1, <1>4, <2>1, LocateAgrees
  <2>3. slots = [read[r].slots EXCEPT ![i] = found]
    BY <1>6 DEF slots
  <2> HIDE DEF found, slot, command
  <2>4. SlotsAgree(slots, storage, read[r].prog)
    BY <2>2, <2>3
  <2> QED BY <1>5, <2>1, <2>4 DEF Unhurt, storage
<1> QED BY <1>1, <1>2, <1>3, <1>6, GoesOnUnhurt

LEMMA ProveUnhurt ==
  ASSUME GatewayInv, Undisturbed, NEW r \in Requests, Prove(r)
  PROVE  Undisturbed'
<1>1. /\ read[r].pc = "locating" /\ chain' = chain
      /\ \A i \in 1..Len(read[r].prog) : read[r].slots[i] # <<>>
  BY DEF Prove, Located
<1>2. CASE Fail(r)
  BY <1>1, <1>2, FailUnhurt
<1>3. CASE /\ NoFault(r) /\ UNCHANGED <<current, shaken>>
           /\ read' = [read EXCEPT ![r].pc = "header", ![r].proof = <<chain[read[r].block]>>]
  <2> DEFINE proof == <<chain[read[r].block]>>
             q == [read[r] EXCEPT !.pc = "header", !.proof = proof]
  <2>1. read' = [read EXCEPT ![r] = q]
    BY <1>3, Known
  <2> HIDE DEF proof
  <2>2. /\ q.pc = "header" /\ q.block = read[r].block /\ q.prog = read[r].prog
        /\ q.slots = read[r].slots /\ q.words = read[r].words
        /\ q.target = read[r].target /\ q.proof = proof
    BY Known DEF ReadState
  <2> HIDE DEF q
  <2>3. ~ failed[r] /\ ~ shaken[r] => Unhurt(read[r], chain)
    BY DEF Undisturbed
  <2>4. ~ failed[r] /\ ~ shaken[r] => Unhurt(q, chain)
    BY <1>1, <2>2, <2>3 DEF Unhurt, proof
  <2> QED BY <1>1, <1>3, <2>1, <2>4, GoesOnUnhurt
<1> QED BY <1>2, <1>3 DEF Prove

LEMMA GetHeaderUnhurt ==
  ASSUME GatewayInv, Undisturbed, NEW r \in Requests, GetHeader(r)
  PROVE  Undisturbed'
<1>1. read[r].pc = "header" /\ chain' = chain
  BY DEF GetHeader
<1>2. CASE Fail(r)
  BY <1>1, <1>2, FailUnhurt
<1>3. CASE /\ NoFault(r) /\ UNCHANGED <<current, shaken>>
           /\ read' = [read EXCEPT ![r].pc = "served", ![r].root = <<chain[read[r].block]>>]
  <2> DEFINE root == <<chain[read[r].block]>>
             q == [read[r] EXCEPT !.pc = "served", !.root = root]
  <2>1. read' = [read EXCEPT ![r] = q]
    BY <1>3, Known
  <2>2. root[1] = chain[read[r].block]
    OBVIOUS
  <2> HIDE DEF root
  <2>3. /\ q.pc = "served" /\ q.prog = read[r].prog /\ q.slots = read[r].slots
        /\ q.target = read[r].target /\ q.proof = read[r].proof /\ q.root = root
    BY Known DEF ReadState
  <2> HIDE DEF q
  <2>4. ~ failed[r] /\ ~ shaken[r] => Unhurt(read[r], chain)
    BY DEF Undisturbed
  <2>5. ~ failed[r] /\ ~ shaken[r] => read[r].proof = root
    BY <1>1, <2>4 DEF Unhurt, root
  <2>6. ~ failed[r] /\ ~ shaken[r] => Unhurt(q, chain)
    BY <1>1, <2>2, <2>3, <2>4, <2>5 DEF Unhurt
  <2> QED BY <1>1, <1>3, <2>1, <2>6, GoesOnUnhurt
<1> QED BY <1>2, <1>3 DEF GetHeader

LEMMA MineUnhurt ==
  ASSUME GatewayInv, Undisturbed, NEW state, Mine(state)
  PROVE  Undisturbed'
<1>1. /\ chain' = Append(chain, state)
      /\ read' = read /\ failed' = failed /\ shaken' = shaken
  BY DEF Mine
<1>2. ASSUME NEW r \in Requests, Unhurt(read[r], chain)
      PROVE  Unhurt(read[r], chain')
  <2>1. read[r].pc \in {"locating", "header"} => chain'[read[r].block] = chain[read[r].block]
    BY <1>1, Known, KnownChain DEF Fits
  <2> QED BY <1>2, <2>1 DEF Unhurt
<1> QED BY <1>1, <1>2 DEF Undisturbed

LEMMA ReorgUnhurt ==
  ASSUME GatewayInv, Undisturbed, Reorg
  PROVE  Undisturbed'
<1>1. /\ shaken' = [r \in Requests |-> shaken[r] \/ Active(r)]
      /\ read' = read /\ failed' = failed
  BY DEF Reorg
<1>2. ASSUME NEW r \in Requests, ~ shaken'[r]
      PROVE  Unhurt(read[r], chain')
  <2>1. ~ Active(r)
    BY <1>1, <1>2
  <2> QED BY <2>1, RestingUnhurt DEF Active, Serving
<1> QED BY <1>1, <1>2 DEF Undisturbed

LEMMA ArriveUnhurt ==
  ASSUME GatewayInv, Undisturbed, NEW r \in Requests, NEW target, NEW prog \in Seq(Command),
         Arrive(r, target, prog)
  PROVE  Undisturbed'
<1> DEFINE slots == [i \in 1..Len(prog) |-> <<>>]
           q == [Idle EXCEPT !.pc = "asking", !.target = target, !.prog = prog,
                             !.slots = slots, !.words = slots]
<1>1. /\ read' = [read EXCEPT ![r] = q] /\ chain' = chain
      /\ failed' = failed /\ shaken' = shaken
  BY DEF Arrive
<1>2. \A i \in 1..Len(prog) : slots[i] = <<>>
  OBVIOUS
<1> HIDE DEF slots
<1>3. q.pc = "asking" /\ q.prog = prog /\ q.slots = slots /\ q.words = slots
  BY DEF Idle
<1> HIDE DEF q
<1>4. Unhurt(q, chain)
  BY <1>2, <1>3 DEF Unhurt
<1> QED BY <1>1, <1>4, OneUnhurt

LEMMA CallbackUnhurt ==
  ASSUME GatewayInv, Undisturbed, NEW r \in Requests, Callback(r)
  PROVE  Undisturbed'
<1>1. PICK lenient \in BOOLEAN :
        read' = [read EXCEPT ![r] =
          [@ EXCEPT !.pc = IF Verdict(r, lenient).ok THEN "accepted" ELSE "reverted",
                    !.values = Verdict(r, lenient).values, !.block = 0,
                    !.slots = <<>>, !.words = <<>>, !.proof = <<>>, !.root = <<>>]]
  BY DEF Callback
<1> DEFINE pc == IF Verdict(r, lenient).ok THEN "accepted" ELSE "reverted"
           values == Verdict(r, lenient).values
           q == [read[r] EXCEPT !.pc = pc, !.values = values, !.block = 0,
                    !.slots = <<>>, !.words = <<>>, !.proof = <<>>, !.root = <<>>]
<1>2. read' = [read EXCEPT ![r] = q] /\ chain' = chain /\ Forget(r)
  BY <1>1, Known DEF Callback
<1>3. pc \in {"accepted", "reverted"}
  OBVIOUS
<1> HIDE DEF pc, values
<1>4. q.pc = pc
  BY Known DEF ReadState
<1> HIDE DEF q
<1>5. Unhurt(q, chain)
  BY <1>3, <1>4, RestingUnhurt DEF Serving
<1> QED BY <1>2, <1>5, ForgetOthers, OneUnhurt

LEMMA ServeUnhurt ==
  ASSUME IInv, Undisturbed, NEW r \in Requests, Serve(r)
  PROVE  Undisturbed'
<1>1. GatewayInv /\ ClientsInv
  BY DEF IInv
<1>2. read[r].pc \in Serving
  BY DEF Serve, Callback, GatewayStep, GetBlock, Prove, GetHeader, ReadValue, Locate, Serving
<1>3. Backward(read[r].prog)
  BY <1>1, <1>2, ServedReads DEF Verifiable
<1> QED BY <1>1, <1>3, GetBlockUnhurt, ReadValueUnhurt, LocateUnhurt, ProveUnhurt,
           GetHeaderUnhurt, CallbackUnhurt
       DEF Serve, GatewayStep

LEMMA NextUnhurt ==
  ASSUME IInv, Undisturbed, Next
  PROVE  Undisturbed'
<1>1. GatewayInv /\ ClientsInv
  BY DEF IInv
<1>2. CASE UNCHANGED gatewayVars
  BY <1>2 DEF Undisturbed, gatewayVars
<1>3. CASE SetTarget \/ SetRecord \/ ClearRecords \/ Reorganise
  BY <1>1, <1>2, <1>3, MineUnhurt, ReorgUnhurt DEF SetTarget, SetRecord, ClearRecords, Reorganise
<1>4. ASSUME NEW c \in Requests, Resolve(c) \/ AskPrice(c)
      PROVE  Undisturbed'
  <2>1. PICK target, prog : prog \in Seq(Command) /\ Arrive(c, target, prog)
    <3>1. CASE Resolve(c)
      <4>1. PICK q \in Questions : Arrive(c, targets.resolver, RecordProgram(q))
        BY <3>1 DEF Resolve
      <4>2. RecordProgram(q) \in Seq(Command)
        BY ProgramTypes
      <4> QED BY <4>1, <4>2
    <3>2. CASE AskPrice(c)
      <4>1. Arrive(c, targets.registrar, ParamsProgram) /\ ParamsProgram \in Seq(Command)
        BY <3>2, ProgramTypes DEF AskPrice
      <4> QED BY <4>1
    <3> QED BY <1>4, <3>1, <3>2
  <2> QED BY <1>1, <2>1, ArriveUnhurt
<1>5. ASSUME NEW c \in Requests, Defer(c) \/ Simulate(c) \/ Include(c)
      PROVE  Undisturbed'
  BY <1>1, <1>2, <1>5, MineUnhurt DEF Defer, Simulate, Include
<1> QED BY <1>3, <1>4, <1>5, ServeUnhurt DEF Next

LEMMA UndisturbedInvariance == Spec => [](IInv /\ Undisturbed)
<1>1. Init => Undisturbed
  <2> SUFFICES ASSUME Init PROVE Undisturbed
    OBVIOUS
  <2>1. \A r \in Requests : read[r] = Idle
    BY DEF Init, GatewayInit
  <2> QED BY <2>1, IdleTypes, RestingUnhurt DEF Undisturbed, Serving
<1>2. IInv /\ Undisturbed /\ [Next]_vars => Undisturbed'
  <2>1. IInv /\ Undisturbed /\ UNCHANGED vars => Undisturbed'
    BY DEF Undisturbed, vars, gatewayVars
  <2> QED BY <2>1, NextUnhurt
<1> QED BY <1>1, <1>2, InitIInv, NextIInv, PTL DEF Spec

\* A client refuses an answer only when a call of the request failed, the
\* chain was reorganised under it, the contract was not there or empty, or a
\* value is too long or too short for the verifier: calls that are made by the
\* number of a block agree otherwise, however the commands interleave and
\* however the chain grows (l1proof.ts:37-80, slots.ts:124-164,
\* EVMProofHelper.sol:33-48, 130-229, MerkleTrie.sol:106-129).
THEOREM RevertsAreCaused == Spec => RevertsHaveCause
<1>1. ASSUME IInv, Undisturbed, Next, NEW r \in Requests, Ends(r, "reverted")
      PROVE  \/ failed[r] \/ shaken[r]
             \/ \E state \in current[r] : ~ HasTrie(StorageOf(r, state))
             \/ \E state \in current[r], i \in DOMAIN read[r].prog :
                  LET exact == Reading(StorageOf(r, state), read[r].prog)[i] IN
                  read[r].prog[i].dynamic
                    /\ (Len(exact) > 1 \/ exact[Len(exact)] \in TooShort)
  <2> SUFFICES ASSUME ~ failed[r] /\ ~ shaken[r],
                      \A state \in current[r] : HasTrie(StorageOf(r, state))
               PROVE  \E state \in current[r], i \in DOMAIN read[r].prog :
                        LET exact == Reading(StorageOf(r, state), read[r].prog)[i] IN
                        read[r].prog[i].dynamic
                          /\ (Len(exact) > 1 \/ exact[Len(exact)] \in TooShort)
    OBVIOUS
  <2>1. /\ GatewayInv /\ ClientsInv /\ read[r].pc = "served" /\ read'[r].pc = "reverted"
        /\ Callback(r) /\ read[r].pc \in Serving
    BY <1>1, OnlyCallbackEnds DEF IInv, Ends, Serving
  <2>2. /\ read[r].target \in Targets /\ read[r].prog \in Seq(Command)
        /\ Backward(read[r].prog) /\ Based(read[r].prog) /\ StaticRefs(read[r].prog)
        /\ read[r].slots \in Seq(Seq(Slot))
    BY <2>1, ServedReads, Known DEF ReadState, Verifiable
  <2> DEFINE state == read[r].root[1]
             storage == state[read[r].target]
  <2>3. state \in current[r] /\ state \in States
    BY <2>1, Known DEF Fits
  <2>4. IsContent(storage)
    BY <2>2, <2>3, StateFields
  <2>5. /\ read[r].proof = read[r].root
        /\ SlotsAgree(read[r].slots, storage, read[r].prog)
        /\ \A i \in 1..Len(read[r].prog) : read[r].slots[i] # <<>>
    BY <1>1, <2>1 DEF Undisturbed, Unhurt
  <2>6. PICK lenient \in BOOLEAN :
          read' = [read EXCEPT ![r] =
            [@ EXCEPT !.pc = IF Verdict(r, lenient).ok THEN "accepted" ELSE "reverted",
                      !.values = Verdict(r, lenient).values, !.block = 0,
                      !.slots = <<>>, !.words = <<>>, !.proof = <<>>, !.root = <<>>]]
    BY <2>1 DEF Callback
  <2>7. read'[r].pc = IF Verdict(r, lenient).ok THEN "accepted" ELSE "reverted"
    BY <2>1, <2>6, Known DEF ReadState
  <2>8. ~ Verdict(r, lenient).ok
    BY <2>1, <2>7
  <2>9. StorageOf(r, state) = storage
    BY DEF StorageOf
  <2> HIDE DEF storage
  <2>12. HasTrie(storage)
    BY <2>3, <2>9
  <2>10. ~ Verified(storage, read[r].prog, Witness(read[r].slots), lenient).ok
    BY <2>5, <2>8, <2>9 DEF Verdict
  <2>11. \E i \in DOMAIN read[r].prog :
           LET exact == Reading(storage, read[r].prog)[i] IN
           read[r].prog[i].dynamic /\ (Len(exact) > 1 \/ exact[Len(exact)] \in TooShort)
    BY <2>2, <2>4, <2>5, <2>10, <2>12, RefusedForValue
  <2> HIDE DEF state
  <2> QED BY <2>3, <2>9, <2>11
<1> DEFINE Caused ==
             \A r \in Requests : Ends(r, "reverted") =>
               \/ failed[r] \/ shaken[r]
               \/ \E state \in current[r] : ~ HasTrie(StorageOf(r, state))
               \/ \E state \in current[r], i \in DOMAIN read[r].prog :
                    LET exact == Reading(StorageOf(r, state), read[r].prog)[i] IN
                    read[r].prog[i].dynamic
                      /\ (Len(exact) > 1 \/ exact[Len(exact)] \in TooShort)
<1>2. IInv /\ Undisturbed /\ [Next]_vars => [Caused]_gatewayVars
  <2>1. IInv /\ Undisturbed /\ Next => Caused
    BY <1>1
  <2>2. UNCHANGED vars => UNCHANGED gatewayVars
    BY DEF vars, gatewayVars
  <2> HIDE DEF Caused
  <2> QED BY <2>1, <2>2
<1> QED BY <1>2, UndisturbedInvariance, PTL DEF Spec, RevertsHaveCause

=============================================================================
