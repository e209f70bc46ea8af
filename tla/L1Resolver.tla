------------------------------ MODULE L1Resolver ------------------------------
(***************************************************************************)
(* L1Resolver: reads as programs that a gateway answers with proofs        *)
(* (L1Gateway), and writes deferred to the chain that holds the records.   *)
(* There a registration is made by SubdomainController, through the name   *)
(* wrapper and the records of a resolver, both external; the client        *)
(* (client/src/write.ts) asks for the price, is deferred, simulates the    *)
(* transaction and sends it, and what it learned may be stale each time.   *)
(*                                                                         *)
(* Words that are slots, versions, prices or times are numbers.            *)
(***************************************************************************)
EXTENDS L1Gateway

CONSTANTS
  Nodes, Keys, CoinTypes,
  Questions,       \* records that are set and asked for
  Values,          \* of records
  AddressOf,       \* AddressOf[v]: the first 20 bytes of v
  Resolvers, Registrars, Wrapper,
  Prices,          \* Prices[t]: the price of registrar t
  FirstTargets,    \* targets given to the constructor
  Readers, Registrants,  \* requests that read a record, or register a name
  ClientResolver,  \* the resolver that clients register names with
  Durations,       \* of registrations
  Expiries,        \* how many numbers an expiry can be: 2^64
  MaxVersion,      \* bound on clearRecords
  MaxRetargets     \* bound on setTarget

COIN_TYPE_ETH == 60
RECORD_VERSIONS_SLOT == 0
VERSIONABLE_ADDRESSES_SLOT == 2
VERSIONABLE_HASHES_SLOT == 3
VERSIONABLE_TEXTS_SLOT == 10
PRICE_SLOT == 0
COMMIT_SLOT == 1

ASSUME L1ResolverAssumption ==
  /\ Targets = Resolvers \cup Registrars \cup {Wrapper} /\ ClientResolver \in Resolvers
  /\ Resolvers \cap Registrars = {} /\ Wrapper \notin Resolvers \cup Registrars
  /\ {RECORD_VERSIONS_SLOT, VERSIONABLE_ADDRESSES_SLOT, VERSIONABLE_HASHES_SLOT,
      VERSIONABLE_TEXTS_SLOT, COMMIT_SLOT, COIN_TYPE_ETH} \subseteq Words
  /\ Nodes \cup Keys \cup CoinTypes \cup Values \cup Requests \subseteq Words
  /\ FirstTargets \in [resolver : Resolvers, registrar : Registrars]
  /\ Prices \in [Registrars -> Words \cap Nat]
  /\ Readers \cup Registrants \subseteq Requests
  /\ AddressOf \in [Words -> Words] /\ Zero = 0 /\ Durations \subseteq Nat
  /\ Zero \notin Requests                 \* no client has the address 0
  /\ \A v \in Values : Long[v] = 0        \* a record is one word
  /\ MaxVersion \in Nat /\ 0..MaxVersion \subseteq Words
  /\ Expiries \in Nat \ {0} /\ 0..(Expiries - 1) \subseteq Words
  /\ MaxRetargets \in Nat

VARIABLES
  targets,    \* L1Resolver.targets
  retargets,
  client      \* what each client is doing; a client is the read it makes

resolverVars == <<targets, retargets>>
vars == <<gatewayVars, resolverVars, client>>

-----------------------------------------------------------------------------
(* Records and programs *)

Question == [kind : {"addr", "text", "addr coin", "contenthash"},
             base : {VERSIONABLE_ADDRESSES_SLOT, VERSIONABLE_TEXTS_SLOT, VERSIONABLE_HASHES_SLOT},
             node : Nodes, keys : Seq(Words)]

TextOf(node, key) ==
  [kind |-> "text", base |-> VERSIONABLE_TEXTS_SLOT, node |-> node, keys |-> <<key>>]
CoinAddrOf(node, coinType) ==
  [kind |-> "addr coin", base |-> VERSIONABLE_ADDRESSES_SLOT, node |-> node, keys |-> <<coinType>>]
AddrOf(node) == [CoinAddrOf(node, COIN_TYPE_ETH) EXCEPT !.kind = "addr"]
ContenthashOf(node) ==
  [kind |-> "contenthash", base |-> VERSIONABLE_HASHES_SLOT, node |-> node, keys |-> <<>>]

Records ==
  {TextOf(n, k) : n \in Nodes, k \in Keys} \cup {CoinAddrOf(n, c) : n \in Nodes, c \in CoinTypes}
  \cup {AddrOf(n) : n \in Nodes} \cup {ContenthashOf(n) : n \in Nodes}

ASSUME QuestionAssumption == Questions \subseteq Records

\* Mutant of RecordProgram: the version is not part of the path
UnversionedProgram(q) ==
  <<Static(<<Const(RECORD_VERSIONS_SLOT), Const(q.node)>>),
    Dynamic(<<Const(q.base), Const(RECORD_VERSIONS_SLOT), Const(q.node)>>
            \o [k \in DOMAIN q.keys |-> Const(q.keys[k])])>>

\* _addr, _text and _contenthash: the version of the node, then the record
RecordProgram(q) ==
  <<Static(<<Const(RECORD_VERSIONS_SLOT), Const(q.node)>>),
    Dynamic(<<Const(q.base), Ref(1), Const(q.node)>>
            \o [k \in DOMAIN q.keys |-> Const(q.keys[k])])>>

\* Mutant of ParamsProgram: price and commit time swapped
SwappedParamsProgram == <<Static(<<Const(COMMIT_SLOT)>>), Static(<<Const(PRICE_SLOT)>>)>>

\* registerParams
ParamsProgram == <<Static(<<Const(PRICE_SLOT)>>), Static(<<Const(COMMIT_SLOT)>>)>>

\* addrCallback converts the bytes to an address; the others hand them on
Returned(q, values) ==
  IF q.kind = "addr" THEN AddressOf[values[2][1]] ELSE values[2][1]

-----------------------------------------------------------------------------
(* The contracts of the other chain: a versioned resolver and a name       *)
(* wrapper (external), and SubdomainController.                            *)

SlotAt(path) == [path |-> path, part |-> 0]

VersionIn(storage, node) == At(storage, SlotAt(<<RECORD_VERSIONS_SLOT, node>>))
RecordSlot(storage, q) ==
  SlotAt(<<q.base, VersionIn(storage, q.node), q.node>> \o q.keys)
RecordIn(storage, q) == At(storage, RecordSlot(storage, q))

Put(state, target, slot, word) ==
  [state EXCEPT ![target] =
     [s \in DOMAIN @ \cup {slot} |-> IF s = slot THEN word ELSE @[s]]]

OwnerSlot(node) == SlotAt(<<node>>)
ExpirySlot(node) == SlotAt(<<node, COMMIT_SLOT>>)
OwnerIn(state, node) == At(state[Wrapper], OwnerSlot(node))

PriceOf(state, registrar) == At(state[registrar], SlotAt(<<PRICE_SLOT>>))

\* Mutant of Payable: the name is not looked up
PayableAnyway(state, c) == client[c].value >= PriceOf(state, client[c].to)

\* what SubdomainController.register requires
Payable(state, c) ==
  /\ OwnerIn(state, client[c].node) = Zero
  /\ client[c].value >= PriceOf(state, client[c].to)

\* SubdomainController.register: setSubnodeRecord, then the records, here q
Registered(state, c, q, v) ==
  LET named == Put(Put(state, Wrapper, OwnerSlot(q.node), c),
                   Wrapper, ExpirySlot(q.node), client[c].duration % Expiries)
  IN  Put(named, ClientResolver, RecordSlot(named[ClientResolver], q), v)

-----------------------------------------------------------------------------

NewClient == [pc |-> "new", question |-> <<>>, node |-> Zero, duration |-> 0,
              value |-> 0, to |-> "none"]

\* the prices of the registrars are those of their deployment
Genesis ==
  [t \in Targets |->
     IF t \in Registrars
     THEN [s \in {SlotAt(<<PRICE_SLOT>>), SlotAt(<<COMMIT_SLOT>>)} |->
             IF s = SlotAt(<<PRICE_SLOT>>) THEN Prices[t] ELSE Zero]
     ELSE [s \in {} |-> Zero]]

Init ==
  /\ GatewayInit(Genesis)
  /\ targets = FirstTargets
  /\ retargets = 0
  /\ client = [c \in Requests |-> NewClient]

\* setTarget
SetTarget ==
  /\ retargets < MaxRetargets /\ retargets' = retargets + 1
  /\ \/ \E t \in Resolvers \ {targets.resolver} : targets' = [targets EXCEPT !.resolver = t]
     \/ \E t \in Registrars \ {targets.registrar} : targets' = [targets EXCEPT !.registrar = t]
  /\ UNCHANGED <<gatewayVars, client>>

\* a record of a resolver is set, by whom is not modelled
SetRecord ==
  /\ \E t \in Resolvers, q \in Questions, v \in Values :
       /\ RecordIn(HeadState[t], q) # v
       /\ Mine(Put(HeadState, t, RecordSlot(HeadState[t], q), v))
  /\ UNCHANGED <<resolverVars, client>>

ClearRecords ==
  /\ \E t \in Resolvers, n \in Nodes :
       LET version == VersionIn(HeadState[t], n) IN
       /\ version < MaxVersion
       /\ Mine(Put(HeadState, t, SlotAt(<<RECORD_VERSIONS_SLOT, n>>), version + 1))
  /\ UNCHANGED <<resolverVars, client>>

\* a registration in the block that is replaced is sent again
Reorganise ==
  /\ Reorg
  /\ client' = [c \in Requests |->
       IF client[c].pc = "registered" /\ OwnerIn(chain[Height - 1], client[c].node) = Zero
       THEN [client[c] EXCEPT !.pc = "sent"] ELSE client[c]]
  /\ UNCHANGED resolverVars

-----------------------------------------------------------------------------
(* Clients *)

Becomes(c, pc) == client' = [client EXCEPT ![c].pc = pc]

\* resolve, addr, text, contenthash
Resolve(c) ==
  /\ c \in Readers /\ client[c].pc = "new"
  /\ \E q \in Questions :
       /\ Arrive(c, targets.resolver, RecordProgram(q))
       /\ client' = [client EXCEPT ![c].pc = "reading", ![c].question = <<q>>]
  /\ UNCHANGED resolverVars

\* registerParams
AskPrice(c) ==
  /\ c \in Registrants /\ client[c].pc = "new"
  /\ \E n \in Nodes, d \in Durations :
       client' = [client EXCEPT ![c].pc = "pricing", ![c].node = n, ![c].duration = d]
  /\ Arrive(c, targets.registrar, ParamsProgram)
  /\ UNCHANGED resolverVars

\* without an answer the client offers nothing; then register is deferred to
\* the registrar of the moment
Defer(c) ==
  /\ client[c].pc = "pricing" /\ read[c].pc \in {"accepted", "failed", "reverted"}
  /\ client' = [client EXCEPT ![c].pc = "deferred", ![c].to = targets.registrar,
                  ![c].value = IF read[c].pc = "accepted" THEN read[c].values[1][1] ELSE 0]
  /\ UNCHANGED <<gatewayVars, resolverVars>>

\* simulateContract, then writeContract
Simulate(c) ==
  /\ client[c].pc = "deferred"
  /\ Becomes(c, IF Payable(HeadState, c) THEN "sent" ELSE "refused")
  /\ UNCHANGED <<gatewayVars, resolverVars>>

\* the transaction is included in a block, where it may revert after all
Include(c) ==
  /\ client[c].pc = "sent"
  /\ \/ /\ Payable(HeadState, c)
        /\ \E q \in Questions, v \in Values :
             q.node = client[c].node /\ Mine(Registered(HeadState, c, q, v))
        /\ Becomes(c, "registered")
     \/ /\ ~ Payable(HeadState, c)
        /\ Becomes(c, "refused") /\ UNCHANGED gatewayVars
  /\ UNCHANGED resolverVars

Serve(r) == (GatewayStep(r) \/ Callback(r)) /\ UNCHANGED <<resolverVars, client>>

Next ==
  \/ SetTarget \/ SetRecord \/ ClearRecords \/ Reorganise
  \/ \E c \in Requests :
       \/ Resolve(c) \/ AskPrice(c) \/ Defer(c) \/ Simulate(c) \/ Include(c) \/ Serve(c)

Spec == Init /\ [][Next]_vars

(***************************************************************************)
(* Each RPC call of the gateway settles, and its continuation is run.      *)
(***************************************************************************)
FairSpec ==
  Spec /\ \A r \in Requests :
    WF_vars(GatewayStep(r) /\ UNCHANGED <<resolverVars, client>>)

-----------------------------------------------------------------------------
(* Properties *)

ClientState ==
  [pc : {"new", "reading", "pricing", "deferred", "sent", "registered", "refused"},
   question : Seq(Question), node : Nodes \cup {Zero}, duration : Durations \cup {0},
   value : Words, to : Registrars \cup {"none"}]

TypeOK ==
  /\ GatewayTypeOK
  /\ targets \in [resolver : Resolvers, registrar : Registrars]
  /\ retargets \in 0..MaxRetargets
  /\ client \in [Requests -> ClientState]

\* An accepted answer is the record of the question, under the version that
\* the node had at the same moment, in the resolver that was the target when
\* the question was asked, at a moment since then: a cleared record does not
\* come back through an older version (L1Resolver.sol:231-394).
AnswersWereCurrent ==
  [][\A c \in Requests : Ends(c, "accepted") /\ client[c].pc = "reading" =>
       LET q == client[c].question[1] IN
       \E state \in current[c] :
         LET v == RecordIn(state[read[c].target], q) IN
         Returned(q, read'[c].values) \in
           {Returned(q, <<<<Zero>>, <<v>>>>), Returned(q, <<<<Zero>>, <<Unpadded[v]>>>>)}]_vars

\* A client whose registration is in the chain owns the name, also when
\* several clients simulated the registration of one name with success before
\* any of them was included (SubdomainController.sol:48-57, write.ts:157-163).
RegisteredOwns ==
  \A c \in Requests : client[c].pc = "registered" =>
    OwnerIn(HeadState, client[c].node) = c

\* A registration is refused only when the name is taken, no price could be
\* read, or the registrar is no longer the one whose price was read: otherwise
\* what registerParams answered is enough (L1Resolver.sol:131-158,
\* SubdomainController.sol:48-52, write.ts:57-72).
RefusedForCause ==
  [][\A c \in Requests :
       client'[c].pc = "refused" /\ client[c].pc # "refused" =>
         \/ OwnerIn(HeadState, client[c].node) # Zero
         \/ read[c].pc # "accepted"
         \/ client[c].to # read[c].target]_vars

=============================================================================
