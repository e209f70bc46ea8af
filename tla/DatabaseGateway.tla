--------------------------- MODULE DatabaseGateway ---------------------------
(***************************************************************************)
(* The database gateway (gateway/cmd/database.ts): HTTP requests, the      *)
(* handlers of gateway/src/handlers, the ownership validator, the Mongo    *)
(* repository and the signing middleware.  Every await of the code ends an *)
(* action, so the calls of all requests interleave at their database and   *)
(* RPC accesses.  A request carries one call or is a multicall, whose      *)
(* calls run concurrently (Promise.all) and share its signature.           *)
(*                                                                         *)
(* Kinds of call, after the checks their handlers share:                   *)
(*   "setText"    read the record, then $set the key and constitutionHash  *)
(*   "setField"   $set one field without reading (setAddr, setContenthash) *)
(*   "transfer"   read the on-chain owner, then $set owner                 *)
(*   "setNothing" setABI and setPubkey, whose repository body is empty     *)
(*   "register"   no check: read the LEI, then insert the entity           *)
(*   "text", "addr", "contenthash"   reads                                 *)
(***************************************************************************)
EXTENDS EntityRecords, FiniteSets

CONSTANTS
  Requests,    \* HTTP requests the gateway may receive
  Accounts,    \* signers and externally owned owners
  Wrapper,     \* address of the name wrapper
  Multisig,    \* address of the multisig of an entity
  Members,     \* contracts that can manage the members of the multisig
  Nobody,      \* the answer of a contract that has none, or a zero address
  Scripts,     \* what a request may ask for, see ScriptType
  Reserved,    \* text keys that setText refuses: pubkey, ABI
  MaxCalls,    \* longest multicall
  MaxFaults,   \* bound on failed database or RPC calls and crashes
  MaxMoves,    \* bound on changes on chain
  Holders,     \* ways a node can be held on chain, see HolderType
  Teams        \* states of the multisig, see TeamType

Verified == {"setText", "setField", "transfer", "setNothing"}
Reads == {"text", "addr", "contenthash"}
Slots == 1..MaxCalls

CallType == [kind : Verified \cup Reads \cup {"register"},
             node : Nodes, field : Fields, value : Values]

\* chainOk: the signature's domain names the chain of the gateway
ScriptType == [account : Accounts, chainOk : BOOLEAN, multi : BOOLEAN,
               calls : Seq(CallType)]

\* what the contracts say of a node: owner, of the registry; wrapped, the
\* wrapper's ownerOf; legacy, the registrar's ownerOf
HolderType == [owner : Accounts \cup {Wrapper, Multisig},
               wrapped : Accounts \cup {Nobody}, legacy : Accounts \cup {Nobody}]

\* what they say of the multisig: manager, its entityMemberManager; roles, the
\* accounts for which userRoleLookup of a member contract answers true
TeamType == [manager : Members, roles : [Members -> SUBSET Accounts]]

ChainType == [held : [Nodes -> Holders], team : Teams]

ASSUME GatewayAssumption ==
  /\ MaxCalls \in Nat \ {0} /\ MaxFaults \in Nat /\ MaxMoves \in Nat
  /\ Accounts \cup {Wrapper, Multisig} \subseteq Values
  /\ {Wrapper, Multisig, Nobody} \cap Accounts = {} /\ Wrapper # Multisig
  /\ Reserved \subseteq Fields
  /\ Scripts \subseteq ScriptType
  /\ \A s \in Scripts : /\ Len(s.calls) \in Slots
                        /\ ~ s.multi => Len(s.calls) = 1
  /\ Holders \subseteq HolderType /\ Teams \subseteq TeamType
  /\ Nodes \cap {"0x", "other", "none"} = {}

VARIABLES
  docs,     \* the collection
  chain,    \* states of the contracts on chain, the last one is the present
  script,   \* script[r]: what request r asks for
  call,     \* call[r][i]: progress of the i-th call of request r
  req,      \* req[r]: progress of request r and its answer
  faults,
  \* history, read by the properties only (as is chain but for its last):
  arrived,   \* arrived[r]: the present of the chain when r arrived
  since,     \* since[r][i]: hashes of every version of the record of a setText
             \*   from its own write on
  contended  \* contended[r]: another request overlapped r

store == <<docs, chain, faults>>
history == <<arrived, since, contended>>
vars == <<docs, chain, script, call, req, faults, history>>

NoScript == [account |-> CHOOSE a \in Accounts : TRUE, chainOk |-> FALSE,
             multi |-> FALSE, calls |-> <<>>]

IdleCall == [pc |-> "idle", eth |-> "none", db |-> "none", hash |-> NoHash,
             members |-> Nobody, owner |-> Multisig, status |-> 0,
             first |-> "none", wrote |-> {}]

IdleRequest == [pc |-> "idle", status |-> 0, signed |-> FALSE,
                node |-> "none", hash |-> NoHash]

CallPcs == {"idle", "run", "write", "done", "lost"}
\* what a verifier has answered, or the access that it is about to make
EthAnswers == {"none", "todo", "ownerOf", "legacy", "yes", "no", "error"}
DbAnswers == {"none", "todo", "manager", "role", "save", "yes", "no"}
Statuses == {0, 200, 400, 401, 500}
\* the first word of the encoded result, as the middleware slices it
FirstWords == Nodes \cup {"none", "0x", "other"}
RequestPcs == {"idle", "run", "fetch", "save", "answered", "lost"}

CallState ==
  [pc : CallPcs, eth : EthAnswers, db : DbAnswers, hash : Hash,
   members : Members \cup {Nobody}, owner : Accounts \cup {Wrapper, Multisig},
   status : Statuses, first : FirstWords, wrote : SUBSET {"sync", "own"}]

RequestState ==
  [pc : RequestPcs, status : Statuses, signed : BOOLEAN,
   node : Nodes \cup {"none"}, hash : Hash]

Call(r, i) == script[r].calls[i]
CallsOf(r) == 1..Len(script[r].calls)

Now == chain[Len(chain)]

\* Mutant of OnChainOwner: the name wrapper is seen through
WrappedOwner(state, n) == LET h == state.held[n] IN
  IF h.owner = Wrapper /\ h.wrapped # Nobody THEN h.wrapped ELSE h.owner

\* MongoRepository.getOnChainOwner, and the first read of EthereumClient.getOwner
OnChainOwner(state, n) == state.held[n].owner

\* a call of r still has an RPC or a database access under way
Busy(r, i) == \/ call[r][i].pc \in {"run", "write"}
              \/ call[r][i].db \in {"todo", "manager", "role", "save"}
Active(r) == \/ req[r].pc \in {"run", "fetch", "save"}
             \/ \E i \in CallsOf(r) : Busy(r, i)

Init ==
  /\ docs = <<>>
  /\ \E state \in ChainType : chain = <<state>>
  /\ script = [r \in Requests |-> NoScript]
  /\ call = [r \in Requests |-> [i \in Slots |-> IdleCall]]
  /\ req = [r \in Requests |-> IdleRequest]
  /\ faults = 0
  /\ arrived = [r \in Requests |-> 1]
  /\ since = [r \in Requests |-> [i \in Slots |-> {}]]
  /\ contended = [r \in Requests |-> FALSE]

-----------------------------------------------------------------------------
(* Faults and history *)

NoFault == UNCHANGED faults
Fault == faults < MaxFaults /\ faults' = faults + 1

\* the collection becomes new; own is the setText call that wrote, if any
Store(new, own) ==
  /\ docs' = new
  /\ since' = [r \in Requests |-> [i \in Slots |->
       IF <<r, i>> = own THEN {HashOf(FindOne(new, Call(r, i).node))}
       ELSE IF since[r][i] = {} \/ req[r].pc = "answered" THEN since[r][i]
       ELSE since[r][i] \cup {HashOf(FindOne(new, Call(r, i).node))}]]

NoOne == <<>>

Finish(r, i, c, status, first) ==
  call' = [call EXCEPT ![r][i] =
             [c EXCEPT !.pc = "done", !.status = status, !.first = first,
                       !.hash = NoHash, !.owner = Multisig]]

-----------------------------------------------------------------------------
(* A request arrives: Server.handleRequest and Server.call *)

\* Mutant of StartOf: the chain of the signature is not looked at
StartOfAnyChain(s, i) ==
  IF i > Len(s.calls) THEN IdleCall
  ELSE IF s.calls[i].kind \in Verified
       THEN [IdleCall EXCEPT !.pc = "run", !.eth = "todo", !.db = "todo"]
       ELSE [IdleCall EXCEPT !.pc = "run"]

StartOf(s, i) ==
  LET first == IF s.chainOk THEN "todo" ELSE "no" IN
  IF i > Len(s.calls) THEN IdleCall
  ELSE IF s.calls[i].kind \in Verified
       THEN [IdleCall EXCEPT !.pc = "run", !.eth = first, !.db = first]
       ELSE [IdleCall EXCEPT !.pc = "run"]

Arrive(r) ==
  /\ req[r].pc = "idle"
  /\ \E s \in Scripts :
       /\ script' = [script EXCEPT ![r] = s]
       /\ call' = [call EXCEPT ![r] = [i \in Slots |-> StartOf(s, i)]]
  /\ arrived' = [arrived EXCEPT ![r] = Len(chain)]
  /\ req' = [req EXCEPT ![r].pc = "run"]
  /\ contended' = [q \in Requests |->
       \/ contended[q]
       \/ q # r /\ Active(q)
       \/ q = r /\ \E p \in Requests \ {r} : Active(p)]
  /\ UNCHANGED <<store, since>>

-----------------------------------------------------------------------------
(* OwnershipValidator.verifyOwnership: both verifiers run concurrently *)

EthGoes(r, i, answer) == call' = [call EXCEPT ![r][i].eth = answer]
DbGoes(r, i, answer) == call' = [call EXCEPT ![r][i].db = answer]

\* EthereumClient.verifyOwnership: getOwner reads the registry, whose errors
\* nobody catches, and then asks that owner for ownerOf.  Only the wrapper has
\* an answer: the error of any other owner is caught, and leaves the owner as
\* it is
EthOwner(r, i) ==
  /\ call[r][i].eth = "todo"
  /\ LET owner == OnChainOwner(Now, Call(r, i).node) IN
     \/ /\ NoFault
        /\ EthGoes(r, i, IF owner = Wrapper THEN "ownerOf"
                         ELSE IF owner = script[r].account THEN "yes" ELSE "legacy")
     \/ Fault /\ EthGoes(r, i, "error")
  /\ UNCHANGED <<docs, chain, script, req, history>>

EthOwnerOf(r, i) ==
  /\ call[r][i].eth = "ownerOf"
  /\ \/ /\ NoFault
        /\ EthGoes(r, i, IF Now.held[Call(r, i).node].wrapped = script[r].account
                         THEN "yes" ELSE "legacy")
     \/ Fault /\ EthGoes(r, i, "legacy")
  /\ UNCHANGED <<docs, chain, script, req, history>>

\* getLegacyOwner: names registered before the wrapper was introduced
EthLegacyOwner(r, i) ==
  /\ call[r][i].eth = "legacy"
  /\ \/ /\ NoFault
        /\ EthGoes(r, i, IF Now.held[Call(r, i).node].legacy = script[r].account
                         THEN "yes" ELSE "no")
     \/ Fault /\ EthGoes(r, i, "no")
  /\ UNCHANGED <<docs, chain, script, req, history>>

\* MongoRepository.verifyOwnership: the registry owner, or a manager of the
\* multisig that is; every error is caught and answers false, also that of an
\* owner that has no entityMemberManager
DbOwner(r, i) ==
  /\ call[r][i].db = "todo"
  /\ LET owner == OnChainOwner(Now, Call(r, i).node) IN
     \/ /\ NoFault
        /\ DbGoes(r, i, IF owner = script[r].account THEN "save"
                        ELSE IF owner = Multisig THEN "manager" ELSE "no")
     \/ Fault /\ DbGoes(r, i, "no")
  /\ UNCHANGED <<docs, chain, script, req, history>>

\* Mutant of DbManager: the member contract is not asked for again
CachedManager(r, i) ==
  /\ call[r][i].db = "manager"
  /\ call' = [call EXCEPT ![r][i].db = "role",
                          ![r][i].members = chain[1].team.manager]
  /\ NoFault
  /\ UNCHANGED <<docs, chain, script, req, history>>

DbManager(r, i) ==
  /\ call[r][i].db = "manager"
  /\ \/ /\ NoFault
        /\ call' = [call EXCEPT ![r][i].db = "role",
                                ![r][i].members = Now.team.manager]
     \/ Fault /\ DbGoes(r, i, "no")
  /\ UNCHANGED <<docs, chain, script, req, history>>

DbRole(r, i) ==
  /\ call[r][i].db = "role"
  /\ \/ /\ NoFault
        /\ DbGoes(r, i, IF script[r].account \in Now.team.roles[call[r][i].members]
                        THEN "yes" ELSE "no")
     \/ Fault /\ DbGoes(r, i, "no")
  /\ UNCHANGED <<docs, chain, script, req, history>>

\* the registry owner is written to the record, which is inserted if missing;
\* a refused insert is an error like any other
SyncOwner(r, i) ==
  /\ call[r][i].db = "save"
  /\ LET n == Call(r, i).node
         a == script[r].account
         fits == Exists(docs, n) \/ Accepts(docs, Stub(n, a))
         new == IF Exists(docs, n) THEN UpdateField(docs, n, "owner", a)
                ELSE Append(docs, Stub(n, a))
         saved == [call[r][i] EXCEPT !.wrote = @ \cup {"sync"}] IN
     \/ /\ fits /\ Store(new, NoOne)
        /\ \/ NoFault /\ call' = [call EXCEPT ![r][i] = [saved EXCEPT !.db = "yes"]]
           \/ Fault /\ call' = [call EXCEPT ![r][i] = [saved EXCEPT !.db = "no"]]
     \/ /\ (~ fits /\ NoFault) \/ Fault
        /\ call' = [call EXCEPT ![r][i].db = "no"]
        /\ UNCHANGED <<docs, since>>
  /\ UNCHANGED <<chain, script, req, arrived, contended>>

\* Mutant of VerifyFailed: an error is swallowed
NeverFails(c) == c.eth = "error" /\ c.db = "error"

\* Promise.all: fails with the first error, otherwise waits for both answers
VerifyFailed(c) == c.eth = "error"
Settled(c) == c.eth \in {"yes", "no"} /\ c.db \in {"yes", "no"}
Authorized(c) == Settled(c) /\ "yes" \in {c.eth, c.db}

Running(r, i, kind) ==
  call[r][i].pc = "run" /\ i \in CallsOf(r) /\ Call(r, i).kind = kind

Writing(r, i, kind) ==
  call[r][i].pc = "write" /\ i \in CallsOf(r) /\ Call(r, i).kind = kind

Reject(r, i) ==
  /\ call[r][i].pc = "run" /\ i \in CallsOf(r) /\ Call(r, i).kind \in Verified
  /\ LET c == call[r][i] IN
     \/ VerifyFailed(c) /\ Finish(r, i, c, 400, "other")
     \/ Settled(c) /\ ~ Authorized(c) /\ Finish(r, i, c, 401, "other")
     \/ /\ Authorized(c) /\ Call(r, i).kind = "setText"
        /\ Call(r, i).field \in Reserved
        /\ Finish(r, i, c, 400, "other")
  /\ UNCHANGED <<store, script, req, history>>

-----------------------------------------------------------------------------
(* setText: fetchAndPrepareRecord, then findOneAndUpdate *)

ReadRecord(r, i) ==
  /\ Running(r, i, "setText") /\ Authorized(call[r][i])
  /\ Call(r, i).field \notin Reserved
  /\ LET c == Call(r, i) IN
     \/ /\ Exists(docs, c.node) /\ NoFault
        /\ call' = [call EXCEPT ![r][i].pc = "write",
             ![r][i].hash = HashWith(FindOne(docs, c.node), c.field, c.value)]
     \/ /\ (~ Exists(docs, c.node) /\ NoFault) \/ Fault
        /\ Finish(r, i, call[r][i], 400, "other")
  /\ UNCHANGED <<docs, chain, script, req, history>>

\* Mutant of WriteText: the record that was read is saved back as a whole
WriteBackRecord(r, i) ==
  /\ Writing(r, i, "setText")
  /\ LET c == Call(r, i)
         old == FindOne(docs, c.node)
         new == [docs EXCEPT ![First(docs, c.node)] =
                   [old EXCEPT !.fields = call[r][i].hash.fields,
                               !.hash = call[r][i].hash]]
         wrote == [call[r][i] EXCEPT !.wrote = @ \cup {"own"}] IN
     /\ Store(new, <<r, i>>) /\ NoFault /\ Finish(r, i, wrote, 200, c.node)
  /\ UNCHANGED <<chain, script, req, arrived, contended>>

WriteText(r, i) ==
  /\ Writing(r, i, "setText")
  /\ LET c == Call(r, i)
         new == UpdateHash(UpdateField(docs, c.node, c.field, c.value),
                           c.node, call[r][i].hash)
         wrote == [call[r][i] EXCEPT !.wrote = @ \cup {"own"}] IN
     \/ /\ Store(new, <<r, i>>)
        /\ \/ NoFault /\ Finish(r, i, wrote, 200, c.node)
           \/ Fault /\ Finish(r, i, wrote, 400, "other")
     \/ /\ Fault /\ Finish(r, i, call[r][i], 400, "other")
        /\ UNCHANGED <<docs, since>>
  /\ UNCHANGED <<chain, script, req, arrived, contended>>

-----------------------------------------------------------------------------
(* The other writes.  findOneAndUpdate of a missing record changes nothing *)
(* and answers null, which these handlers do not look at.                  *)

SetField(r, i, c, n, f, v) ==
  LET found == Exists(docs, n)
      wrote == [c EXCEPT !.wrote = @ \cup (IF found THEN {"own"} ELSE {})] IN
  \/ /\ IF found THEN Store(UpdateField(docs, n, f, v), NoOne)
                 ELSE UNCHANGED <<docs, since>>
     /\ \/ NoFault /\ Finish(r, i, wrote, 200, "0x")
        \/ Fault /\ Finish(r, i, wrote, 400, "other")
  \/ Fault /\ Finish(r, i, c, 400, "other") /\ UNCHANGED <<docs, since>>

\* setAddr and setContentHash
WriteField(r, i) ==
  /\ Running(r, i, "setField") /\ Authorized(call[r][i])
  /\ LET c == Call(r, i) IN SetField(r, i, call[r][i], c.node, c.field, c.value)
  /\ UNCHANGED <<chain, script, req, arrived, contended>>

\* Mutant of ReadOwner: the object that was read, not the address in it
ReadHolder(r, i) ==
  /\ Running(r, i, "transfer") /\ Authorized(call[r][i])
  /\ NoFault
  /\ call' = [call EXCEPT ![r][i].pc = "write",
                          ![r][i].owner = Now.held[Call(r, i).node]]
  /\ UNCHANGED <<docs, chain, script, req, history>>

\* transfer reads the registry and ignores the owner it was asked for
ReadOwner(r, i) ==
  /\ Running(r, i, "transfer") /\ Authorized(call[r][i])
  /\ \/ /\ NoFault
        /\ call' = [call EXCEPT ![r][i].pc = "write",
                                ![r][i].owner = OnChainOwner(Now, Call(r, i).node)]
     \/ Fault /\ Finish(r, i, call[r][i], 400, "other")
  /\ UNCHANGED <<docs, chain, script, req, history>>

WriteOwner(r, i) ==
  /\ Writing(r, i, "transfer")
  /\ SetField(r, i, call[r][i], Call(r, i).node, "owner", call[r][i].owner)
  /\ UNCHANGED <<chain, script, req, arrived, contended>>

\* setABI and setPubkey check the signer and store nothing
SetNothing(r, i) ==
  /\ Running(r, i, "setNothing") /\ Authorized(call[r][i])
  /\ Finish(r, i, call[r][i], 200, "0x")
  /\ UNCHANGED <<store, script, req, history>>

-----------------------------------------------------------------------------
(* register: generateLEI, then create, which a unique index may refuse *)

ReadLEI(r, i) ==
  /\ Running(r, i, "register")
  /\ \/ NoFault /\ call' = [call EXCEPT ![r][i].pc = "write"]
     \/ Fault /\ Finish(r, i, call[r][i], 400, "other")
  /\ UNCHANGED <<docs, chain, script, req, history>>

CreateEntity(r, i) ==
  /\ Writing(r, i, "register")
  /\ LET c == Call(r, i)
         entity == Entity(c.node, c.field, c.value)
         wrote == [call[r][i] EXCEPT !.wrote = @ \cup {"own"}] IN
     \/ /\ Accepts(docs, entity) /\ Store(Append(docs, entity), NoOne)
        /\ \/ NoFault /\ Finish(r, i, wrote, 200, "other")
           \/ Fault /\ Finish(r, i, wrote, 400, "other")
     \/ /\ (~ Accepts(docs, entity) /\ NoFault) \/ Fault
        /\ Finish(r, i, call[r][i], 400, "other")
        /\ UNCHANGED <<docs, since>>
  /\ UNCHANGED <<chain, script, req, arrived, contended>>

-----------------------------------------------------------------------------
(* Reads.  getAddr answers {value: undefined} when there is no address and *)
(* getContentHash answers a string where its handler expects an object:    *)
(* encoding throws, which Server turns into a 500.                         *)

Read(r, i) ==
  /\ \E kind \in Reads : Running(r, i, kind)
  /\ LET c == Call(r, i)
         has == /\ Exists(docs, c.node)
                /\ FindOne(docs, c.node).fields[c.field] # Absent
         done(status, first) == Finish(r, i, call[r][i], status, first) IN
     \/ /\ NoFault
        /\ \/ c.kind = "text" /\ done(200, IF has THEN "other" ELSE "0x")
           \/ c.kind = "addr" /\ has /\ done(200, "other")
           \/ c.kind = "addr" /\ ~ has /\ done(500, "other")
           \/ c.kind = "contenthash" /\ has /\ done(500, "other")
           \/ c.kind = "contenthash" /\ ~ has /\ done(200, "0x")
     \/ Fault /\ done(500, "other")
  /\ UNCHANGED <<docs, chain, script, req, history>>

-----------------------------------------------------------------------------
(* The answer: Server.call, the multicall handler and withSigner *)

Answer(r, status) == req' = [req EXCEPT ![r].pc = "answered", ![r].status = status]

\* The middleware skips errors and leaves an empty result unsigned.  A
\* multicall always has data: failed calls are encoded into its results.
Respond(r) ==
  /\ req[r].pc = "run"
  /\ \A i \in CallsOf(r) : call[r][i].pc = "done"
  /\ LET c == call[r][1] IN
     IF script[r].multi \/ (c.status = 200 /\ c.first # "0x")
     THEN req' = [req EXCEPT ![r].pc = "fetch"]
     ELSE Answer(r, c.status)
  /\ UNCHANGED <<store, script, call, history>>

\* Mutant of SignedNode: the node the last call names, whatever its result
LastCallNode(r) ==
  IF \E i \in CallsOf(r) : Call(r, i).kind = "setText"
  THEN Call(r, Len(script[r].calls)).node ELSE "0x"

\* The node the middleware re-reads: the first word of the result of setText,
\* or of the last result of a multicall that has a setText; otherwise '0x',
\* which is the nodeHash of no record.
SignedNode(r) ==
  LET last == Len(script[r].calls) IN
  IF \E i \in CallsOf(r) : Call(r, i).kind = "setText"
  THEN call[r][last].first ELSE "0x"

\* Mutant of SignFetch: the stored hash is taken for the hash of the record
SignStoredHash(r) ==
  /\ req[r].pc = "fetch"
  /\ LET n == SignedNode(r) IN
     IF Exists(docs, n)
     THEN req' = [req EXCEPT ![r].pc = "save", ![r].node = n,
                             ![r].hash = FindOne(docs, n).hash]
     ELSE Answer(r, 500)
  /\ UNCHANGED <<store, script, call, history>>

SignFetch(r) ==
  /\ req[r].pc = "fetch"
  /\ LET n == SignedNode(r) IN
     \/ /\ Exists(docs, n) /\ NoFault
        /\ req' = [req EXCEPT ![r].pc = "save", ![r].node = n,
                              ![r].hash = HashOf(FindOne(docs, n))]
     \/ /\ (~ Exists(docs, n) /\ NoFault) \/ Fault
        /\ Answer(r, 500)
  /\ UNCHANGED <<docs, chain, script, call, history>>

\* Mutant of SignSave: the hash is signed but not stored
SignWithoutSave(r) ==
  /\ req[r].pc = "save"
  /\ req' = [req EXCEPT ![r].pc = "answered", ![r].status = 200, ![r].signed = TRUE]
  /\ UNCHANGED <<store, script, call, history>>

SignSave(r) ==
  /\ req[r].pc = "save"
  /\ LET new == UpdateHash(docs, req[r].node, req[r].hash) IN
     \/ /\ docs' = new
        /\ \/ /\ NoFault
              /\ req' = [req EXCEPT ![r].pc = "answered", ![r].status = 200,
                                    ![r].signed = TRUE]
           \/ Fault /\ Answer(r, 500)
     \/ docs' = docs /\ Fault /\ Answer(r, 500)
  /\ UNCHANGED <<chain, script, call, history>>

-----------------------------------------------------------------------------
(* The environment *)

\* the process ends: what is in flight is never answered
Crash ==
  /\ \E r \in Requests : Active(r)
  /\ Fault
  /\ req' = [r \in Requests |->
       IF req[r].pc \in {"run", "fetch", "save"}
       THEN [req[r] EXCEPT !.pc = "lost"] ELSE req[r]]
  /\ call' = [r \in Requests |-> [i \in Slots |->
       IF call[r][i].pc = "idle" THEN call[r][i]
       ELSE [call[r][i] EXCEPT !.pc = "lost", !.eth = "none", !.db = "none"]]]
  /\ UNCHANGED <<docs, chain, script, history>>

\* the contracts on chain change: a node changes hands, or the multisig its
\* member contract or the roles that it gives
Becomes(state) ==
  /\ Len(chain) <= MaxMoves
  /\ chain' = Append(chain, state)
  /\ UNCHANGED <<docs, faults, script, call, req, history>>

Move(n) ==
  \E held \in Holders \ {Now.held[n]} : Becomes([Now EXCEPT !.held[n] = held])

Regroup ==
  \E team \in Teams \ {Now.team} : Becomes([Now EXCEPT !.team = team])

CallStep(r, i) ==
  \/ EthOwner(r, i) \/ EthOwnerOf(r, i) \/ EthLegacyOwner(r, i)
  \/ DbOwner(r, i) \/ DbManager(r, i) \/ DbRole(r, i) \/ SyncOwner(r, i)
  \/ Reject(r, i)
  \/ ReadRecord(r, i) \/ WriteText(r, i) \/ WriteField(r, i)
  \/ ReadOwner(r, i) \/ WriteOwner(r, i) \/ SetNothing(r, i)
  \/ ReadLEI(r, i) \/ CreateEntity(r, i) \/ Read(r, i)

RequestStep(r) == Respond(r) \/ SignFetch(r) \/ SignSave(r)

Next ==
  \/ \E r \in Requests : Arrive(r) \/ RequestStep(r)
  \/ \E r \in Requests, i \in Slots : CallStep(r, i)
  \/ \E n \in Nodes : Move(n)
  \/ Regroup
  \/ Crash

Spec == Init /\ [][Next]_vars

(***************************************************************************)
(* Node.js runs every continuation whose database or RPC call has settled, *)
(* and each such call settles: with its result, or with an error.  Nothing *)
(* makes clients send requests, nodes change hands or the process crash.   *)
(***************************************************************************)
Fairness ==
  /\ \A r \in Requests : WF_vars(RequestStep(r))
  /\ \A r \in Requests, i \in Slots : WF_vars(CallStep(r, i))

FairSpec == Spec /\ Fairness

-----------------------------------------------------------------------------
(* Properties *)

TypeOK ==
  /\ docs \in Seq(Document)
  /\ chain \in Seq(ChainType) /\ Len(chain) \in 1..(MaxMoves + 1)
  /\ script \in [Requests -> Scripts \cup {NoScript}]
  /\ call \in [Requests -> [Slots -> CallState]]
  /\ req \in [Requests -> RequestState]
  /\ faults \in 0..MaxFaults
  /\ arrived \in [Requests -> 1..Len(chain)]
  /\ since \in [Requests -> [Slots -> SUBSET Hash]]
  /\ contended \in [Requests -> BOOLEAN]

\* The signer of a call was entitled to it: the contracts on chain named him as
\* holder of the node at an instant since the request arrived - the registry,
\* the registrar, the wrapper after the registry had named the wrapper, or the
\* member contract that the multisig had named after the registry had named the
\* multisig.  The instants of a chain of reads come in the order of the reads,
\* but need not be one.
Entitled(r, i) ==
  LET account == script[r].account
      held(k) == chain[k].held[Call(r, i).node] IN
  /\ script[r].chainOk
  /\ \E k \in arrived[r]..Len(chain) :
       \/ account \in {held(k).owner, held(k).legacy}
       \/ /\ held(k).owner = Wrapper
          /\ \E l \in k..Len(chain) : held(l).wrapped = account
       \/ /\ held(k).owner = Multisig
          /\ \E l \in k..Len(chain) : \E m \in l..Len(chain) :
               account \in chain[m].team.roles[chain[l].team.manager]

\* A checked write, including the owner that the check itself stores, is made
\* only for a signer who was entitled to it, whatever changes on chain between
\* the six reads of the two verifiers (OwnershipValidator.verifyOwnership,
\* services/ownership.ts:31; ethereumClient.ts:27, 38, 58; mongo.ts:98, 128, 149).
WritesWereEntitled ==
  [][\A r \in Requests, i \in Slots :
       (call'[r][i].wrote # call[r][i].wrote /\ Call(r, i).kind \in Verified)
         => Entitled(r, i)]_vars

\* However registrations and ownership checks of a node interleave, it has at
\* most one registered document and at most one stub, and the stub is the
\* older one (mongo.ts:101 upserts, mongo.ts:239 creates, LEI is unique).
StubPrecedesRegistration ==
  \A i, j \in 1..Len(docs) :
    (i < j /\ docs[i].node = docs[j].node)
      => ~ docs[i].registered /\ docs[j].registered

\* A signed answer to setText or multicall is about the node its last call
\* wrote, and the hash in it is that of a version of the record that had all
\* the texts this request wrote to the node (middlewares/signer.ts:42-75).
SignedHashCoversOwnWrites ==
  \A r \in Requests : req[r].signed =>
    LET last == Len(script[r].calls) IN
    /\ "own" \in call[r][last].wrote /\ Call(r, last).node = req[r].node
    /\ \A i \in CallsOf(r) :
         /\ Call(r, i).kind = "setText" /\ Call(r, i).node = req[r].node
         /\ "own" \in call[r][i].wrote
         => req[r].hash \in since[r][i]

\* As long as no call names the field "owner" itself, the stored owner is one
\* the registry has really had for the node, neither a holder behind a contract
\* nor, even after a transfer, the owner a request asked for (mongo.ts:101-105
\* and transfer, mongo.ts:321-330; see TransferIsObeyed).
NamesNoOwner(s) ==
  \A i \in 1..Len(s.calls) :
    s.calls[i].kind \in {"setText", "setField", "register"}
      => s.calls[i].field # "owner"

OwnerComesFromChain ==
  (\A s \in Scripts : NamesNoOwner(s)) =>
    \A i \in 1..Len(docs) :
      docs[i].fields["owner"] \in
        {Absent} \cup {chain[k].held[docs[i].node].owner : k \in 1..Len(chain)}

\* A request that overlapped no other leaves, when it is answered with a
\* signature, the record's stored hash equal to the hash of the record and to
\* the signed one (signer.ts:35-40, "hash the entire new record"), unless the
\* check of one of its calls failed with an error: Promise.all then answers
\* that call while its other verifier may still store the owner.
UncontendedHashIsCurrent ==
  [][\A r \in Requests :
       LET n == req'[r].node IN
       (req'[r].signed /\ ~ req[r].signed /\ ~ contended[r]
          /\ \A i \in CallsOf(r) : call[r][i].eth # "error")
       => /\ FindOne(docs', n).hash = HashOf(FindOne(docs', n))
          /\ req'[r].hash = FindOne(docs', n).hash]_vars

\* Every request that arrives is answered, unless the process ends first.
EveryRequestEnds ==
  \A r \in Requests :
    req[r].pc = "run" ~> req[r].pc \in {"answered", "lost"}

-----------------------------------------------------------------------------
(* What the gateway promises about records, see RecordStore *)

ShownRecord == [n \in Nodes |->
  IF Exists(docs, n) THEN FindOne(docs, n).fields ELSE Absent]

CallIds == Requests \X Slots

AnyCall == CHOOSE c \in CallType : TRUE

Wanted == [c \in CallIds |->
  IF c[2] \in CallsOf(c[1]) THEN Call(c[1], c[2]) ELSE AnyCall]

Stage == [c \in CallIds |->
  CASE call[c[1]][c[2]].pc = "idle" -> "idle"
    [] call[c[1]][c[2]].pc \in {"run", "write"} -> "open"
    [] OTHER -> "over"]

Records == INSTANCE RecordStore WITH
  NoRecord <- Absent, Calls <- CallIds, Want <- CallType,
  record <- ShownRecord, want <- Wanted, stage <- Stage

\* Every call takes effect at most once, atomically, between its arrival and
\* its end, and on its own field only, although setText reads the record and
\* writes it in two database calls (mongo.ts:248-272): no write is lost to
\* another, none is repeated, none comes after the answer.
ImplementsRecordStore == Records!Spec

-----------------------------------------------------------------------------
(* Statements of the documentation that the code does not keep *)

\* At rest, the stored hash of every record is the hash of the record
\* (signer.ts:36, "should be done here to hash the entire new record").
ConstitutionHashIsCurrent ==
  (\A r \in Requests : ~ Active(r)) =>
    \A i \in 1..Len(docs) :
      docs[i].hash # NoHash => docs[i].hash = HashOf(docs[i])

\* The signer of a checked write controlled the node at one instant since the
\* request arrived, through whatever contract (DatabaseResolver.sol:267, "May
\* only be called by the owner of that node in the ENS registry").
Controlled(state, a, n) ==
  LET h == state.held[n] IN
  \/ a \in {h.owner, h.legacy}
  \/ h.owner = Wrapper /\ h.wrapped = a
  \/ h.owner = Multisig /\ a \in state.team.roles[state.team.manager]

WriterControlledNode ==
  [][\A r \in Requests, i \in Slots :
       (call'[r][i].wrote # call[r][i].wrote /\ Call(r, i).kind \in Verified)
         => \E k \in arrived[r]..Len(chain) :
              Controlled(chain[k], script[r].account, Call(r, i).node)]_vars

\* A transfer that is carried out stores the owner it names
\* (DatabaseResolver.sol:146-150, "Transfer a domain to a new owner").
TransferIsObeyed ==
  [][\A r \in Requests, i \in Slots :
       ("own" \in call'[r][i].wrote \ call[r][i].wrote
          /\ Call(r, i).kind = "transfer")
         => FindOne(docs', Call(r, i).node).fields["owner"] = Call(r, i).value]_vars

=============================================================================
