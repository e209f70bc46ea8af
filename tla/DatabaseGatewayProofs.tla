------------------------- MODULE DatabaseGatewayProofs -------------------------
(***************************************************************************)
(* Invariants of DatabaseGateway for every set of nodes, requests and      *)
(* scripts and every bound.  Each follows from an inductive invariant that *)
(* adds to TypeOK what is known of a call while it is under way.  Last,    *)
(* that the gateway implements RecordStore.                                *)
(***************************************************************************)
EXTENDS DatabaseGateway, EntityRecordsProofs

\* What has not started is idle, and so are the slots without a call.
IdleOutsideCalls ==
  \A r \in Requests, i \in Slots :
    (req[r].pc = "idle" \/ i \notin CallsOf(r))
      => call[r][i] = IdleCall /\ since[r][i] = {}

\* A record that was read or written is still there: documents are not removed.
RecordsStay ==
  /\ \A r \in Requests, i \in Slots :
       (call[r][i].pc = "write" /\ Call(r, i).kind = "setText") \/ since[r][i] # {}
         => Exists(docs, Call(r, i).node)
  /\ \A r \in Requests : req[r].pc = "save" => Exists(docs, req[r].node)

TypeInv == TypeOK /\ IdleOutsideCalls /\ RecordsStay

-----------------------------------------------------------------------------
(* Facts about calls and scripts *)

\* The members of the enumerations.
LEMMA Enumerated ==
  /\ \A pc \in {"idle", "run", "write", "done", "lost"} : pc \in CallPcs
  /\ \A a \in {"none", "todo", "ownerOf", "legacy", "yes", "no", "error"} :
       a \in EthAnswers
  /\ \A a \in {"none", "todo", "manager", "role", "save", "yes", "no"} :
       a \in DbAnswers
  /\ \A s \in {0, 200, 400, 401, 500} : s \in Statuses
  /\ \A w \in {"none", "0x", "other"} : w \in FirstWords
  /\ \A n \in Nodes : n \in FirstWords
  /\ \A pc \in {"idle", "run", "fetch", "save", "answered", "lost"} : pc \in RequestPcs
BY DEF CallPcs, EthAnswers, DbAnswers, Statuses, FirstWords, RequestPcs

LEMMA InitialTypes ==
  /\ NoHash \in Hash
  /\ IdleCall \in CallState
  /\ IdleRequest \in RequestState
  /\ NoScript.calls = <<>>
  /\ Nobody \in Members \cup {Nobody} /\ Multisig \in Accounts \cup {Wrapper, Multisig}
<1>1. NoHash \in Hash
  BY DEF NoHash, Hash, Content
<1> QED BY <1>1, Enumerated DEF IdleCall, IdleRequest, CallState, RequestState, NoScript

\* A call of a request that is not idle is one of its script.
LEMMA CallTypes ==
  ASSUME TypeInv, NEW r \in Requests, NEW i \in Slots, call[r][i] # IdleCall
  PROVE  /\ i \in CallsOf(r) /\ req[r].pc # "idle"
         /\ script[r] \in Scripts /\ script[r].account \in Accounts
         /\ Call(r, i) \in CallType
<1>1. i \in CallsOf(r) /\ req[r].pc # "idle"
  BY DEF TypeInv, IdleOutsideCalls
<1>2. script[r] \in Scripts
  BY <1>1, InitialTypes DEF TypeInv, TypeOK, CallsOf
<1>3. script[r].account \in Accounts /\ script[r].calls \in Seq(CallType)
  BY <1>2, GatewayAssumption DEF ScriptType
<1>4. Call(r, i) \in CallType
  BY <1>1, <1>3 DEF Call, CallsOf
<1> QED BY <1>1, <1>2, <1>3, <1>4

\* A step of a call changes that call alone, ...
OneCall(r, i) ==
  /\ \E c \in CallState :
       /\ call' = [call EXCEPT ![r][i] = c]
       /\ c.pc = "write" /\ Call(r, i).kind = "setText"
            => Exists(docs, Call(r, i).node)
  /\ UNCHANGED <<chain, script, req, arrived, contended>>
  /\ faults' \in 0..MaxFaults

\* ... and stores a collection that keeps the records, if it stores one.
StoresRecords(r, i) ==
  \/ UNCHANGED <<docs, since>>
  \/ \E new \in Seq(Document) :
       /\ Keeps(docs, new)
       /\ \/ Store(new, NoOne)
          \/ Store(new, <<r, i>>) /\ Exists(docs, Call(r, i).node)

\* A call that ends keeps its types.
LEMMA FinishShape ==
  ASSUME NEW r \in Requests, NEW i \in Slots, NEW c \in CallState,
         NEW status \in {0, 200, 400, 401, 500},
         NEW first \in Nodes \cup {"none", "0x", "other"},
         Finish(r, i, c, status, first)
  PROVE  \E d \in CallState : d.pc = "done" /\ call' = [call EXCEPT ![r][i] = d]
<1> DEFINE d == [c EXCEPT !.pc = "done", !.status = status, !.first = first,
                          !.hash = NoHash, !.owner = Multisig]
<1>1. /\ NoHash \in Hash /\ "done" \in CallPcs
      /\ status \in Statuses /\ first \in FirstWords
  BY InitialTypes DEF CallPcs, Statuses, FirstWords
<1>2. d \in CallState /\ d.pc = "done"
  BY <1>1 DEF CallState
<1>3. call' = [call EXCEPT ![r][i] = d]
  BY DEF Finish
<1> QED BY <1>2, <1>3

\* What the contracts say at present, or said at any earlier instant.
LEMMA ChainTypes ==
  ASSUME TypeOK
  PROVE  /\ Len(chain) \in Nat \ {0}
         /\ \A k \in 1..Len(chain) : chain[k] \in ChainType
BY DEF TypeOK

LEMMA OwnerTypes ==
  ASSUME NEW state \in ChainType, NEW n \in Nodes
  PROVE  OnChainOwner(state, n) \in Accounts \cup {Wrapper, Multisig}
<1>1. state.held[n] \in HolderType
  BY GatewayAssumption DEF ChainType
<1> QED BY <1>1 DEF OnChainOwner, HolderType

LEMMA NowTypes ==
  ASSUME TypeInv
  PROVE  /\ Now \in ChainType /\ Now = chain[Len(chain)] /\ Now.team \in TeamType
         /\ \A n \in Nodes : OnChainOwner(Now, n) \in Accounts \cup {Wrapper, Multisig}
<1>1. Now \in ChainType /\ Now = chain[Len(chain)]
  BY ChainTypes DEF TypeInv, Now
<1>2. Now.team \in TeamType
  BY <1>1, GatewayAssumption DEF ChainType
<1> QED BY <1>1, <1>2, OwnerTypes

\* The bound on faults holds after a step that counts one or none.
LEMMA FaultTypes ==
  ASSUME faults \in 0..MaxFaults, NoFault \/ Fault
  PROVE  faults' \in 0..MaxFaults
BY GatewayAssumption DEF NoFault, Fault

-----------------------------------------------------------------------------
(* Every step of a call has this shape *)

VerifierStep(r, i) ==
  \/ EthOwner(r, i) \/ EthOwnerOf(r, i) \/ EthLegacyOwner(r, i)
  \/ DbOwner(r, i) \/ DbManager(r, i) \/ DbRole(r, i)

\* A read of a verifier changes nothing but the answers of its call.
LEMMA VerifierShape ==
  ASSUME TypeInv, NEW r \in Requests, NEW i \in Slots, VerifierStep(r, i)
  PROVE  /\ \E d \in CallState :
              /\ call' = [call EXCEPT ![r][i] = d]
              /\ d.pc = call[r][i].pc /\ d.wrote = call[r][i].wrote
              /\ d.first = call[r][i].first /\ d.owner = call[r][i].owner
         /\ UNCHANGED <<docs, chain, script, req, history>>
         /\ faults' \in 0..MaxFaults
<1> DEFINE c == call[r][i]
           goes(e, b, m) == [c EXCEPT !.eth = e, !.db = b, !.members = m]
<1>1. /\ c \in CallState /\ faults \in 0..MaxFaults
      /\ call \in [Requests -> [Slots -> CallState]]
  BY DEF TypeInv, TypeOK
<1>2. ASSUME NEW e \in EthAnswers, NEW b \in DbAnswers, NEW m \in Members \cup {Nobody}
      PROVE  /\ goes(e, b, m) \in CallState
             /\ goes(e, b, m).pc = c.pc /\ goes(e, b, m).wrote = c.wrote
             /\ goes(e, b, m).first = c.first /\ goes(e, b, m).owner = c.owner
  BY <1>1 DEF CallState
<1>3. /\ c.eth \in EthAnswers /\ c.db \in DbAnswers
      /\ c.members \in Members \cup {Nobody}
      /\ Now.team.manager \in Members
  BY <1>1, NowTypes DEF CallState, TeamType
<1>4. ASSUME NEW e \in EthAnswers, EthGoes(r, i, e)
      PROVE  call' = [call EXCEPT ![r][i] = goes(e, c.db, c.members)]
  <2>1. [c EXCEPT !.eth = e] = goes(e, c.db, c.members)
    BY <1>1 DEF CallState
  <2> QED BY <1>4, <2>1 DEF EthGoes
<1>5. ASSUME NEW b \in DbAnswers, DbGoes(r, i, b)
      PROVE  call' = [call EXCEPT ![r][i] = goes(c.eth, b, c.members)]
  <2>1. [c EXCEPT !.db = b] = goes(c.eth, b, c.members)
    BY <1>1 DEF CallState
  <2> QED BY <1>5, <2>1 DEF DbGoes
<1>6. ASSUME NEW m, call' = [call EXCEPT ![r][i].db = "role", ![r][i].members = m]
      PROVE  call' = [call EXCEPT ![r][i] = goes(c.eth, "role", m)]
  <2>1. [[c EXCEPT !.db = "role"] EXCEPT !.members = m] = goes(c.eth, "role", m)
    BY <1>1 DEF CallState
  <2>2. call' = [call EXCEPT ![r][i] = [[c EXCEPT !.db = "role"] EXCEPT !.members = m]]
    BY <1>1, <1>6
  <2> QED BY <2>1, <2>2
<1> HIDE DEF goes
<1>7. \/ \E e \in {"ownerOf", "legacy", "yes", "no", "error"} : EthGoes(r, i, e)
      \/ \E b \in {"manager", "save", "yes", "no"} : DbGoes(r, i, b)
      \/ call' = [call EXCEPT ![r][i].db = "role", ![r][i].members = Now.team.manager]
  BY DEF VerifierStep, EthOwner, EthOwnerOf, EthLegacyOwner, DbOwner, DbManager, DbRole
<1>8. \E e \in EthAnswers, b \in DbAnswers, m \in Members \cup {Nobody} :
        call' = [call EXCEPT ![r][i] = goes(e, b, m)]
  <2>1. ASSUME NEW e \in {"ownerOf", "legacy", "yes", "no", "error"}, EthGoes(r, i, e)
        PROVE  \E b \in DbAnswers, m \in Members \cup {Nobody} :
                 call' = [call EXCEPT ![r][i] = goes(e, b, m)]
    <3>1. e \in EthAnswers
      BY Enumerated
    <3> QED BY <1>3, <1>4, <2>1, <3>1
  <2>2. ASSUME NEW b \in {"manager", "save", "yes", "no"}, DbGoes(r, i, b)
        PROVE  call' = [call EXCEPT ![r][i] = goes(c.eth, b, c.members)]
    <3>1. b \in DbAnswers
      BY Enumerated
    <3> QED BY <1>5, <2>2, <3>1
  <2> QED BY <1>3, <1>6, <1>7, <2>1, <2>2, Enumerated
<1>9. UNCHANGED <<docs, chain, script, req, history>>
  BY DEF VerifierStep, EthOwner, EthOwnerOf, EthLegacyOwner, DbOwner, DbManager, DbRole
<1>10. NoFault \/ Fault
  BY DEF VerifierStep, EthOwner, EthOwnerOf, EthLegacyOwner, DbOwner, DbManager, DbRole
<1>11. \E d \in CallState :
         /\ call' = [call EXCEPT ![r][i] = d]
         /\ d.pc = c.pc /\ d.wrote = c.wrote /\ d.first = c.first /\ d.owner = c.owner
  BY <1>2, <1>8
<1>12. faults' \in 0..MaxFaults
  BY <1>1, <1>10, FaultTypes
<1> QED BY <1>9, <1>11, <1>12

LEMMA VerifierStepShape ==
  ASSUME TypeInv, NEW r \in Requests, NEW i \in Slots, VerifierStep(r, i)
  PROVE  OneCall(r, i) /\ StoresRecords(r, i)
BY VerifierShape DEF OneCall, StoresRecords, history, TypeInv, RecordsStay

LEMMA SyncOwnerShape ==
  ASSUME TypeInv, NEW r \in Requests, NEW i \in Slots, SyncOwner(r, i)
  PROVE  OneCall(r, i) /\ StoresRecords(r, i)
<1> DEFINE n == Call(r, i).node
           a == script[r].account
           fits == Exists(docs, n) \/ Accepts(docs, Stub(n, a))
           new == IF Exists(docs, n) THEN UpdateField(docs, n, "owner", a)
                  ELSE Append(docs, Stub(n, a))
           saved == [call[r][i] EXCEPT !.wrote = @ \cup {"sync"}]
<1>1. /\ call[r][i] \in CallState /\ faults \in 0..MaxFaults
      /\ docs \in Seq(Document)
  BY DEF TypeInv, TypeOK
<1>2. n \in Nodes /\ a \in Values /\ "owner" \in Fields
  <2>1. call[r][i] # IdleCall
    BY DEF SyncOwner, IdleCall
  <2> QED BY <2>1, CallTypes, GatewayAssumption, RecordAssumption DEF CallType
<1>3. new \in Seq(Document) /\ Keeps(docs, new)
  BY <1>1, <1>2, UpdatesKeep, InsertedTypes
<1>4. /\ \/ Store(new, NoOne) \/ UNCHANGED <<docs, since>>
      /\ \/ NoFault \/ Fault
      /\ \E b \in {"yes", "no"} :
           \/ call' = [call EXCEPT ![r][i] = [saved EXCEPT !.db = b]]
           \/ call' = [call EXCEPT ![r][i] = [call[r][i] EXCEPT !.db = b]]
  BY DEF SyncOwner
<1>5. PICK b \in {"yes", "no"} :
           \/ call' = [call EXCEPT ![r][i] = [saved EXCEPT !.db = b]]
           \/ call' = [call EXCEPT ![r][i] = [call[r][i] EXCEPT !.db = b]]
  BY <1>4
<1>6. b \in DbAnswers
  BY DEF DbAnswers
<1>7. saved \in CallState /\ saved.pc = call[r][i].pc
  BY <1>1 DEF CallState
<1>8. \A c \in CallState : /\ [c EXCEPT !.db = b] \in CallState
                           /\ [c EXCEPT !.db = b].pc = c.pc
  BY <1>6 DEF CallState
<1>9. faults' \in 0..MaxFaults
  BY <1>1, <1>4, FaultTypes
<1>10. UNCHANGED <<chain, script, req, arrived, contended>>
  BY DEF SyncOwner
<1>11. OneCall(r, i)
  BY <1>1, <1>5, <1>7, <1>8, <1>9, <1>10 DEF OneCall, TypeInv, RecordsStay
<1>12. StoresRecords(r, i)
  BY <1>3, <1>4 DEF StoresRecords
<1> QED BY <1>11, <1>12

LEMMA RejectShape ==
  ASSUME TypeInv, NEW r \in Requests, NEW i \in Slots, Reject(r, i)
  PROVE  OneCall(r, i) /\ StoresRecords(r, i)
<1>1. call[r][i] \in CallState /\ faults \in 0..MaxFaults
  BY DEF TypeInv, TypeOK
<1>2. PICK s \in {400, 401} : Finish(r, i, call[r][i], s, "other")
  BY DEF Reject
<1>3. \E d \in CallState : d.pc = "done" /\ call' = [call EXCEPT ![r][i] = d]
  BY <1>1, <1>2, FinishShape
<1>4. UNCHANGED <<docs, chain, faults, script, req, history>>
  BY DEF Reject, store
<1> QED BY <1>1, <1>3, <1>4 DEF OneCall, StoresRecords, history

LEMMA ReadRecordShape ==
  ASSUME TypeInv, NEW r \in Requests, NEW i \in Slots, ReadRecord(r, i)
  PROVE  OneCall(r, i) /\ StoresRecords(r, i)
<1> DEFINE c == Call(r, i)
<1>1. /\ call[r][i] \in CallState /\ faults \in 0..MaxFaults
      /\ docs \in Seq(Document)
  BY DEF TypeInv, TypeOK
<1>2. c \in CallType
  <2>1. call[r][i] # IdleCall
    BY DEF ReadRecord, Running, IdleCall
  <2> QED BY <2>1, CallTypes
<1>3. \E d \in CallState :
        /\ call' = [call EXCEPT ![r][i] = d]
        /\ d.pc = "done" \/ Exists(docs, c.node)
  <2>1. CASE /\ Exists(docs, c.node)
             /\ call' = [call EXCEPT ![r][i].pc = "write", ![r][i].hash =
                           HashWith(FindOne(docs, c.node), c.field, c.value)]
    <3> DEFINE h == HashWith(FindOne(docs, c.node), c.field, c.value)
               d == [call[r][i] EXCEPT !.pc = "write", !.hash = h]
    <3>1. h \in Hash
      BY <1>1, <1>2, <2>1, FirstProperties, HashTypes DEF CallType
    <3>2. "write" \in CallPcs
      BY Enumerated
    <3>3. d \in CallState
      BY <1>1, <3>1, <3>2 DEF CallState
    <3>4. call' = [call EXCEPT ![r][i] = d]
      BY <2>1 DEF TypeInv, TypeOK
    <3> QED BY <2>1, <3>3, <3>4
  <2>2. CASE Finish(r, i, call[r][i], 400, "other")
    BY <1>1, <2>2, FinishShape
  <2> QED BY <2>1, <2>2 DEF ReadRecord
<1>4. faults' \in 0..MaxFaults
  BY <1>1, FaultTypes DEF ReadRecord
<1>5. UNCHANGED <<docs, chain, script, req, history>>
  BY DEF ReadRecord
<1> QED BY <1>3, <1>4, <1>5 DEF OneCall, StoresRecords, history

LEMMA WriteTextShape ==
  ASSUME TypeInv, NEW r \in Requests, NEW i \in Slots, WriteText(r, i)
  PROVE  OneCall(r, i) /\ StoresRecords(r, i)
<1> DEFINE c == Call(r, i)
           half == UpdateField(docs, c.node, c.field, c.value)
           new == UpdateHash(half, c.node, call[r][i].hash)
           wrote == [call[r][i] EXCEPT !.wrote = @ \cup {"own"}]
<1>1. /\ call[r][i] \in CallState /\ faults \in 0..MaxFaults
      /\ docs \in Seq(Document)
  BY DEF TypeInv, TypeOK
<1>2. c \in CallType /\ Exists(docs, c.node)
  <2>1. call[r][i] # IdleCall
    BY DEF WriteText, Writing, IdleCall
  <2>2. call[r][i].pc = "write" /\ c.kind = "setText"
    BY DEF WriteText, Writing
  <2> QED BY <2>1, <2>2, CallTypes DEF TypeInv, RecordsStay
<1>3. new \in Seq(Document) /\ Keeps(docs, new)
  <2>1. half \in Seq(Document) /\ Keeps(docs, half)
    BY <1>1, <1>2, UpdatesKeep DEF CallType
  <2>2. Exists(half, c.node) /\ call[r][i].hash \in Hash
    BY <1>1, <1>2, <2>1, KeepsExists DEF CallState
  <2>3. new \in Seq(Document) /\ Keeps(half, new)
    BY <2>1, <2>2, <1>2, UpdatesKeep DEF CallType
  <2> QED BY <1>1, <2>1, <2>3 DEF Keeps
<1>4. /\ Store(new, <<r, i>>) \/ UNCHANGED <<docs, since>>
      /\ NoFault \/ Fault
      /\ \/ Finish(r, i, wrote, 200, c.node)
         \/ Finish(r, i, wrote, 400, "other")
         \/ Finish(r, i, call[r][i], 400, "other")
  BY DEF WriteText
<1>5. wrote \in CallState /\ c.node \in Nodes
  BY <1>1, <1>2 DEF CallState, CallType
<1>6. \E d \in CallState : d.pc = "done" /\ call' = [call EXCEPT ![r][i] = d]
  <2>1. CASE Finish(r, i, wrote, 200, c.node)
    BY <1>5, <2>1, FinishShape
  <2>2. CASE Finish(r, i, wrote, 400, "other")
    BY <1>5, <2>2, FinishShape
  <2>3. CASE Finish(r, i, call[r][i], 400, "other")
    BY <1>1, <2>3, FinishShape
  <2> QED BY <1>4, <2>1, <2>2, <2>3
<1>7. faults' \in 0..MaxFaults
  BY <1>1, <1>4, FaultTypes
<1>8. UNCHANGED <<chain, script, req, arrived, contended>>
  BY DEF WriteText
<1>9. OneCall(r, i)
  BY <1>6, <1>7, <1>8 DEF OneCall
<1>10. StoresRecords(r, i)
  BY <1>2, <1>3, <1>4 DEF StoresRecords
<1> QED BY <1>9, <1>10

\* The writes of one field, whether they find the record or not.
LEMMA SetFieldShape ==
  ASSUME TypeInv, NEW r \in Requests, NEW i \in Slots,
         NEW n \in Nodes, NEW f \in Fields, NEW v \in Values,
         SetField(r, i, call[r][i], n, f, v)
  PROVE  /\ \E d \in CallState : d.pc = "done" /\ call' = [call EXCEPT ![r][i] = d]
         /\ StoresRecords(r, i)
         /\ faults' \in 0..MaxFaults
<1> DEFINE new == UpdateField(docs, n, f, v)
           found == Exists(docs, n)
           wrote == [call[r][i] EXCEPT !.wrote =
                       @ \cup (IF found THEN {"own"} ELSE {})]
<1>1. /\ call[r][i] \in CallState /\ faults \in 0..MaxFaults
      /\ docs \in Seq(Document)
  BY DEF TypeInv, TypeOK
<1>2. wrote \in CallState
  BY <1>1 DEF CallState
<1>3. /\ (found /\ Store(new, NoOne)) \/ UNCHANGED <<docs, since>>
      /\ NoFault \/ Fault
      /\ \E c \in {call[r][i], wrote} :
           Finish(r, i, c, 200, "0x") \/ Finish(r, i, c, 400, "other")
  BY DEF SetField
<1>4. \E d \in CallState : d.pc = "done" /\ call' = [call EXCEPT ![r][i] = d]
  <2>1. PICK c \in CallState :
          Finish(r, i, c, 200, "0x") \/ Finish(r, i, c, 400, "other")
    BY <1>1, <1>2, <1>3
  <2>2. CASE Finish(r, i, c, 200, "0x")
    BY <2>2, FinishShape
  <2>3. CASE Finish(r, i, c, 400, "other")
    BY <2>3, FinishShape
  <2> QED BY <2>1, <2>2, <2>3
<1>5. StoresRecords(r, i)
  <2>1. CASE UNCHANGED <<docs, since>>
    BY <2>1 DEF StoresRecords
  <2>2. CASE found /\ Store(new, NoOne)
    BY <1>1, <2>2, UpdatesKeep DEF StoresRecords
  <2> QED BY <1>3, <2>1, <2>2
<1> QED BY <1>1, <1>3, <1>4, <1>5, FaultTypes

LEMMA WriteFieldShape ==
  ASSUME TypeInv, NEW r \in Requests, NEW i \in Slots, WriteField(r, i)
  PROVE  OneCall(r, i) /\ StoresRecords(r, i)
<1> DEFINE c == Call(r, i)
<1>1. c \in CallType
  <2>1. call[r][i] # IdleCall
    BY DEF WriteField, Running, IdleCall
  <2> QED BY <2>1, CallTypes
<1>2. SetField(r, i, call[r][i], c.node, c.field, c.value)
  BY DEF WriteField
<1>3. UNCHANGED <<chain, script, req, arrived, contended>>
  BY DEF WriteField
<1>4. c.node \in Nodes /\ c.field \in Fields /\ c.value \in Values
  BY <1>1 DEF CallType
<1> QED BY <1>2, <1>3, <1>4, SetFieldShape DEF OneCall

LEMMA ReadOwnerShape ==
  ASSUME TypeInv, NEW r \in Requests, NEW i \in Slots, ReadOwner(r, i)
  PROVE  OneCall(r, i) /\ StoresRecords(r, i)
<1> DEFINE c == Call(r, i)
<1>1. /\ call[r][i] \in CallState /\ faults \in 0..MaxFaults
      /\ call \in [Requests -> [Slots -> CallState]]
  BY DEF TypeInv, TypeOK
<1>2. c \in CallType /\ c.kind = "transfer"
  <2>1. call[r][i] # IdleCall
    BY DEF ReadOwner, Running, IdleCall
  <2> QED BY <2>1, CallTypes DEF ReadOwner, Running
<1>3. OnChainOwner(Now, c.node) \in Accounts \cup {Wrapper, Multisig}
  BY <1>2, NowTypes DEF CallType
<1>4. \E d \in CallState : call' = [call EXCEPT ![r][i] = d]
  <2>1. CASE call' = [call EXCEPT ![r][i].pc = "write",
                                  ![r][i].owner = OnChainOwner(Now, c.node)]
    <3> DEFINE d == [call[r][i] EXCEPT !.pc = "write",
                                       !.owner = OnChainOwner(Now, c.node)]
    <3>1. "write" \in CallPcs
      BY Enumerated
    <3>2. d \in CallState
      BY <1>1, <1>3, <3>1 DEF CallState
    <3>3. call' = [call EXCEPT ![r][i] = d]
      BY <1>1, <2>1
    <3> QED BY <3>2, <3>3
  <2>2. CASE Finish(r, i, call[r][i], 400, "other")
    BY <1>1, <2>2, FinishShape
  <2> QED BY <2>1, <2>2 DEF ReadOwner
<1>5. faults' \in 0..MaxFaults
  BY <1>1, FaultTypes DEF ReadOwner
<1>6. UNCHANGED <<docs, chain, script, req, history>>
  BY DEF ReadOwner
<1> QED BY <1>2, <1>4, <1>5, <1>6 DEF OneCall, StoresRecords, history

LEMMA WriteOwnerShape ==
  ASSUME TypeInv, NEW r \in Requests, NEW i \in Slots, WriteOwner(r, i)
  PROVE  OneCall(r, i) /\ StoresRecords(r, i)
<1> DEFINE c == Call(r, i)
<1>1. c.node \in Nodes
  <2>1. call[r][i] # IdleCall
    BY DEF WriteOwner, Writing, IdleCall
  <2> QED BY <2>1, CallTypes DEF CallType
<1>2. call[r][i].owner \in Values /\ "owner" \in Fields
  BY GatewayAssumption, RecordAssumption DEF TypeInv, TypeOK, CallState
<1>3. SetField(r, i, call[r][i], c.node, "owner", call[r][i].owner)
  BY DEF WriteOwner
<1>4. UNCHANGED <<chain, script, req, arrived, contended>>
  BY DEF WriteOwner
<1> QED BY <1>1, <1>2, <1>3, <1>4, SetFieldShape DEF OneCall

LEMMA SetNothingShape ==
  ASSUME TypeInv, NEW r \in Requests, NEW i \in Slots, SetNothing(r, i)
  PROVE  OneCall(r, i) /\ StoresRecords(r, i)
<1>1. call[r][i] \in CallState /\ faults \in 0..MaxFaults
  BY DEF TypeInv, TypeOK
<1>2. \E d \in CallState : d.pc = "done" /\ call' = [call EXCEPT ![r][i] = d]
  BY <1>1, FinishShape DEF SetNothing
<1>3. UNCHANGED <<docs, chain, faults, script, req, history>>
  BY DEF SetNothing, store
<1> QED BY <1>1, <1>2, <1>3 DEF OneCall, StoresRecords, history

LEMMA ReadLEIShape ==
  ASSUME TypeInv, NEW r \in Requests, NEW i \in Slots, ReadLEI(r, i)
  PROVE  OneCall(r, i) /\ StoresRecords(r, i)
<1>1. /\ call[r][i] \in CallState /\ faults \in 0..MaxFaults
      /\ call \in [Requests -> [Slots -> CallState]]
  BY DEF TypeInv, TypeOK
<1>2. \E d \in CallState : call' = [call EXCEPT ![r][i] = d]
  <2>1. CASE call' = [call EXCEPT ![r][i].pc = "write"]
    <3>1. "write" \in CallPcs
      BY Enumerated
    <3>2. [call[r][i] EXCEPT !.pc = "write"] \in CallState
      BY <1>1, <3>1 DEF CallState
    <3> QED BY <1>1, <2>1, <3>2
  <2>2. CASE Finish(r, i, call[r][i], 400, "other")
    BY <1>1, <2>2, FinishShape
  <2> QED BY <2>1, <2>2 DEF ReadLEI
<1>3. faults' \in 0..MaxFaults
  BY <1>1, FaultTypes DEF ReadLEI
<1>4. Call(r, i).kind = "register"
  BY DEF ReadLEI, Running
<1>5. UNCHANGED <<docs, chain, script, req, history>>
  BY DEF ReadLEI
<1> QED BY <1>2, <1>3, <1>4, <1>5 DEF OneCall, StoresRecords, history

LEMMA CreateEntityShape ==
  ASSUME TypeInv, NEW r \in Requests, NEW i \in Slots, CreateEntity(r, i)
  PROVE  OneCall(r, i) /\ StoresRecords(r, i)
<1> DEFINE c == Call(r, i)
           entity == Entity(c.node, c.field, c.value)
           wrote == [call[r][i] EXCEPT !.wrote = @ \cup {"own"}]
<1>1. /\ call[r][i] \in CallState /\ faults \in 0..MaxFaults
      /\ docs \in Seq(Document)
  BY DEF TypeInv, TypeOK
<1>2. c.node \in Nodes /\ c.field \in Fields /\ c.value \in Values
  <2>1. call[r][i] # IdleCall
    BY DEF CreateEntity, Writing, IdleCall
  <2> QED BY <2>1, CallTypes DEF CallType
<1>3. wrote \in CallState
  BY <1>1 DEF CallState
<1>4. /\ Store(Append(docs, entity), NoOne) \/ UNCHANGED <<docs, since>>
      /\ NoFault \/ Fault
      /\ \E d \in {call[r][i], wrote} :
           Finish(r, i, d, 200, "other") \/ Finish(r, i, d, 400, "other")
  BY DEF CreateEntity
<1>5. \E d \in CallState : d.pc = "done" /\ call' = [call EXCEPT ![r][i] = d]
  <2>0. PICK d \in {call[r][i], wrote} :
          Finish(r, i, d, 200, "other") \/ Finish(r, i, d, 400, "other")
    BY <1>4
  <2>1. d \in CallState
    BY <1>1, <1>3
  <2>2. CASE Finish(r, i, d, 200, "other")
    BY <2>1, <2>2, FinishShape
  <2>3. CASE Finish(r, i, d, 400, "other")
    BY <2>1, <2>3, FinishShape
  <2> QED BY <2>0, <2>2, <2>3
<1>6. StoresRecords(r, i)
  <2>1. entity \in Document
    BY <1>2, InsertedTypes
  <2> QED BY <1>1, <1>4, <2>1, UpdatesKeep DEF StoresRecords
<1>7. faults' \in 0..MaxFaults
  BY <1>1, <1>4, FaultTypes
<1>8. UNCHANGED <<chain, script, req, arrived, contended>>
  BY DEF CreateEntity
<1> QED BY <1>5, <1>6, <1>7, <1>8 DEF OneCall

LEMMA ReadShape ==
  ASSUME TypeInv, NEW r \in Requests, NEW i \in Slots, Read(r, i)
  PROVE  OneCall(r, i) /\ StoresRecords(r, i)
<1>1. call[r][i] \in CallState /\ faults \in 0..MaxFaults
  BY DEF TypeInv, TypeOK
<1>2. PICK s \in {200, 500}, w \in {"0x", "other"} : Finish(r, i, call[r][i], s, w)
  BY DEF Read
<1>3. \E d \in CallState : d.pc = "done" /\ call' = [call EXCEPT ![r][i] = d]
  BY <1>1, <1>2, FinishShape
<1>4. faults' \in 0..MaxFaults
  BY <1>1, FaultTypes DEF Read
<1>5. UNCHANGED <<docs, chain, script, req, history>>
  BY DEF Read
<1> QED BY <1>3, <1>4, <1>5 DEF OneCall, StoresRecords, history

LEMMA CallStepShape ==
  ASSUME TypeInv, NEW r \in Requests, NEW i \in Slots, CallStep(r, i)
  PROVE  OneCall(r, i) /\ StoresRecords(r, i)
BY VerifierStepShape, SyncOwnerShape, RejectShape, ReadRecordShape,
   WriteTextShape, WriteFieldShape, ReadOwnerShape, WriteOwnerShape,
   SetNothingShape, ReadLEIShape, CreateEntityShape, ReadShape
   DEF CallStep, VerifierStep

-----------------------------------------------------------------------------
(* The type invariant *)

\* What Store does to the collection and to the history of hashes.
LEMMA StoreTypes ==
  ASSUME TypeInv, NEW r \in Requests, NEW i \in Slots,
         NEW new \in Seq(Document), Keeps(docs, new),
         \/ Store(new, NoOne)
         \/ Store(new, <<r, i>>) /\ Exists(docs, Call(r, i).node)
  PROVE  /\ docs' = new
         /\ since' \in [Requests -> [Slots -> SUBSET Hash]]
         /\ \A q \in Requests, j \in Slots :
              since'[q][j] # {} => \/ since[q][j] # {}
                                   \/ q = r /\ j = i /\ Exists(docs, Call(r, i).node)
<1> DEFINE H(q, j) == HashOf(FindOne(new, Call(q, j).node))
<1>1. docs \in Seq(Document) /\ since \in [Requests -> [Slots -> SUBSET Hash]]
  BY DEF TypeInv, TypeOK
<1>2. ASSUME NEW q \in Requests, NEW j \in Slots, Exists(docs, Call(q, j).node)
      PROVE  H(q, j) \in Hash
  <2>1. Exists(new, Call(q, j).node)
    BY <1>1, <1>2, KeepsExists
  <2>2. FindOne(new, Call(q, j).node) \in Document
    BY <2>1, FirstProperties
  <2> QED BY <2>2, HashTypes, RecordAssumption, GatewayAssumption
          DEF HashOf, Document, Hash
<1>3. ASSUME NEW q \in Requests, NEW j \in Slots, since[q][j] # {}
      PROVE  H(q, j) \in Hash
  BY <1>2, <1>3 DEF TypeInv, RecordsStay
<1>4. PICK own \in {NoOne, <<r, i>>} :
        /\ docs' = new
        /\ since' = [q \in Requests |-> [j \in Slots |->
             IF <<q, j>> = own THEN {H(q, j)}
             ELSE IF since[q][j] = {} \/ req[q].pc = "answered" THEN since[q][j]
             ELSE since[q][j] \cup {H(q, j)}]]
        /\ own = NoOne \/ Exists(docs, Call(r, i).node)
  BY DEF Store
<1>5. ASSUME NEW q \in Requests, NEW j \in Slots, <<q, j>> = own
      PROVE  q = r /\ j = i /\ Exists(docs, Call(r, i).node)
  BY <1>4, <1>5 DEF NoOne
<1>6. ASSUME NEW q \in Requests, NEW j \in Slots
      PROVE  /\ since'[q][j] \in SUBSET Hash
             /\ since'[q][j] # {} =>
                  \/ since[q][j] # {}
                  \/ q = r /\ j = i /\ Exists(docs, Call(r, i).node)
  <2>1. CASE <<q, j>> = own
    BY <1>2, <1>4, <1>5, <2>1
  <2>2. CASE <<q, j>> # own
    <3>1. since'[q][j] = IF since[q][j] = {} \/ req[q].pc = "answered"
                         THEN since[q][j] ELSE since[q][j] \cup {H(q, j)}
      BY <1>4, <2>2
    <3> QED BY <1>1, <1>3, <3>1
  <2> QED BY <2>1, <2>2
<1>7. since' \in [Requests -> [Slots -> SUBSET Hash]]
  BY <1>4, <1>6
<1> QED BY <1>4, <1>6, <1>7

LEMMA TypeInit == Init => TypeInv
<1> SUFFICES ASSUME Init PROVE TypeInv
  OBVIOUS
<1>1. /\ docs = <<>> /\ faults = 0
      /\ script = [r \in Requests |-> NoScript]
      /\ call = [r \in Requests |-> [i \in Slots |-> IdleCall]]
      /\ req = [r \in Requests |-> IdleRequest]
      /\ arrived = [r \in Requests |-> 1]
      /\ since = [r \in Requests |-> [i \in Slots |-> {}]]
      /\ contended = [r \in Requests |-> FALSE]
  BY DEF Init
<1>2. chain \in Seq(ChainType) /\ Len(chain) = 1
  BY DEF Init
<1>3. TypeOK
  BY <1>1, <1>2, InitialTypes, GatewayAssumption DEF TypeOK
<1>4. \A r \in Requests, i \in Slots :
        call[r][i] = IdleCall /\ since[r][i] = {} /\ req[r] = IdleRequest
  BY <1>1
<1>5. IdleOutsideCalls
  BY <1>4 DEF IdleOutsideCalls
<1>6. IdleCall.pc = "idle" /\ IdleRequest.pc = "idle"
  BY DEF IdleCall, IdleRequest
<1>7. RecordsStay
  BY <1>1, <1>4, <1>6 DEF RecordsStay
<1> QED BY <1>3, <1>5, <1>7 DEF TypeInv

LEMMA CallStepNotIdle ==
  ASSUME NEW r \in Requests, NEW i \in Slots, CallStep(r, i)
  PROVE  call[r][i] # IdleCall
BY DEF CallStep, EthOwner, EthOwnerOf, EthLegacyOwner, DbOwner, DbManager, DbRole,
       SyncOwner, Reject, ReadRecord, WriteText, WriteField, ReadOwner, WriteOwner,
       SetNothing, ReadLEI, CreateEntity, Read, Running, Writing, IdleCall

\* The collection after a step of a call.
LEMMA CallStepKeeps ==
  ASSUME TypeInv, NEW r \in Requests, NEW i \in Slots, StoresRecords(r, i)
  PROVE  /\ docs' \in Seq(Document) /\ Keeps(docs, docs')
         /\ since' \in [Requests -> [Slots -> SUBSET Hash]]
         /\ \A q \in Requests, j \in Slots : since'[q][j] # {} =>
              \/ since[q][j] # {}
              \/ q = r /\ j = i /\ Exists(docs, Call(r, i).node)
<1>1. docs \in Seq(Document) /\ since \in [Requests -> [Slots -> SUBSET Hash]]
  BY DEF TypeInv, TypeOK
<1>2. CASE UNCHANGED <<docs, since>>
  BY <1>1, <1>2 DEF Keeps
<1>3. CASE \E new \in Seq(Document) :
             /\ Keeps(docs, new)
             /\ \/ Store(new, NoOne)
                \/ Store(new, <<r, i>>) /\ Exists(docs, Call(r, i).node)
  BY <1>3, StoreTypes
<1> QED BY <1>2, <1>3 DEF StoresRecords

LEMMA CallStepTypes ==
  ASSUME TypeInv, NEW r \in Requests, NEW i \in Slots, CallStep(r, i)
  PROVE  TypeInv'
<1>1. /\ docs \in Seq(Document) /\ call \in [Requests -> [Slots -> CallState]]
      /\ TypeOK
  BY DEF TypeInv, TypeOK
<1>2. PICK c \in CallState :
        /\ call' = [call EXCEPT ![r][i] = c]
        /\ c.pc = "write" /\ Call(r, i).kind = "setText"
             => Exists(docs, Call(r, i).node)
  BY CallStepShape DEF OneCall
<1>3. UNCHANGED <<chain, script, req, arrived, contended>>
      /\ faults' \in 0..MaxFaults
  BY CallStepShape DEF OneCall
<1>4. /\ docs' \in Seq(Document) /\ Keeps(docs, docs')
      /\ since' \in [Requests -> [Slots -> SUBSET Hash]]
      /\ \A q \in Requests, j \in Slots : since'[q][j] # {} =>
           \/ since[q][j] # {}
           \/ q = r /\ j = i /\ Exists(docs, Call(r, i).node)
  BY CallStepShape, CallStepKeeps
<1>5. call' \in [Requests -> [Slots -> CallState]]
  BY <1>1, <1>2
<1>6. TypeOK'
  BY <1>1, <1>3, <1>4, <1>5 DEF TypeOK
<1>7. i \in CallsOf(r) /\ req[r].pc # "idle"
  BY CallStepNotIdle, CallTypes
<1>8. \A q \in Requests, j \in Slots :
        (q # r \/ j # i) => call'[q][j] = call[q][j]
  BY <1>1, <1>2
<1>9. IdleOutsideCalls'
  BY <1>3, <1>4, <1>7, <1>8 DEF IdleOutsideCalls, CallsOf, TypeInv
<1>10. ASSUME NEW n, Exists(docs, n)
       PROVE  Exists(docs', n)
  BY <1>1, <1>4, <1>10, KeepsExists
<1>11. ASSUME NEW q \in Requests, NEW j \in Slots,
              \/ call'[q][j].pc = "write" /\ Call(q, j).kind = "setText"
              \/ since'[q][j] # {}
       PROVE  Exists(docs', Call(q, j).node)
  <2>1. Exists(docs, Call(q, j).node)
    <3>1. CASE since'[q][j] # {}
      BY <1>4, <3>1 DEF TypeInv, RecordsStay
    <3>2. CASE call'[q][j].pc = "write" /\ Call(q, j).kind = "setText"
      <4>1. CASE q = r /\ j = i
        BY <1>1, <1>2, <3>2, <4>1
      <4>2. CASE q # r \/ j # i
        BY <1>8, <3>2, <4>2 DEF TypeInv, RecordsStay
      <4> QED BY <4>1, <4>2
    <3> QED BY <1>11, <3>1, <3>2
  <2> QED BY <1>10, <2>1
<1>12. RecordsStay'
  BY <1>3, <1>10, <1>11 DEF RecordsStay, Call, TypeInv
<1> QED BY <1>6, <1>9, <1>12 DEF TypeInv

LEMMA ArriveTypes ==
  ASSUME TypeInv, NEW r \in Requests, Arrive(r)
  PROVE  TypeInv'
<1>1. PICK s \in Scripts :
        /\ script' = [script EXCEPT ![r] = s]
        /\ call' = [call EXCEPT ![r] = [i \in Slots |-> StartOf(s, i)]]
  BY DEF Arrive
<1>2. /\ UNCHANGED <<docs, chain, faults, since>>
      /\ arrived' = [arrived EXCEPT ![r] = Len(chain)]
      /\ req[r].pc = "idle"
      /\ req' = [req EXCEPT ![r] = [req[r] EXCEPT !.pc = "run"]]
      /\ contended' \in [Requests -> BOOLEAN]
  BY DEF Arrive, store, TypeInv, TypeOK
<1>3. Len(s.calls) \in Nat
  BY GatewayAssumption DEF ScriptType
<1>4. ASSUME NEW i \in Slots
      PROVE  /\ StartOf(s, i) \in CallState
             /\ StartOf(s, i).pc \in {"idle", "run"}
             /\ i \notin 1..Len(s.calls) => StartOf(s, i) = IdleCall
  <2>1. /\ IdleCall \in CallState /\ IdleCall.pc = "idle"
        /\ "run" \in CallPcs /\ "todo" \in EthAnswers /\ "no" \in EthAnswers
        /\ "todo" \in DbAnswers /\ "no" \in DbAnswers
    BY InitialTypes, Enumerated DEF IdleCall
  <2>2. [IdleCall EXCEPT !.pc = "run"] \in CallState
    BY <2>1 DEF CallState
  <2>3. \A e \in EthAnswers, d \in DbAnswers :
          [IdleCall EXCEPT !.pc = "run", !.eth = e, !.db = d] \in CallState
    BY <2>1 DEF CallState
  <2>4. StartOf(s, i) \in CallState
    BY <2>1, <2>2, <2>3 DEF StartOf
  <2>5. StartOf(s, i).pc \in {"idle", "run"}
    BY <2>1 DEF StartOf, IdleCall
  <2>6. i \notin 1..Len(s.calls) => StartOf(s, i) = IdleCall
    BY <1>3, GatewayAssumption DEF StartOf, Slots
  <2> QED BY <2>4, <2>5, <2>6
<1>5. TypeOK
  BY DEF TypeInv
<1>6. /\ script' \in [Requests -> Scripts \cup {NoScript}]
      /\ call' \in [Requests -> [Slots -> CallState]]
      /\ arrived' \in [Requests -> 1..Len(chain)]
  BY <1>1, <1>2, <1>4, <1>5, ChainTypes DEF TypeOK
<1>7. req' \in [Requests -> RequestState] /\ req'[r].pc = "run"
  <2>1. "run" \in RequestPcs /\ req[r] \in RequestState
    BY <1>5, Enumerated DEF TypeOK
  <2>2. [req[r] EXCEPT !.pc = "run"] \in RequestState
    BY <2>1 DEF RequestState
  <2>3. [req[r] EXCEPT !.pc = "run"].pc = "run"
    BY <2>1 DEF RequestState
  <2> QED BY <1>2, <1>5, <2>2, <2>3 DEF TypeOK
<1>8. TypeOK'
  BY <1>2, <1>5, <1>6, <1>7 DEF TypeOK
<1>9. ASSUME NEW q \in Requests, q # r
      PROVE  script'[q] = script[q] /\ call'[q] = call[q] /\ req'[q] = req[q]
  BY <1>1, <1>2, <1>5, <1>9 DEF TypeOK
<1>10. /\ script'[r] = s
       /\ \A i \in Slots : call'[r][i] = StartOf(s, i) /\ since[r][i] = {}
  BY <1>1, <1>2, <1>5 DEF TypeOK, TypeInv, IdleOutsideCalls
<1>11. IdleOutsideCalls'
  BY <1>2, <1>4, <1>7, <1>9, <1>10 DEF IdleOutsideCalls, CallsOf, TypeInv
<1>12. RecordsStay'
  BY <1>2, <1>4, <1>7, <1>9, <1>10 DEF RecordsStay, Call, TypeInv
<1> QED BY <1>8, <1>11, <1>12 DEF TypeInv

LEMMA RequestStepShape ==
  ASSUME TypeInv, NEW r \in Requests, RequestStep(r)
  PROVE  /\ \E q \in RequestState :
              /\ req' = [req EXCEPT ![r] = q] /\ q.pc # "idle"
              /\ q.pc = "save" => Exists(docs, q.node)
         /\ docs' \in Seq(Document) /\ Keeps(docs, docs')
         /\ faults' \in 0..MaxFaults
         /\ UNCHANGED <<chain, script, call, history>>
<1>1. /\ req \in [Requests -> RequestState] /\ req[r] \in RequestState
      /\ docs \in Seq(Document) /\ faults \in 0..MaxFaults
  BY DEF TypeInv, TypeOK
<1>2. /\ "fetch" \in RequestPcs /\ "save" \in RequestPcs /\ "answered" \in RequestPcs
      /\ 200 \in Statuses /\ 500 \in Statuses
  BY Enumerated
<1>3. \A s \in Statuses :
        /\ [req[r] EXCEPT !.pc = "answered", !.status = s] \in RequestState
        /\ [req[r] EXCEPT !.pc = "answered", !.status = s].pc = "answered"
  BY <1>1, <1>2 DEF RequestState
<1>4. ASSUME NEW s \in Statuses, Answer(r, s)
      PROVE  \E q \in RequestState :
               req' = [req EXCEPT ![r] = q] /\ q.pc = "answered"
  <2>1. req' = [req EXCEPT ![r] = [req[r] EXCEPT !.pc = "answered", !.status = s]]
    BY <1>1, <1>4 DEF Answer
  <2> QED BY <1>3, <2>1
<1>5. docs' = docs => docs' \in Seq(Document) /\ Keeps(docs, docs')
  BY <1>1 DEF Keeps
<1>6. CASE Respond(r)
  <2>1. UNCHANGED <<docs, chain, faults, script, call, history>>
    BY <1>6 DEF Respond, store
  <2>2. CASE req' = [req EXCEPT ![r].pc = "fetch"]
    <3>1. req' = [req EXCEPT ![r] = [req[r] EXCEPT !.pc = "fetch"]]
      BY <1>1, <2>2
    <3>2. /\ [req[r] EXCEPT !.pc = "fetch"] \in RequestState
          /\ [req[r] EXCEPT !.pc = "fetch"].pc = "fetch"
      BY <1>1, <1>2 DEF RequestState
    <3> QED BY <1>1, <1>5, <2>1, <3>1, <3>2
  <2>3. CASE Answer(r, call[r][1].status)
    <3>1. call[r][1].status \in Statuses
      BY GatewayAssumption DEF TypeInv, TypeOK, CallState, Slots
    <3> QED BY <1>1, <1>4, <1>5, <2>1, <2>3, <3>1
  <2> QED BY <1>6, <2>2, <2>3 DEF Respond
<1>7. CASE SignFetch(r)
  <2> DEFINE n == SignedNode(r)
             h == HashOf(FindOne(docs, n))
  <2>1. UNCHANGED <<docs, chain, script, call, history>>
    BY <1>7 DEF SignFetch
  <2>2. faults' \in 0..MaxFaults
    BY <1>1, <1>7, FaultTypes DEF SignFetch
  <2>3. CASE /\ Exists(docs, n)
             /\ req' = [req EXCEPT ![r].pc = "save", ![r].node = n, ![r].hash = h]
    <3> DEFINE q == [req[r] EXCEPT !.pc = "save", !.node = n, !.hash = h]
    <3>1. n \in Nodes /\ h \in Hash
      <4>1. n \in Nodes /\ FindOne(docs, n) \in Document
        BY <1>1, <2>3, FirstProperties
      <4> QED BY <4>1 DEF HashOf, Document, Hash
    <3>2. q \in RequestState /\ q.pc = "save" /\ q.node = n
      BY <1>1, <1>2, <3>1 DEF RequestState
    <3>3. req' = [req EXCEPT ![r] = q]
      BY <1>1, <2>3
    <3> QED BY <1>5, <2>1, <2>2, <2>3, <3>2, <3>3
  <2>4. CASE Answer(r, 500)
    BY <1>2, <1>4, <1>5, <2>1, <2>2, <2>4
  <2> QED BY <1>7, <2>3, <2>4 DEF SignFetch
<1>8. CASE SignSave(r)
  <2> DEFINE new == UpdateHash(docs, req[r].node, req[r].hash)
  <2>1. UNCHANGED <<chain, script, call, history>>
    BY <1>8 DEF SignSave
  <2>2. faults' \in 0..MaxFaults
    BY <1>1, <1>8, FaultTypes DEF SignSave
  <2>3. docs' \in Seq(Document) /\ Keeps(docs, docs')
    <3>1. docs' = new \/ docs' = docs
      BY <1>8 DEF SignSave
    <3>2. Exists(docs, req[r].node) /\ req[r].hash \in Hash
      BY <1>1, <1>8 DEF SignSave, TypeInv, RecordsStay, RequestState
    <3>3. req[r].node \in Nodes
      BY <1>1, <3>2, FirstProperties
    <3>4. new \in Seq(Document) /\ Keeps(docs, new)
      BY <1>1, <3>2, <3>3, UpdatesKeep
    <3> QED BY <1>5, <3>1, <3>4
  <2>4. CASE req' = [req EXCEPT ![r].pc = "answered", ![r].status = 200,
                                ![r].signed = TRUE]
    <3> DEFINE q == [req[r] EXCEPT !.pc = "answered", !.status = 200, !.signed = TRUE]
    <3>1. q \in RequestState /\ q.pc = "answered"
      BY <1>1, <1>2 DEF RequestState
    <3>2. req' = [req EXCEPT ![r] = q]
      BY <1>1, <2>4
    <3> QED BY <2>1, <2>2, <2>3, <3>1, <3>2
  <2>5. CASE Answer(r, 500)
    BY <1>2, <1>4, <2>1, <2>2, <2>3, <2>5
  <2> QED BY <1>8, <2>4, <2>5 DEF SignSave
<1> QED BY <1>6, <1>7, <1>8 DEF RequestStep

LEMMA RequestStepTypes ==
  ASSUME TypeInv, NEW r \in Requests, RequestStep(r)
  PROVE  TypeInv'
<1>1. PICK q \in RequestState :
        /\ req' = [req EXCEPT ![r] = q] /\ q.pc # "idle"
        /\ q.pc = "save" => Exists(docs, q.node)
  BY RequestStepShape
<1>2. /\ docs' \in Seq(Document) /\ Keeps(docs, docs')
      /\ faults' \in 0..MaxFaults
      /\ UNCHANGED <<chain, script, call, arrived, since, contended>>
  BY RequestStepShape DEF history
<1>3. TypeOK /\ docs \in Seq(Document) /\ req \in [Requests -> RequestState]
  BY DEF TypeInv, TypeOK
<1>4. TypeOK'
  BY <1>1, <1>2, <1>3 DEF TypeOK
<1>5. \A p \in Requests : req'[p] = IF p = r THEN q ELSE req[p]
  BY <1>1, <1>3
<1>6. IdleOutsideCalls'
  BY <1>1, <1>2, <1>5 DEF IdleOutsideCalls, CallsOf, TypeInv
<1>7. ASSUME NEW n, Exists(docs, n)
      PROVE  Exists(docs', n)
  BY <1>2, <1>3, <1>7, KeepsExists
<1>8. RecordsStay'
  BY <1>1, <1>2, <1>5, <1>7 DEF RecordsStay, Call, TypeInv
<1> QED BY <1>4, <1>6, <1>8 DEF TypeInv

\* The chain grows, and its past stays.
LEMMA ChainGrows ==
  ASSUME TypeInv, NEW state, chain' = Append(chain, state)
  PROVE  /\ Len(chain') = Len(chain) + 1 /\ Now' = state
         /\ chain'[Len(chain) + 1] = state
         /\ \A k \in 1..Len(chain) : chain'[k] = chain[k]
BY DEF TypeInv, TypeOK, Now

LEMMA BecomesTypes ==
  ASSUME TypeInv, NEW state \in ChainType, Becomes(state)
  PROVE  TypeInv'
<1>1. TypeOK /\ MaxMoves \in Nat
  BY GatewayAssumption DEF TypeInv
<1>2. chain \in Seq(ChainType) /\ Len(chain) <= MaxMoves /\ chain' = Append(chain, state)
  BY <1>1 DEF Becomes, TypeOK
<1>3. chain' \in Seq(ChainType) /\ Len(chain') = Len(chain) + 1
  BY <1>2
<1>4. Len(chain') \in 1..(MaxMoves + 1)
  BY <1>1, <1>2, <1>3, ChainTypes
<1>5. UNCHANGED <<docs, faults, script, call, req, arrived, since, contended>>
  BY DEF Becomes, history
<1>6. arrived' \in [Requests -> 1..Len(chain')]
  BY <1>1, <1>3, <1>5, ChainTypes DEF TypeOK
<1>7. TypeOK'
  BY <1>1, <1>3, <1>4, <1>5, <1>6 DEF TypeOK
<1> QED BY <1>5, <1>7
        DEF TypeInv, IdleOutsideCalls, RecordsStay, CallsOf, Call

\* What changes on chain is who holds a node or the state of the multisig.
LEMMA MoveBecomes ==
  ASSUME TypeInv, (\E n \in Nodes : Move(n)) \/ Regroup
  PROVE  \E state \in ChainType : Becomes(state)
<1>1. Now \in ChainType
  BY NowTypes
<1>2. \A n \in Nodes, h \in Holders : [Now EXCEPT !.held[n] = h] \in ChainType
  BY <1>1 DEF ChainType
<1>3. \A team \in Teams : [Now EXCEPT !.team = team] \in ChainType
  BY <1>1 DEF ChainType
<1> QED BY <1>2, <1>3 DEF Move, Regroup

LEMMA CrashTypes ==
  ASSUME TypeInv, Crash
  PROVE  TypeInv'
<1>1. TypeOK
  BY DEF TypeInv
<1>2. /\ UNCHANGED <<docs, chain, script, arrived, since, contended>>
      /\ faults' \in 0..MaxFaults
  BY <1>1, FaultTypes DEF Crash, history, TypeOK
<1>3. "lost" \in CallPcs /\ "lost" \in RequestPcs /\ "none" \in EthAnswers
      /\ "none" \in DbAnswers /\ IdleCall.pc = "idle"
  BY Enumerated DEF IdleCall
<1>4. ASSUME NEW r \in Requests
      PROVE  /\ req'[r] \in RequestState
             /\ req'[r].pc \in {"idle", "save"} => req'[r] = req[r]
  <2>1. req[r] \in RequestState
    BY <1>1 DEF TypeOK
  <2>2. req'[r] = IF req[r].pc \in {"run", "fetch", "save"}
                  THEN [req[r] EXCEPT !.pc = "lost"] ELSE req[r]
    BY DEF Crash
  <2>3. /\ [req[r] EXCEPT !.pc = "lost"] \in RequestState
        /\ [req[r] EXCEPT !.pc = "lost"].pc = "lost"
    BY <1>3, <2>1 DEF RequestState
  <2> QED BY <2>1, <2>2, <2>3
<1>5. req' \in [Requests -> RequestState]
  BY <1>4 DEF Crash
<1>6. ASSUME NEW r \in Requests, NEW i \in Slots
      PROVE  /\ call'[r][i] \in CallState
             /\ call'[r][i].pc = "write" => call'[r][i] = call[r][i]
             /\ call[r][i] = IdleCall => call'[r][i] = IdleCall
  <2> DEFINE lost == [call[r][i] EXCEPT !.pc = "lost", !.eth = "none", !.db = "none"]
  <2>1. call[r][i] \in CallState
    BY <1>1 DEF TypeOK
  <2>2. call'[r][i] = IF call[r][i].pc = "idle" THEN call[r][i] ELSE lost
    BY DEF Crash
  <2>3. lost \in CallState /\ lost.pc = "lost"
    BY <1>3, <2>1 DEF CallState
  <2> QED BY <1>3, <2>1, <2>2, <2>3
<1>7. call' \in [Requests -> [Slots -> CallState]]
  BY <1>6 DEF Crash
<1>8. TypeOK'
  BY <1>1, <1>2, <1>5, <1>7 DEF TypeOK
<1>9. IdleOutsideCalls'
  BY <1>2, <1>4, <1>6 DEF IdleOutsideCalls, CallsOf, TypeInv
<1>10. RecordsStay'
  BY <1>2, <1>4, <1>6 DEF RecordsStay, Call, TypeInv
<1> QED BY <1>8, <1>9, <1>10 DEF TypeInv

LEMMA TypeStep == TypeInv /\ [Next]_vars => TypeInv'
<1> SUFFICES ASSUME TypeInv, [Next]_vars PROVE TypeInv'
  OBVIOUS
<1>1. ASSUME NEW r \in Requests, Arrive(r) PROVE TypeInv'
  BY <1>1, ArriveTypes
<1>2. ASSUME NEW r \in Requests, RequestStep(r) PROVE TypeInv'
  BY <1>2, RequestStepTypes
<1>3. ASSUME NEW r \in Requests, NEW i \in Slots, CallStep(r, i) PROVE TypeInv'
  BY <1>3, CallStepTypes
<1>4. CASE (\E n \in Nodes : Move(n)) \/ Regroup
  BY <1>4, MoveBecomes, BecomesTypes
<1>5. CASE Crash
  BY <1>5, CrashTypes
<1>6. CASE UNCHANGED vars
  BY <1>6 DEF vars, history, TypeInv, TypeOK, IdleOutsideCalls, RecordsStay,
              CallsOf, Call
<1> QED BY <1>1, <1>2, <1>3, <1>4, <1>5, <1>6 DEF Next

LEMMA TypeInvariance == Spec => []TypeInv
BY TypeInit, TypeStep, PTL DEF Spec

\* Every variable keeps its type; in particular the middleware and setText only
\* ever update a record that is there (mongo.ts:263, signer.ts:63).
THEOREM TypeCorrectness == Spec => []TypeOK
<1>1. TypeInv => TypeOK
  BY DEF TypeInv
<1> QED BY <1>1, TypeInvariance, PTL

-----------------------------------------------------------------------------
(* What one step of a call can do to it *)

EthPending == {"todo", "ownerOf", "legacy"}
DbPending == {"todo", "manager", "role"}

\* the answers of the verifiers, and what each of them was read from
AnswersFollow(r, i) ==
  LET c == call[r][i]  d == call'[r][i]  a == script[r].account
      held == Now.held[Call(r, i).node] IN
  /\ d.eth # c.eth =>
       /\ c.eth \in EthPending /\ d.eth # "todo"
       /\ d.eth = "ownerOf" => held.owner = Wrapper
       /\ d.eth = "yes" => \/ a \in {held.owner, held.legacy}
                           \/ c.eth = "ownerOf" /\ held.wrapped = a
  /\ d.db # c.db =>
       /\ c.db \in DbPending \cup {"save"}
       /\ d.db \in DbPending => c.db \in DbPending
       /\ d.db = "manager" => held.owner = Multisig
       /\ d.db = "role" => c.db = "manager" /\ d.members = Now.team.manager
       /\ d.db = "save" => held.owner = a
       /\ d.db = "yes" => \/ c.db = "save"
                          \/ c.db = "role" /\ a \in Now.team.roles[c.members]
  /\ d.db = c.db => d.members = c.members

\* the progress of a call: it is not written before it is authorized
WritesFollow(r, i) ==
  LET c == call[r][i]  d == call'[r][i]
      checked == Call(r, i).kind \in Verified IN
  /\ d.pc \in {"run", "write"} => c.pc \in {"run", "write"}
  /\ d.pc # c.pc /\ checked => c.eth \notin EthPending
  /\ d.pc = "write" /\ checked => c.pc = "write" \/ Authorized(c)
  /\ d.wrote # c.wrote /\ checked => c.db = "save" \/ c.pc = "write" \/ Authorized(c)
  /\ d.pc = "write" /\ Call(r, i).kind = "transfer"
       => \/ c.pc = "write" /\ d.owner = c.owner
          \/ d.owner = OnChainOwner(Now, Call(r, i).node)

\* a verified call that waits for its first write has its answers pending
ChecksPending ==
  \A r \in Requests, i \in Slots :
    /\ call[r][i].eth \in EthPending => /\ call[r][i].pc = "run"
                                        /\ Call(r, i).kind \in Verified
    /\ call[r][i].eth \in EthPending \/ call[r][i].db \in DbPending
         => script[r].chainOk

LEMMA FinishEffect ==
  ASSUME TypeInv, NEW r \in Requests, NEW i \in Slots, NEW c \in CallState,
         NEW status, NEW first, Finish(r, i, c, status, first)
  PROVE  /\ call'[r][i].pc = "done" /\ call'[r][i].eth = c.eth
         /\ call'[r][i].db = c.db /\ call'[r][i].wrote = c.wrote
         /\ call'[r][i].members = c.members
<1> DEFINE d == [c EXCEPT !.pc = "done", !.status = status, !.first = first,
                          !.hash = NoHash, !.owner = Multisig]
<1>1. call'[r][i] = d
  BY DEF Finish, TypeInv, TypeOK
<1>2. d.pc = "done" /\ d.eth = c.eth /\ d.db = c.db /\ d.wrote = c.wrote
      /\ d.members = c.members
  BY DEF CallState
<1> QED BY <1>1, <1>2

\* A call that ends changes neither answer, and has written if it says so.
LEMMA FinishFollows ==
  ASSUME TypeInv, NEW r \in Requests, NEW i \in Slots, NEW c \in CallState,
         NEW status, NEW first, Finish(r, i, c, status, first),
         c.eth = call[r][i].eth, c.db = call[r][i].db,
         c.members = call[r][i].members, call[r][i].pc \in {"run", "write"},
         Call(r, i).kind \in Verified =>
           /\ call[r][i].eth \notin EthPending
           /\ c.wrote # call[r][i].wrote
                => call[r][i].pc = "write" \/ Authorized(call[r][i])
  PROVE  AnswersFollow(r, i) /\ WritesFollow(r, i)
<1>1. /\ call'[r][i].pc = "done" /\ call'[r][i].eth = call[r][i].eth
      /\ call'[r][i].db = call[r][i].db /\ call'[r][i].wrote = c.wrote
      /\ call'[r][i].members = call[r][i].members
  BY FinishEffect
<1> QED BY <1>1 DEF AnswersFollow, WritesFollow

LEMMA EthFollows ==
  ASSUME TypeInv, NEW r \in Requests, NEW i \in Slots,
         EthOwner(r, i) \/ EthOwnerOf(r, i) \/ EthLegacyOwner(r, i)
  PROVE  AnswersFollow(r, i) /\ WritesFollow(r, i)
<1> DEFINE c == call[r][i]  d == call'[r][i]  a == script[r].account
           held == Now.held[Call(r, i).node]
<1>1. c \in CallState /\ call \in [Requests -> [Slots -> CallState]]
  BY DEF TypeInv, TypeOK
<1>2. PICK e : /\ EthGoes(r, i, e) /\ e # "todo" /\ c.eth \in EthPending
               /\ e = "ownerOf" => held.owner = Wrapper
               /\ e = "yes" => \/ a \in {held.owner, held.legacy}
                               \/ c.eth = "ownerOf" /\ held.wrapped = a
  <2>1. CASE EthOwner(r, i)
    BY <2>1 DEF EthOwner, OnChainOwner, EthPending
  <2>2. CASE EthOwnerOf(r, i)
    BY <2>2 DEF EthOwnerOf, EthPending
  <2>3. CASE EthLegacyOwner(r, i)
    BY <2>3 DEF EthLegacyOwner, EthPending
  <2> QED BY <2>1, <2>2, <2>3
<1>3. d = [c EXCEPT !.eth = e]
  BY <1>1, <1>2 DEF EthGoes
<1>4. d.eth = e /\ d.db = c.db /\ d.pc = c.pc /\ d.wrote = c.wrote
      /\ d.owner = c.owner /\ d.members = c.members
  BY <1>1, <1>3 DEF CallState
<1> QED BY <1>2, <1>4 DEF AnswersFollow, WritesFollow

LEMMA DbFollows ==
  ASSUME TypeInv, NEW r \in Requests, NEW i \in Slots,
         DbOwner(r, i) \/ DbManager(r, i) \/ DbRole(r, i)
  PROVE  AnswersFollow(r, i) /\ WritesFollow(r, i)
<1> DEFINE c == call[r][i]  d == call'[r][i]  a == script[r].account
           held == Now.held[Call(r, i).node]
<1>1. c \in CallState /\ call \in [Requests -> [Slots -> CallState]]
  BY DEF TypeInv, TypeOK
<1>2. ASSUME NEW b \in {"manager", "save", "yes", "no"}, DbGoes(r, i, b),
             c.db \in DbPending, b = c.db => FALSE,
             b = "manager" => held.owner = Multisig,
             b = "save" => held.owner = a,
             b = "yes" => c.db = "role" /\ a \in Now.team.roles[c.members]
      PROVE  AnswersFollow(r, i) /\ WritesFollow(r, i)
  <2>1. d = [c EXCEPT !.db = b]
    BY <1>1, <1>2 DEF DbGoes
  <2>2. d.db = b /\ d.eth = c.eth /\ d.pc = c.pc /\ d.wrote = c.wrote
        /\ d.owner = c.owner /\ d.members = c.members
    BY <1>1, <2>1 DEF CallState
  <2> QED BY <1>2, <2>2 DEF AnswersFollow, WritesFollow
<1>3. CASE DbOwner(r, i)
  <2>1. PICK b \in {"manager", "save", "no"} :
          /\ DbGoes(r, i, b) /\ c.db = "todo"
          /\ b = "manager" => held.owner = Multisig
          /\ b = "save" => held.owner = a
    BY <1>3 DEF DbOwner, OnChainOwner
  <2> QED BY <1>2, <2>1 DEF DbPending
<1>4. CASE DbManager(r, i)
  <2>1. CASE DbGoes(r, i, "no")
    BY <1>2, <1>4, <2>1 DEF DbManager, DbPending
  <2>2. CASE call' = [call EXCEPT ![r][i].db = "role",
                                  ![r][i].members = Now.team.manager]
    <3> DEFINE m == Now.team.manager
    <3>1. d = [c EXCEPT !.db = "role", !.members = m] /\ c.db = "manager"
      BY <1>1, <1>4, <2>2 DEF DbManager
    <3> HIDE DEF m
    <3>2. d.db = "role" /\ d.eth = c.eth /\ d.pc = c.pc /\ d.wrote = c.wrote
          /\ d.owner = c.owner /\ d.members = m
      BY <1>1, <3>1 DEF CallState
    <3> QED BY <3>1, <3>2 DEF AnswersFollow, WritesFollow, DbPending, m
  <2> QED BY <1>4, <2>1, <2>2 DEF DbManager
<1>5. CASE DbRole(r, i)
  <2>1. PICK b \in {"yes", "no"} :
          /\ DbGoes(r, i, b) /\ c.db = "role"
          /\ b = "yes" => a \in Now.team.roles[c.members]
    BY <1>5 DEF DbRole
  <2> QED BY <1>2, <2>1 DEF DbPending
<1> QED BY <1>3, <1>4, <1>5

LEMMA SyncFollows ==
  ASSUME TypeInv, NEW r \in Requests, NEW i \in Slots, SyncOwner(r, i)
  PROVE  AnswersFollow(r, i) /\ WritesFollow(r, i)
<1> DEFINE c == call[r][i]  d == call'[r][i]
           saved == [c EXCEPT !.wrote = @ \cup {"sync"}]
<1>1. c \in CallState /\ call \in [Requests -> [Slots -> CallState]]
  BY DEF TypeInv, TypeOK
<1>2. PICK b \in {"yes", "no"} :
        \/ call' = [call EXCEPT ![r][i] = [saved EXCEPT !.db = b]]
        \/ call' = [call EXCEPT ![r][i] = [c EXCEPT !.db = b]]
  BY DEF SyncOwner
<1>3. (d = [saved EXCEPT !.db = b] \/ d = [c EXCEPT !.db = b]) /\ c.db = "save"
  BY <1>1, <1>2 DEF SyncOwner
<1>4. d.db = b /\ d.eth = c.eth /\ d.pc = c.pc /\ d.owner = c.owner
      /\ d.members = c.members
  BY <1>1, <1>3 DEF CallState
<1> QED BY <1>2, <1>3, <1>4 DEF AnswersFollow, WritesFollow, DbPending

LEMMA SetFieldFollows ==
  ASSUME TypeInv, NEW r \in Requests, NEW i \in Slots, NEW n, NEW f, NEW v,
         SetField(r, i, call[r][i], n, f, v),
         call[r][i].pc \in {"run", "write"}, call[r][i].eth \notin EthPending,
         call[r][i].pc = "write" \/ Authorized(call[r][i])
  PROVE  AnswersFollow(r, i) /\ WritesFollow(r, i)
<1> DEFINE c == call[r][i]
           wrote == [c EXCEPT !.wrote =
                       @ \cup (IF Exists(docs, n) THEN {"own"} ELSE {})]
<1>1. c \in CallState
  BY DEF TypeInv, TypeOK
<1>2. wrote \in CallState /\ wrote.eth = c.eth /\ wrote.db = c.db
      /\ wrote.members = c.members
  BY <1>1 DEF CallState
<1>3. \/ Finish(r, i, wrote, 200, "0x")
      \/ Finish(r, i, wrote, 400, "other")
      \/ Finish(r, i, c, 400, "other")
  BY DEF SetField
<1> HIDE DEF wrote
<1>4. CASE Finish(r, i, wrote, 200, "0x")
  BY <1>2, <1>4, FinishFollows, Zenon
<1>5. CASE Finish(r, i, wrote, 400, "other")
  BY <1>2, <1>5, FinishFollows, Zenon
<1>6. CASE Finish(r, i, c, 400, "other")
  BY <1>1, <1>6, FinishFollows, Zenon
<1> QED BY <1>3, <1>4, <1>5, <1>6

LEMMA CallStepFollows ==
  ASSUME TypeInv, ChecksPending, NEW r \in Requests, NEW i \in Slots, CallStep(r, i)
  PROVE  AnswersFollow(r, i) /\ WritesFollow(r, i)
<1> DEFINE c == call[r][i]  d == call'[r][i]  kind == Call(r, i).kind
           wrote == [c EXCEPT !.wrote = @ \cup {"own"}]
<1>1. /\ c \in CallState /\ call \in [Requests -> [Slots -> CallState]]
  BY DEF TypeInv, TypeOK
<1>2. wrote \in CallState /\ wrote.eth = c.eth /\ wrote.db = c.db
      /\ wrote.members = c.members
  BY <1>1 DEF CallState
<1>3. c.pc = "write" => c.eth \notin EthPending
  BY DEF ChecksPending
<1>4. ASSUME Authorized(c) PROVE c.eth \notin EthPending
  BY <1>4 DEF Authorized, Settled, EthPending
<1>5. CASE VerifierStep(r, i) \/ SyncOwner(r, i)
  BY <1>5, EthFollows, DbFollows, SyncFollows DEF VerifierStep
<1>6. CASE Reject(r, i)
  <2>1. PICK s \in {400, 401} : Finish(r, i, c, s, "other")
    BY <1>6 DEF Reject
  <2>2. c.pc = "run" /\ c.eth \notin EthPending
    BY <1>4, <1>6 DEF Reject, VerifyFailed, Settled, EthPending
  <2> QED BY <1>1, <2>1, <2>2, FinishFollows
<1>7. CASE ReadRecord(r, i)
  <2>1. c.pc = "run" /\ kind = "setText" /\ Authorized(c)
    BY <1>7 DEF ReadRecord, Running
  <2>2. CASE Finish(r, i, c, 400, "other")
    BY <1>1, <1>4, <2>1, <2>2, FinishFollows
  <2>3. ASSUME NEW h, call' = [call EXCEPT ![r][i].pc = "write", ![r][i].hash = h]
        PROVE  AnswersFollow(r, i) /\ WritesFollow(r, i)
    <3>1. d = [c EXCEPT !.pc = "write", !.hash = h]
      BY <1>1, <2>3
    <3>2. d.pc = "write" /\ d.eth = c.eth /\ d.db = c.db /\ d.wrote = c.wrote
          /\ d.members = c.members
      BY <1>1, <3>1 DEF CallState
    <3> QED BY <1>4, <2>1, <3>2 DEF AnswersFollow, WritesFollow
  <2> QED BY <1>7, <2>2, <2>3 DEF ReadRecord
<1>8. CASE WriteText(r, i)
  <2>1. \/ Finish(r, i, wrote, 200, Call(r, i).node)
        \/ Finish(r, i, wrote, 400, "other")
        \/ Finish(r, i, c, 400, "other")
    BY <1>8 DEF WriteText
  <2>2. c.pc = "write"
    BY <1>8 DEF WriteText, Writing
  <2>3. ASSUME NEW s, NEW w, Finish(r, i, wrote, s, w)
        PROVE  AnswersFollow(r, i) /\ WritesFollow(r, i)
    BY <1>2, <1>3, <2>2, <2>3, FinishFollows
  <2>4. CASE Finish(r, i, c, 400, "other")
    BY <1>1, <1>3, <2>2, <2>4, FinishFollows
  <2> QED BY <2>1, <2>3, <2>4
<1>9. CASE WriteField(r, i)
  <2>1. c.pc = "run" /\ Authorized(c)
    BY <1>9 DEF WriteField, Running
  <2>2. SetField(r, i, c, Call(r, i).node, Call(r, i).field, Call(r, i).value)
    BY <1>9 DEF WriteField
  <2> QED BY <1>4, <2>1, <2>2, SetFieldFollows
<1>10. CASE ReadOwner(r, i)
  <2>1. c.pc = "run" /\ Authorized(c)
    BY <1>10 DEF ReadOwner, Running
  <2>2. CASE Finish(r, i, c, 400, "other")
    BY <1>1, <1>4, <2>1, <2>2, FinishFollows
  <2>3. CASE call' = [call EXCEPT ![r][i].pc = "write",
                        ![r][i].owner = OnChainOwner(Now, Call(r, i).node)]
    <3> DEFINE o == OnChainOwner(Now, Call(r, i).node)
    <3>1. d = [c EXCEPT !.pc = "write", !.owner = o]
      BY <1>1, <2>3
    <3>2. d.pc = "write" /\ d.eth = c.eth /\ d.db = c.db /\ d.wrote = c.wrote
          /\ d.owner = o /\ d.members = c.members
      BY <1>1, <3>1 DEF CallState
    <3> QED BY <1>4, <2>1, <3>2 DEF AnswersFollow, WritesFollow
  <2> QED BY <1>10, <2>2, <2>3 DEF ReadOwner
<1>11. CASE WriteOwner(r, i)
  <2>1. c.pc = "write"
    BY <1>11 DEF WriteOwner, Writing
  <2>2. SetField(r, i, c, Call(r, i).node, "owner", c.owner)
    BY <1>11 DEF WriteOwner
  <2> QED BY <1>3, <2>1, <2>2, SetFieldFollows
<1>12. CASE SetNothing(r, i)
  <2>1. c.pc = "run" /\ Authorized(c) /\ Finish(r, i, c, 200, "0x")
    BY <1>12 DEF SetNothing, Running
  <2> QED BY <1>1, <1>4, <2>1, FinishFollows
<1>13. CASE ReadLEI(r, i)
  <2>1. c.pc = "run" /\ kind \notin Verified /\ kind # "transfer"
    BY <1>13 DEF ReadLEI, Running, Verified
  <2>2. CASE Finish(r, i, c, 400, "other")
    BY <1>1, <2>1, <2>2, FinishFollows
  <2>3. CASE call' = [call EXCEPT ![r][i].pc = "write"]
    <3>1. d = [c EXCEPT !.pc = "write"]
      BY <1>1, <2>3
    <3>2. d.pc = "write" /\ d.eth = c.eth /\ d.db = c.db /\ d.wrote = c.wrote
          /\ d.members = c.members
      BY <1>1, <3>1 DEF CallState
    <3> QED BY <2>1, <3>2 DEF AnswersFollow, WritesFollow
  <2> QED BY <1>13, <2>2, <2>3 DEF ReadLEI
<1>14. CASE CreateEntity(r, i)
  <2>1. c.pc = "write" /\ kind \notin Verified
    BY <1>14 DEF CreateEntity, Writing, Verified
  <2>2. \/ Finish(r, i, wrote, 200, "other")
        \/ Finish(r, i, wrote, 400, "other")
        \/ Finish(r, i, c, 400, "other")
    BY <1>14 DEF CreateEntity
  <2>3. ASSUME NEW s, Finish(r, i, wrote, s, "other")
        PROVE  AnswersFollow(r, i) /\ WritesFollow(r, i)
    BY <1>2, <2>1, <2>3, FinishFollows
  <2>4. CASE Finish(r, i, c, 400, "other")
    BY <1>1, <2>1, <2>4, FinishFollows
  <2> QED BY <2>2, <2>3, <2>4
<1>15. CASE Read(r, i)
  <2>1. PICK s \in {200, 500}, w \in {"0x", "other"} : Finish(r, i, c, s, w)
    BY <1>15 DEF Read
  <2>2. c.pc = "run" /\ kind \notin Verified
    BY <1>15 DEF Read, Running, Reads, Verified
  <2> QED BY <1>1, <2>1, <2>2, FinishFollows
<1> QED BY <1>5, <1>6, <1>7, <1>8, <1>9, <1>10, <1>11, <1>12, <1>13, <1>14,
           <1>15 DEF CallStep, VerifierStep

-----------------------------------------------------------------------------
(* Writes are entitled *)

\* the registry has named o as the owner of the node since the request arrived
HadOwner(r, i, o) ==
  \E k \in arrived[r]..Len(chain) : chain[k].held[Call(r, i).node].owner = o

\* ... and then the multisig m as its member contract
HadMembers(r, i, m) ==
  \E k \in arrived[r]..Len(chain) :
    /\ chain[k].held[Call(r, i).node].owner = Multisig
    /\ \E l \in k..Len(chain) : chain[l].team.manager = m

\* What a verifier remembers was true when it was read, and who got a positive
\* answer, or has gone on to write, is entitled.
AnswersAreTrue ==
  \A r \in Requests, i \in Slots :
    LET c == call[r][i] IN
    /\ c.eth = "ownerOf" => HadOwner(r, i, Wrapper)
    /\ c.db = "manager" => HadOwner(r, i, Multisig)
    /\ c.db = "role" => HadMembers(r, i, c.members)
    /\ \/ c.eth = "yes" \/ c.db \in {"save", "yes"}
       \/ Call(r, i).kind \in Verified /\ c.pc = "write"
       => Entitled(r, i)

Entitlement == ChecksPending /\ AnswersAreTrue

LEMMA EntitlementInit == Init => Entitlement
<1> SUFFICES ASSUME Init PROVE Entitlement
  OBVIOUS
<1>1. \A r \in Requests, i \in Slots : call[r][i] = IdleCall
  BY DEF Init
<1>2. IdleCall.eth = "none" /\ IdleCall.db = "none" /\ IdleCall.pc = "idle"
  BY DEF IdleCall
<1> QED BY <1>1, <1>2
        DEF Entitlement, ChecksPending, AnswersAreTrue, EthPending, DbPending

\* The span of a request includes the present.
LEMMA Spans ==
  ASSUME TypeInv, NEW r \in Requests
  PROVE  /\ arrived[r] \in Nat /\ Len(chain) \in arrived[r]..Len(chain)
         /\ \A k \in arrived[r]..Len(chain) : Len(chain) \in k..Len(chain)
         /\ Now = chain[Len(chain)]
BY DEF TypeInv, TypeOK, Now

\* What the answers of a step make of what was true before it.
LEMMA AnswersEntitle ==
  ASSUME TypeInv, Entitlement, NEW r \in Requests, NEW i \in Slots,
         AnswersFollow(r, i)
  PROVE  LET d == call'[r][i] IN
         /\ d.eth = "ownerOf" => HadOwner(r, i, Wrapper)
         /\ d.db = "manager" => HadOwner(r, i, Multisig)
         /\ d.db = "role" => HadMembers(r, i, d.members)
         /\ d.eth = "yes" \/ d.db \in {"save", "yes"} => Entitled(r, i)
<1> DEFINE c == call[r][i]  d == call'[r][i]  a == script[r].account
           held(k) == chain[k].held[Call(r, i).node]  here == Len(chain)
<1>1. /\ here \in arrived[r]..Len(chain) /\ Now = chain[here]
      /\ \A k \in arrived[r]..Len(chain) : here \in k..Len(chain)
      /\ here \in here..Len(chain)
  BY Spans
<1>2. /\ c.eth = "ownerOf" => HadOwner(r, i, Wrapper)
      /\ c.db = "manager" => HadOwner(r, i, Multisig)
      /\ c.db = "role" => HadMembers(r, i, c.members)
      /\ c.eth = "yes" \/ c.db \in {"save", "yes"} => Entitled(r, i)
      /\ c.eth \in EthPending \/ c.db \in DbPending => script[r].chainOk
  BY DEF Entitlement, AnswersAreTrue, ChecksPending
<1>3. \A o : held(here).owner = o => HadOwner(r, i, o)
  BY <1>1 DEF HadOwner
<1>4. d.eth = "ownerOf" => HadOwner(r, i, Wrapper)
  BY <1>1, <1>2, <1>3 DEF AnswersFollow
<1>5. d.db = "manager" => HadOwner(r, i, Multisig)
  BY <1>1, <1>2, <1>3 DEF AnswersFollow
<1>6. ASSUME d.db = "role" PROVE HadMembers(r, i, d.members)
  <2>1. CASE d.db = c.db
    BY <1>2, <1>6, <2>1 DEF AnswersFollow
  <2>2. CASE d.db # c.db
    <3>1. HadOwner(r, i, Multisig) /\ d.members = chain[here].team.manager
      BY <1>1, <1>2, <1>6, <2>2 DEF AnswersFollow
    <3> QED BY <1>1, <3>1 DEF HadOwner, HadMembers
  <2> QED BY <2>1, <2>2
<1>7. ASSUME script[r].chainOk, a \in {held(here).owner, held(here).legacy}
      PROVE  Entitled(r, i)
  BY <1>1, <1>7 DEF Entitled
<1>8. ASSUME d.eth = "yes" PROVE Entitled(r, i)
  <2>1. CASE d.eth = c.eth
    BY <1>2, <1>8, <2>1
  <2>2. CASE d.eth # c.eth
    <3>1. /\ script[r].chainOk
          /\ \/ a \in {held(here).owner, held(here).legacy}
             \/ c.eth = "ownerOf" /\ held(here).wrapped = a
      BY <1>1, <1>2, <1>8, <2>2 DEF AnswersFollow
    <3>2. CASE c.eth = "ownerOf" /\ held(here).wrapped = a
      <4>1. PICK k \in arrived[r]..Len(chain) : held(k).owner = Wrapper
        BY <1>2, <3>2 DEF HadOwner
      <4>2. here \in k..Len(chain)
        BY <1>1
      <4> QED BY <3>1, <3>2, <4>1, <4>2 DEF Entitled
    <3> QED BY <1>7, <3>1, <3>2
  <2> QED BY <2>1, <2>2
<1>9. ASSUME d.db \in {"save", "yes"} PROVE Entitled(r, i)
  <2>1. CASE d.db = c.db \/ c.db = "save"
    BY <1>2, <1>9, <2>1
  <2>2. CASE d.db # c.db /\ c.db # "save"
    <3>1. /\ script[r].chainOk
          /\ \/ a = held(here).owner
             \/ c.db = "role" /\ a \in chain[here].team.roles[c.members]
      BY <1>1, <1>2, <1>9, <2>2 DEF AnswersFollow
    <3>2. CASE c.db = "role" /\ a \in chain[here].team.roles[c.members]
      <4>1. PICK k \in arrived[r]..Len(chain) :
              /\ held(k).owner = Multisig
              /\ \E l \in k..Len(chain) : chain[l].team.manager = c.members
        BY <1>2, <3>2 DEF HadMembers
      <4>2. PICK l \in k..Len(chain) : chain[l].team.manager = c.members
        BY <4>1
      <4>3. here \in l..Len(chain)
        BY <4>2, Spans
      <4>4. a \in chain[here].team.roles[chain[l].team.manager]
        BY <3>2, <4>2
      <4> QED BY <3>1, <4>1, <4>3, <4>4 DEF Entitled
    <3> QED BY <1>7, <3>1, <3>2
  <2> QED BY <2>1, <2>2
<1> QED BY <1>4, <1>5, <1>6, <1>8, <1>9

LEMMA EntitlementCallStep ==
  ASSUME TypeInv, Entitlement, NEW r \in Requests, NEW i \in Slots, CallStep(r, i)
  PROVE  Entitlement'
<1> DEFINE c == call[r][i]  d == call'[r][i]
<1>1. AnswersFollow(r, i) /\ WritesFollow(r, i)
  BY CallStepFollows DEF Entitlement
<1>2. UNCHANGED <<chain, script, req, arrived>>
  BY CallStepShape DEF OneCall
<1>3. \A q \in Requests, j \in Slots :
        (q # r \/ j # i) => call'[q][j] = call[q][j]
  BY CallStepShape DEF OneCall, TypeInv, TypeOK
<1>4. /\ d.eth \in EthPending => /\ c.eth \in EthPending /\ d.pc = "run"
                                 /\ Call(r, i).kind \in Verified
      /\ d.db \in DbPending => c.db \in DbPending
  BY <1>1 DEF AnswersFollow, WritesFollow, Entitlement, ChecksPending, DbPending
<1>5. ChecksPending'
  BY <1>2, <1>3, <1>4 DEF Entitlement, ChecksPending, Call
<1>6. \A q, j : /\ Entitled(q, j)' = Entitled(q, j) /\ Call(q, j)' = Call(q, j)
                /\ \A o : HadOwner(q, j, o)' = HadOwner(q, j, o)
  BY <1>2 DEF Entitled, HadOwner, Call
<1>7. \A q, j : HadMembers(q, j, call'[q][j].members) = HadMembers(q, j, call[q][j].members)'
  BY <1>2 DEF HadMembers, Call
<1>8. /\ d.eth = "ownerOf" => HadOwner(r, i, Wrapper)
      /\ d.db = "manager" => HadOwner(r, i, Multisig)
      /\ d.db = "role" => HadMembers(r, i, d.members)
      /\ d.eth = "yes" \/ d.db \in {"save", "yes"} => Entitled(r, i)
  BY <1>1, AnswersEntitle
<1>9. ASSUME Call(r, i).kind \in Verified, d.pc = "write"
      PROVE  Entitled(r, i)
  BY <1>1, <1>9 DEF WritesFollow, Authorized, Entitlement, AnswersAreTrue
<1>10. AnswersAreTrue'
  <2>1. ASSUME NEW q \in Requests, NEW j \in Slots
        PROVE  /\ call'[q][j].eth = "ownerOf" => HadOwner(q, j, Wrapper)
               /\ call'[q][j].db = "manager" => HadOwner(q, j, Multisig)
               /\ call'[q][j].db = "role" => HadMembers(q, j, call'[q][j].members)
               /\ \/ call'[q][j].eth = "yes" \/ call'[q][j].db \in {"save", "yes"}
                  \/ Call(q, j).kind \in Verified /\ call'[q][j].pc = "write"
                  => Entitled(q, j)
    <3>1. CASE q = r /\ j = i
      BY <1>8, <1>9, <3>1
    <3>2. CASE q # r \/ j # i
      <4>1. call'[q][j] = call[q][j]
        BY <1>3, <3>2
      <4> QED BY <4>1 DEF Entitlement, AnswersAreTrue
    <3> QED BY <3>1, <3>2
  <2> QED BY <1>6, <1>7, <2>1 DEF AnswersAreTrue
<1> QED BY <1>5, <1>10 DEF Entitlement

\* What was true of a request stays true as the chain grows.
LEMMA EntitledStays ==
  ASSUME TypeInv, NEW r \in Requests, NEW i \in Slots,
         script'[r] = script[r], arrived'[r] = arrived[r],
         Len(chain) <= Len(chain'), Len(chain') \in Nat,
         \A k \in 1..Len(chain) : chain'[k] = chain[k]
  PROVE  /\ Entitled(r, i) => Entitled(r, i)'
         /\ \A o : HadOwner(r, i, o) => HadOwner(r, i, o)'
         /\ \A m : HadMembers(r, i, m) =>
              \E k \in arrived'[r]..Len(chain') :
                /\ chain'[k].held[Call(r, i)'.node].owner = Multisig
                /\ \E l \in k..Len(chain') : chain'[l].team.manager = m
<1> DEFINE node == Call(r, i).node
<1>1. /\ arrived[r] \in 1..Len(chain) /\ Len(chain) \in Nat
      /\ Call(r, i)' = Call(r, i)
  BY ChainTypes DEF TypeInv, TypeOK, Call
<1>2. \A k \in arrived[r]..Len(chain) :
        /\ k \in arrived'[r]..Len(chain') /\ chain'[k] = chain[k]
        /\ \A l \in k..Len(chain) :
             /\ l \in k..Len(chain') /\ chain'[l] = chain[l]
             /\ \A m \in l..Len(chain) : m \in l..Len(chain') /\ chain'[m] = chain[m]
  BY <1>1
<1>3. \A o : HadOwner(r, i, o) => HadOwner(r, i, o)'
  BY <1>1, <1>2 DEF HadOwner
<1>4. ASSUME NEW m, HadMembers(r, i, m)
      PROVE  \E k \in arrived'[r]..Len(chain') :
               /\ chain'[k].held[Call(r, i)'.node].owner = Multisig
               /\ \E l \in k..Len(chain') : chain'[l].team.manager = m
  BY <1>1, <1>2, <1>4 DEF HadMembers
<1>5. ASSUME Entitled(r, i) PROVE Entitled(r, i)'
  <2> DEFINE a == script[r].account
             held(k) == chain[k].held[node]
             now(k) == chain'[k].held[node]
  <2>1. PICK k \in arrived[r]..Len(chain) :
          \/ a \in {held(k).owner, held(k).legacy}
          \/ /\ held(k).owner = Wrapper
             /\ \E l \in k..Len(chain) : held(l).wrapped = a
          \/ /\ held(k).owner = Multisig
             /\ \E l \in k..Len(chain) : \E m \in l..Len(chain) :
                  a \in chain[m].team.roles[chain[l].team.manager]
    BY <1>5 DEF Entitled
  <2>2. k \in arrived'[r]..Len(chain') /\ now(k) = held(k) /\ script[r].chainOk
    BY <1>2, <1>5 DEF Entitled
  <2>3. (\E l \in k..Len(chain) : held(l).wrapped = a)
          => \E l \in k..Len(chain') : now(l).wrapped = a
    BY <1>2
  <2>4. (\E l \in k..Len(chain) : \E m \in l..Len(chain) :
           a \in chain[m].team.roles[chain[l].team.manager])
          => \E l \in k..Len(chain') : \E m \in l..Len(chain') :
               a \in chain'[m].team.roles[chain'[l].team.manager]
    BY <1>2
  <2>5. \/ a \in {now(k).owner, now(k).legacy}
        \/ /\ now(k).owner = Wrapper
           /\ \E l \in k..Len(chain') : now(l).wrapped = a
        \/ /\ now(k).owner = Multisig
           /\ \E l \in k..Len(chain') : \E m \in l..Len(chain') :
                a \in chain'[m].team.roles[chain'[l].team.manager]
    BY <2>1, <2>2, <2>3, <2>4
  <2> QED BY <1>1, <2>2, <2>5 DEF Entitled
<1> QED BY <1>3, <1>4, <1>5

LEMMA EntitlementArrive ==
  ASSUME TypeInv, Entitlement, NEW r \in Requests, Arrive(r)
  PROVE  Entitlement'
<1>1. PICK s \in Scripts :
        /\ script' = [script EXCEPT ![r] = s]
        /\ call' = [call EXCEPT ![r] = [i \in Slots |-> StartOf(s, i)]]
        /\ arrived' = [arrived EXCEPT ![r] = Len(chain)]
        /\ chain' = chain
  BY DEF Arrive, store
<1>2. ASSUME NEW q \in Requests, q # r
      PROVE  script'[q] = script[q] /\ call'[q] = call[q] /\ arrived'[q] = arrived[q]
  BY <1>1, <1>2 DEF TypeInv, TypeOK
<1>3. script'[r] = s /\ \A i \in Slots : call'[r][i] = StartOf(s, i)
  BY <1>1 DEF TypeInv, TypeOK
<1>4. ASSUME NEW i \in Slots
      PROVE  /\ StartOf(s, i).eth \in {"none", "todo", "no"}
             /\ StartOf(s, i).db \in {"none", "todo", "no"}
             /\ StartOf(s, i).pc \in {"idle", "run"}
             /\ StartOf(s, i).eth = "todo" =>
                  /\ s.chainOk /\ StartOf(s, i).pc = "run"
                  /\ s.calls[i].kind \in Verified
             /\ StartOf(s, i).db = "todo" => s.chainOk
  BY DEF StartOf, IdleCall
<1>5. ChecksPending'
  <2>1. ASSUME NEW q \in Requests, NEW j \in Slots
        PROVE  /\ call'[q][j].eth \in EthPending =>
                    /\ call'[q][j].pc = "run"
                    /\ script'[q].calls[j].kind \in Verified
               /\ call'[q][j].eth \in EthPending \/ call'[q][j].db \in DbPending
                    => script'[q].chainOk
    <3>1. CASE q = r
      BY <1>3, <1>4, <3>1 DEF EthPending, DbPending
    <3>2. CASE q # r
      BY <1>2, <3>2 DEF Entitlement, ChecksPending, Call
    <3> QED BY <3>1, <3>2
  <2> QED BY <2>1 DEF ChecksPending, Call
<1>6. AnswersAreTrue'
  <2>1. ASSUME NEW q \in Requests, NEW j \in Slots, q # r
        PROVE  /\ Entitled(q, j)' = Entitled(q, j) /\ Call(q, j)' = Call(q, j)
               /\ \A o : HadOwner(q, j, o)' = HadOwner(q, j, o)
               /\ HadMembers(q, j, call[q][j].members)' = HadMembers(q, j, call[q][j].members)
    <3>1. /\ chain' = chain /\ script'[q] = script[q] /\ arrived'[q] = arrived[q]
          /\ call'[q] = call[q]
      BY <1>1, <1>2, <2>1
    <3>2. Call(q, j)' = Call(q, j)
      BY <3>1 DEF Call
    <3>3. Entitled(q, j)' = Entitled(q, j)
      BY <3>1, <3>2 DEF Entitled
    <3>4. \A o : HadOwner(q, j, o)' = HadOwner(q, j, o)
      BY <3>1, <3>2 DEF HadOwner
    <3>5. HadMembers(q, j, call[q][j].members)' = HadMembers(q, j, call[q][j].members)
      BY <3>1, <3>2 DEF HadMembers
    <3> QED BY <3>2, <3>3, <3>4, <3>5
  <2>2. ASSUME NEW q \in Requests, NEW j \in Slots
        PROVE  /\ call'[q][j].eth = "ownerOf" => HadOwner(q, j, Wrapper)'
               /\ call'[q][j].db = "manager" => HadOwner(q, j, Multisig)'
               /\ call'[q][j].db = "role" => HadMembers(q, j, call[q][j].members)'
               /\ \/ call'[q][j].eth = "yes" \/ call'[q][j].db \in {"save", "yes"}
                  \/ Call(q, j)'.kind \in Verified /\ call'[q][j].pc = "write"
                  => Entitled(q, j)'
    <3>1. CASE q = r
      BY <1>3, <1>4, <3>1
    <3>2. CASE q # r
      <4>1. call'[q][j] = call[q][j]
        BY <1>2, <3>2
      <4> QED BY <2>1, <3>2, <4>1 DEF Entitlement, AnswersAreTrue
    <3> QED BY <3>1, <3>2
  <2> QED BY <2>2 DEF AnswersAreTrue
<1> QED BY <1>5, <1>6 DEF Entitlement

LEMMA EntitlementBecomes ==
  ASSUME TypeInv, Entitlement, NEW state \in ChainType, Becomes(state)
  PROVE  Entitlement'
<1>1. UNCHANGED <<script, call, arrived>>
  BY DEF Becomes, history
<1>2. /\ Len(chain) <= Len(chain') /\ Len(chain') \in Nat
      /\ \A k \in 1..Len(chain) : chain'[k] = chain[k]
  BY ChainGrows, ChainTypes DEF Becomes, TypeInv
<1>3. ChecksPending'
  BY <1>1 DEF Entitlement, ChecksPending, Call
<1>4. ASSUME NEW r \in Requests, NEW i \in Slots
      PROVE  LET c == call[r][i] IN
             /\ c.eth = "ownerOf" => HadOwner(r, i, Wrapper)'
             /\ c.db = "manager" => HadOwner(r, i, Multisig)'
             /\ c.db = "role" => HadMembers(r, i, call[r][i].members)'
             /\ \/ c.eth = "yes" \/ c.db \in {"save", "yes"}
                \/ Call(r, i)'.kind \in Verified /\ c.pc = "write"
                => Entitled(r, i)'
  <2>1. /\ Entitled(r, i) => Entitled(r, i)'
        /\ \A o : HadOwner(r, i, o) => HadOwner(r, i, o)'
        /\ \A m : HadMembers(r, i, m) =>
             \E k \in arrived'[r]..Len(chain') :
               /\ chain'[k].held[Call(r, i)'.node].owner = Multisig
               /\ \E l \in k..Len(chain') : chain'[l].team.manager = m
    BY <1>1, <1>2, EntitledStays
  <2>2. HadMembers(r, i, call[r][i].members) => HadMembers(r, i, call[r][i].members)'
    BY <1>1, <2>1 DEF HadMembers
  <2>3. Call(r, i)' = Call(r, i)
    BY <1>1 DEF Call
  <2> QED BY <2>1, <2>2, <2>3 DEF Entitlement, AnswersAreTrue
<1>5. AnswersAreTrue'
  BY <1>1, <1>4 DEF AnswersAreTrue
<1> QED BY <1>3, <1>5 DEF Entitlement

LEMMA EntitlementCrash ==
  ASSUME TypeInv, Entitlement, Crash
  PROVE  Entitlement'
<1>1. UNCHANGED <<script, chain, arrived>>
  BY DEF Crash, history
<1>2. ASSUME NEW r \in Requests, NEW i \in Slots
      PROVE  \/ call'[r][i] = call[r][i]
             \/ /\ call'[r][i].pc = "lost" /\ call'[r][i].eth = "none"
                /\ call'[r][i].db = "none"
  <2>1. call[r][i] \in CallState
    BY DEF TypeInv, TypeOK
  <2>2. \/ call'[r][i] = call[r][i]
        \/ call'[r][i] = [call[r][i] EXCEPT !.pc = "lost", !.eth = "none",
                                            !.db = "none"]
    BY DEF Crash
  <2> QED BY <2>1, <2>2 DEF CallState
<1>3. ChecksPending'
  BY <1>1, <1>2 DEF Entitlement, ChecksPending, Call, EthPending, DbPending
<1>4. \A r, i : /\ Entitled(r, i)' = Entitled(r, i) /\ Call(r, i)' = Call(r, i)
                /\ \A o : HadOwner(r, i, o)' = HadOwner(r, i, o)
  BY <1>1 DEF Entitled, HadOwner, Call
<1>5. \A r, i : HadMembers(r, i, call'[r][i].members) = HadMembers(r, i, call[r][i].members)'
  BY <1>1 DEF HadMembers, Call
<1>6. AnswersAreTrue'
  <2>1. ASSUME NEW r \in Requests, NEW i \in Slots
        PROVE  LET d == call'[r][i] IN
               /\ d.eth = "ownerOf" => HadOwner(r, i, Wrapper)
               /\ d.db = "manager" => HadOwner(r, i, Multisig)
               /\ d.db = "role" => HadMembers(r, i, d.members)
               /\ \/ d.eth = "yes" \/ d.db \in {"save", "yes"}
                  \/ Call(r, i).kind \in Verified /\ d.pc = "write"
                  => Entitled(r, i)
    <3>1. CASE call'[r][i] = call[r][i]
      BY <3>1 DEF Entitlement, AnswersAreTrue
    <3>2. CASE /\ call'[r][i].pc = "lost" /\ call'[r][i].eth = "none"
               /\ call'[r][i].db = "none"
      BY <3>2
    <3> QED BY <1>2, <3>1, <3>2
  <2> QED BY <1>4, <1>5, <2>1 DEF AnswersAreTrue
<1> QED BY <1>3, <1>6 DEF Entitlement

LEMMA EntitlementSame ==
  ASSUME Entitlement, UNCHANGED <<chain, script, call, arrived>>
  PROVE  Entitlement'
<1>1. ChecksPending'
  BY DEF Entitlement, ChecksPending, Call
<1>2. \A r, i : /\ Entitled(r, i)' = Entitled(r, i) /\ Call(r, i)' = Call(r, i)
                /\ \A o : HadOwner(r, i, o)' = HadOwner(r, i, o)
                /\ HadMembers(r, i, call[r][i].members)' = HadMembers(r, i, call[r][i].members)
  BY DEF Entitled, HadOwner, HadMembers, Call
<1>3. AnswersAreTrue'
  BY <1>2 DEF Entitlement, AnswersAreTrue
<1> QED BY <1>1, <1>3 DEF Entitlement

LEMMA EntitlementStep == TypeInv /\ Entitlement /\ [Next]_vars => Entitlement'
<1> SUFFICES ASSUME TypeInv, Entitlement, [Next]_vars PROVE Entitlement'
  OBVIOUS
<1>1. ASSUME NEW r \in Requests, Arrive(r) PROVE Entitlement'
  BY <1>1, EntitlementArrive
<1>2. ASSUME NEW r \in Requests, RequestStep(r) PROVE Entitlement'
  BY <1>2, RequestStepShape, EntitlementSame DEF history
<1>3. ASSUME NEW r \in Requests, NEW i \in Slots, CallStep(r, i) PROVE Entitlement'
  BY <1>3, EntitlementCallStep
<1>4. CASE (\E n \in Nodes : Move(n)) \/ Regroup
  BY <1>4, MoveBecomes, EntitlementBecomes
<1>5. CASE Crash
  BY <1>5, EntitlementCrash
<1>6. CASE UNCHANGED vars
  BY <1>6, EntitlementSame DEF vars, history
<1> QED BY <1>1, <1>2, <1>3, <1>4, <1>5, <1>6 DEF Next

LEMMA EntitlementInvariance == Spec => [](TypeInv /\ Entitlement)
<1>1. Init => TypeInv /\ Entitlement
  BY TypeInit, EntitlementInit
<1>2. TypeInv /\ Entitlement /\ [Next]_vars => (TypeInv /\ Entitlement)'
  BY TypeStep, EntitlementStep
<1> QED BY <1>1, <1>2, PTL DEF Spec

\* Only a step of a call changes what it has written.
LEMMA WroteSteps ==
  ASSUME TypeInv, [Next]_vars, NEW r \in Requests, NEW i \in Slots,
         call'[r][i].wrote # call[r][i].wrote
  PROVE  CallStep(r, i)
<1>1. ASSUME NEW q \in Requests, Arrive(q) PROVE FALSE
  <2>1. q = r
    BY <1>1 DEF Arrive, TypeInv, TypeOK
  <2>2. PICK s \in Scripts : call'[r][i] = StartOf(s, i)
    BY <1>1, <2>1 DEF Arrive, TypeInv, TypeOK
  <2>3. StartOf(s, i).wrote = {} /\ IdleCall.wrote = {}
    BY DEF StartOf, IdleCall
  <2>4. call[r][i] = IdleCall
    BY <1>1, <2>1 DEF Arrive, TypeInv, IdleOutsideCalls
  <2> QED BY <2>2, <2>3, <2>4
<1>2. ASSUME NEW q \in Requests, RequestStep(q) PROVE FALSE
  BY <1>2, RequestStepShape
<1>3. ASSUME NEW q \in Requests, NEW j \in Slots, CallStep(q, j) PROVE CallStep(r, i)
  <2>1. q = r /\ j = i
    BY <1>3, CallStepShape DEF OneCall, TypeInv, TypeOK
  <2> QED BY <1>3, <2>1
<1>4. CASE (\E n \in Nodes : Move(n)) \/ Regroup
  BY <1>4, MoveBecomes DEF Becomes
<1>5. CASE Crash
  <2>1. call[r][i] \in CallState
    BY DEF TypeInv, TypeOK
  <2>2. \/ call'[r][i] = call[r][i]
        \/ call'[r][i] = [call[r][i] EXCEPT !.pc = "lost", !.eth = "none",
                                            !.db = "none"]
    BY <1>5 DEF Crash
  <2> QED BY <2>1, <2>2 DEF CallState
<1>6. CASE UNCHANGED vars
  BY <1>6 DEF vars
<1> QED BY <1>1, <1>2, <1>3, <1>4, <1>5, <1>6 DEF Next

\* However checks, writes, changes on chain, faults and crashes interleave, a
\* checked write reaches the collection only for a signer whom the registry, the
\* registrar, the wrapper or the multisig's member contract has named since his
\* request arrived: the six reads of the two verifiers are taken in their order,
\* each at its own instant (ownership.ts:31, ethereumClient.ts:26-76,
\* mongo.ts:93-157).
THEOREM WritesEntitled == Spec => WritesWereEntitled
<1> DEFINE Good(r, i) ==
      (call'[r][i].wrote # call[r][i].wrote /\ Call(r, i).kind \in Verified)
        => Entitled(r, i)
<1>1. ASSUME TypeInv, Entitlement, [Next]_vars, NEW r \in Requests, NEW i \in Slots
      PROVE  Good(r, i)
  <2> SUFFICES ASSUME call'[r][i].wrote # call[r][i].wrote, Call(r, i).kind \in Verified
               PROVE  Entitled(r, i)
    OBVIOUS
  <2>1. CallStep(r, i)
    BY <1>1, WroteSteps
  <2>2. WritesFollow(r, i)
    BY <1>1, <2>1, CallStepFollows DEF Entitlement
  <2> QED BY <1>1, <2>2 DEF WritesFollow, Authorized, Entitlement, AnswersAreTrue
<1>2. TypeInv /\ Entitlement /\ [Next]_vars
        => [\A r \in Requests, i \in Slots : Good(r, i)]_vars
  BY <1>1
<1> QED BY <1>2, EntitlementInvariance, PTL DEF Spec, WritesWereEntitled

-----------------------------------------------------------------------------
(* What one step of a call can do to the collection *)

\* The owner a step may store: the one that the check or transfer has read in
\* the registry, or the value of a call that names the field "owner" itself.
OwnerSource(r, i, d) ==
  /\ d.node = Call(r, i).node
  /\ \/ call[r][i].db = "save" /\ d.fields["owner"] = script[r].account
     \/ /\ Call(r, i).kind = "transfer" /\ call[r][i].pc = "write"
        /\ d.fields["owner"] = call[r][i].owner
     \/ /\ Call(r, i).kind \in {"setText", "setField", "register"}
        /\ Call(r, i).field = "owner"

\* A document stays the document of its node.
OldFollows(r, i, old, new) ==
  /\ new.node = old.node /\ new.registered = old.registered
  /\ new.fields["owner"] = old.fields["owner"] \/ OwnerSource(r, i, new)

\* A document is added after none of its node, or a registration after stubs.
NewFollows(r, i, new) ==
  /\ new.fields["owner"] = Absent \/ OwnerSource(r, i, new)
  /\ \A j \in 1..Len(docs) :
       docs[j].node = new.node => new.registered /\ ~ docs[j].registered

DocsFollow(r, i) ==
  /\ Len(docs') \in {Len(docs), Len(docs) + 1}
  /\ \A j \in 1..Len(docs) : OldFollows(r, i, docs[j], docs'[j])
  /\ Len(docs') = Len(docs) + 1 => NewFollows(r, i, docs'[Len(docs')])

LEMMA UnchangedFollows ==
  ASSUME TypeInv, NEW r \in Requests, NEW i \in Slots, docs' = docs
  PROVE  DocsFollow(r, i)
<1>1. Len(docs) \in Nat
  BY DEF TypeInv, TypeOK
<1> QED BY <1>1 DEF DocsFollow, OldFollows

\* The update of one field, of the node of the call.
LEMMA UpdateFollows ==
  ASSUME TypeInv, NEW r \in Requests, NEW i \in Slots, call[r][i] # IdleCall,
         NEW f \in Fields, NEW v \in Values, Exists(docs, Call(r, i).node),
         docs' = UpdateField(docs, Call(r, i).node, f, v),
         f = "owner" =>
           \/ call[r][i].db = "save" /\ v = script[r].account
           \/ /\ Call(r, i).kind = "transfer" /\ call[r][i].pc = "write"
              /\ v = call[r][i].owner
           \/ /\ Call(r, i).kind \in {"setText", "setField", "register"}
              /\ Call(r, i).field = "owner"
  PROVE  DocsFollow(r, i)
<1> DEFINE n == Call(r, i).node
<1>1. docs \in Seq(Document) /\ Len(docs) \in Nat
  BY DEF TypeInv, TypeOK
<1>2. /\ Len(docs') = Len(docs)
      /\ \A j \in 1..Len(docs) :
           /\ docs'[j].node = docs[j].node
           /\ docs'[j].registered = docs[j].registered
           /\ \A g \in Fields : docs'[j].fields[g] =
                IF g = f /\ j = First(docs, n) THEN v ELSE docs[j].fields[g]
  BY <1>1, UpdateFieldProperties
<1>3. docs[First(docs, n)].node = n
  BY <1>1, FirstProperties
<1>4. ASSUME NEW j \in 1..Len(docs)
      PROVE  OldFollows(r, i, docs[j], docs'[j])
  <2>1. docs'[j].fields["owner"] =
          IF "owner" = f /\ j = First(docs, n) THEN v ELSE docs[j].fields["owner"]
    BY <1>2, RecordAssumption
  <2>2. CASE "owner" = f /\ j = First(docs, n)
    BY <1>2, <1>3, <2>1, <2>2 DEF OldFollows, OwnerSource
  <2>3. CASE ~ ("owner" = f /\ j = First(docs, n))
    BY <1>2, <2>1, <2>3 DEF OldFollows
  <2> QED BY <2>2, <2>3
<1> QED BY <1>1, <1>2, <1>4 DEF DocsFollow

\* A document that is appended.
LEMMA AppendFollows ==
  ASSUME TypeInv, NEW r \in Requests, NEW i \in Slots,
         NEW d \in Document, docs' = Append(docs, d), NewFollows(r, i, d)
  PROVE  DocsFollow(r, i)
<1>1. docs \in Seq(Document) /\ Len(docs) \in Nat
  BY DEF TypeInv, TypeOK
<1>2. /\ Len(docs') = Len(docs) + 1 /\ docs'[Len(docs) + 1] = d
      /\ \A j \in 1..Len(docs) : docs'[j] = docs[j]
  BY <1>1
<1> QED BY <1>1, <1>2 DEF DocsFollow, OldFollows

LEMMA SetFieldDocs ==
  ASSUME TypeInv, NEW r \in Requests, NEW i \in Slots, call[r][i] # IdleCall,
         NEW f \in Fields, NEW v \in Values,
         SetField(r, i, call[r][i], Call(r, i).node, f, v),
         f = "owner" =>
           \/ /\ Call(r, i).kind = "transfer" /\ call[r][i].pc = "write"
              /\ v = call[r][i].owner
           \/ /\ Call(r, i).kind \in {"setText", "setField", "register"}
              /\ Call(r, i).field = "owner"
  PROVE  DocsFollow(r, i)
<1> DEFINE n == Call(r, i).node
<1>1. \/ docs' = docs
      \/ Exists(docs, n) /\ docs' = UpdateField(docs, n, f, v)
  BY DEF SetField, Store
<1>2. CASE docs' = docs
  BY <1>2, UnchangedFollows
<1>3. CASE Exists(docs, n) /\ docs' = UpdateField(docs, n, f, v)
  BY <1>3, UpdateFollows
<1> QED BY <1>1, <1>2, <1>3

LEMMA CallStepDocs ==
  ASSUME TypeInv, NEW r \in Requests, NEW i \in Slots, CallStep(r, i)
  PROVE  DocsFollow(r, i)
<1> DEFINE c == Call(r, i)  n == c.node  a == script[r].account
<1>1. /\ call[r][i] # IdleCall /\ c \in CallType
      /\ n \in Nodes /\ c.field \in Fields /\ c.value \in Values
      /\ a \in Accounts /\ a \in Values /\ "owner" \in Fields
  BY CallStepNotIdle, CallTypes, GatewayAssumption, RecordAssumption DEF CallType
<1>2. docs \in Seq(Document) /\ call[r][i] \in CallState
  BY DEF TypeInv, TypeOK
<1>3. CASE SyncOwner(r, i)
  <2>1. /\ call[r][i].db = "save"
        /\ \/ docs' = docs
           \/ Exists(docs, n) /\ docs' = UpdateField(docs, n, "owner", a)
           \/ ~ Exists(docs, n) /\ docs' = Append(docs, Stub(n, a))
    BY <1>3 DEF SyncOwner, Store
  <2>2. CASE docs' = docs
    BY <2>2, UnchangedFollows
  <2>3. CASE Exists(docs, n) /\ docs' = UpdateField(docs, n, "owner", a)
    BY <1>1, <2>1, <2>3, UpdateFollows
  <2>4. CASE ~ Exists(docs, n) /\ docs' = Append(docs, Stub(n, a))
    <3>1. /\ Stub(n, a) \in Document /\ Stub(n, a).node = n
          /\ Stub(n, a).fields["owner"] = a
      BY <1>1, InsertedTypes
    <3>2. \A j \in 1..Len(docs) : docs[j].node # n
      BY <2>4 DEF Exists, Matches
    <3>3. NewFollows(r, i, Stub(n, a))
      BY <2>1, <3>1, <3>2 DEF NewFollows, OwnerSource
    <3> QED BY <2>4, <3>1, <3>3, AppendFollows
  <2> QED BY <2>1, <2>2, <2>3, <2>4
<1>4. CASE WriteText(r, i)
  <2> DEFINE half == UpdateField(docs, n, c.field, c.value)
  <2>1. c.kind = "setText" /\ call[r][i].pc = "write"
    BY <1>4 DEF WriteText, Writing
  <2>2. Exists(docs, n)
    BY <2>1 DEF TypeInv, RecordsStay
  <2>3. docs' = docs \/ docs' = UpdateHash(half, n, call[r][i].hash)
    BY <1>4 DEF WriteText, Store
  <2>4. CASE docs' = docs
    BY <2>4, UnchangedFollows
  <2>5. CASE docs' = UpdateHash(half, n, call[r][i].hash)
    <3>1. half \in Seq(Document) /\ Keeps(docs, half)
      BY <1>1, <1>2, <2>2, UpdatesKeep
    <3>2. Exists(half, n) /\ call[r][i].hash \in Hash
      BY <1>2, <2>2, <3>1, KeepsExists DEF CallState
    <3>3. /\ Len(docs') = Len(half)
          /\ \A j \in 1..Len(half) :
               /\ docs'[j].node = half[j].node
               /\ docs'[j].registered = half[j].registered
               /\ docs'[j].fields = half[j].fields
      BY <2>5, <3>1, <3>2, UpdateHashProperties
    <3>4. /\ Len(half) = Len(docs)
          /\ \A j \in 1..Len(docs) :
               /\ half[j].node = docs[j].node
               /\ half[j].registered = docs[j].registered
               /\ \A g \in Fields : half[j].fields[g] =
                    IF g = c.field /\ j = First(docs, n) THEN c.value
                    ELSE docs[j].fields[g]
      BY <1>1, <1>2, <2>2, UpdateFieldProperties
    <3>5. docs[First(docs, n)].node = n
      BY <1>2, <2>2, FirstProperties
    <3>6. ASSUME NEW j \in 1..Len(docs)
          PROVE  OldFollows(r, i, docs[j], docs'[j])
      <4>1. /\ docs'[j].node = docs[j].node
            /\ docs'[j].registered = docs[j].registered
            /\ docs'[j].fields["owner"] =
                 IF "owner" = c.field /\ j = First(docs, n) THEN c.value
                 ELSE docs[j].fields["owner"]
        BY <1>1, <3>3, <3>4
      <4>2. CASE "owner" = c.field /\ j = First(docs, n)
        BY <2>1, <3>5, <4>1, <4>2 DEF OldFollows, OwnerSource
      <4>3. CASE ~ ("owner" = c.field /\ j = First(docs, n))
        BY <4>1, <4>3 DEF OldFollows
      <4> QED BY <4>2, <4>3
    <3>7. Len(docs) \in Nat
      BY <1>2
    <3> QED BY <3>3, <3>4, <3>6, <3>7 DEF DocsFollow
  <2> QED BY <2>3, <2>4, <2>5
<1>5. CASE WriteField(r, i)
  <2>1. /\ SetField(r, i, call[r][i], n, c.field, c.value)
        /\ c.kind = "setField"
    BY <1>5 DEF WriteField, Running
  <2> QED BY <1>1, <2>1, SetFieldDocs
<1>6. CASE WriteOwner(r, i)
  <2>1. /\ SetField(r, i, call[r][i], n, "owner", call[r][i].owner)
        /\ c.kind = "transfer" /\ call[r][i].pc = "write"
    BY <1>6 DEF WriteOwner, Writing
  <2>2. call[r][i].owner \in Values
    BY <1>2, GatewayAssumption DEF CallState
  <2> QED BY <1>1, <2>1, <2>2, SetFieldDocs
<1>7. CASE CreateEntity(r, i)
  <2> DEFINE entity == Entity(n, c.field, c.value)
  <2>1. /\ c.kind = "register"
        /\ \/ docs' = docs
           \/ Accepts(docs, entity) /\ docs' = Append(docs, entity)
    BY <1>7 DEF CreateEntity, Store, Writing
  <2>2. CASE docs' = docs
    BY <2>2, UnchangedFollows
  <2>3. CASE Accepts(docs, entity) /\ docs' = Append(docs, entity)
    <3>1. /\ entity \in Document /\ entity.node = n /\ entity.registered
          /\ c.field # "owner" => entity.fields["owner"] = Absent
      BY <1>1, InsertedTypes
    <3>2. \A j \in 1..Len(docs) : docs[j].node = n => ~ docs[j].registered
      <4>1. \A j \in 1..Len(docs) : docs[j] \in Document
        BY <1>2
      <4> QED BY <2>3, <3>1, <4>1 DEF Accepts, Document
    <3>3. NewFollows(r, i, entity)
      BY <2>1, <3>1, <3>2 DEF NewFollows, OwnerSource
    <3> QED BY <2>3, <3>1, <3>3, AppendFollows
  <2> QED BY <2>1, <2>2, <2>3
<1>8. CASE docs' = docs
  BY <1>8, UnchangedFollows
<1>9. \/ SyncOwner(r, i) \/ WriteText(r, i) \/ WriteField(r, i)
      \/ WriteOwner(r, i) \/ CreateEntity(r, i) \/ docs' = docs
  <2>1. CASE VerifierStep(r, i)
    BY <2>1, VerifierShape
  <2> QED BY <2>1 DEF CallStep, VerifierStep, Reject, ReadRecord, ReadOwner,
                      SetNothing, ReadLEI, Read, store
<1> QED BY <1>3, <1>4, <1>5, <1>6, <1>7, <1>8, <1>9

\* The middleware stores hashes, and the environment stores nothing.
SameRecords ==
  /\ Len(docs') = Len(docs)
  /\ \A j \in 1..Len(docs) :
       /\ docs'[j].node = docs[j].node
       /\ docs'[j].registered = docs[j].registered
       /\ docs'[j].fields = docs[j].fields

LEMMA RequestStepDocs ==
  ASSUME TypeInv, NEW r \in Requests, RequestStep(r)
  PROVE  SameRecords
<1>1. docs \in Seq(Document) /\ req[r] \in RequestState
  BY DEF TypeInv, TypeOK
<1>2. CASE docs' = docs
  BY <1>2 DEF SameRecords
<1>3. CASE /\ req[r].pc = "save"
           /\ docs' = UpdateHash(docs, req[r].node, req[r].hash)
  <2>1. Exists(docs, req[r].node) /\ req[r].hash \in Hash
    BY <1>1, <1>3 DEF TypeInv, RecordsStay, RequestState
  <2> QED BY <1>1, <1>3, <2>1, UpdateHashProperties DEF SameRecords
<1> QED BY <1>2, <1>3 DEF RequestStep, Respond, SignFetch, SignSave, store

\* Every step but those of calls.
LEMMA OtherStepDocs ==
  ASSUME TypeInv, [Next]_vars,
         ~ \E r \in Requests, i \in Slots : CallStep(r, i)
  PROVE  SameRecords
<1>1. ASSUME NEW r \in Requests, RequestStep(r) PROVE SameRecords
  BY <1>1, RequestStepDocs
<1>2. CASE docs' = docs
  BY <1>2 DEF SameRecords
<1> QED BY <1>1, <1>2 DEF Next, Arrive, Move, Regroup, Becomes, Crash, store, vars

-----------------------------------------------------------------------------
(* One stub and one registration for each node *)

LEMMA StubStep ==
  TypeInv /\ StubPrecedesRegistration /\ [Next]_vars => StubPrecedesRegistration'
<1> SUFFICES ASSUME TypeInv, StubPrecedesRegistration, [Next]_vars
             PROVE  StubPrecedesRegistration'
  OBVIOUS
<1>1. Len(docs) \in Nat
  BY DEF TypeInv, TypeOK
<1>2. ASSUME NEW r \in Requests, NEW i \in Slots, CallStep(r, i)
      PROVE  StubPrecedesRegistration'
  <2>1. DocsFollow(r, i)
    BY <1>2, CallStepDocs
  <2>2. SUFFICES ASSUME NEW j \in 1..Len(docs'), NEW k \in 1..Len(docs'),
                        j < k, docs'[j].node = docs'[k].node
                 PROVE  ~ docs'[j].registered /\ docs'[k].registered
    BY DEF StubPrecedesRegistration
  <2>3. /\ j \in 1..Len(docs) /\ docs'[j].node = docs[j].node
        /\ docs'[j].registered = docs[j].registered
    BY <1>1, <2>1, <2>2 DEF DocsFollow, OldFollows
  <2>4. CASE k \in 1..Len(docs)
    BY <2>1, <2>2, <2>3, <2>4 DEF DocsFollow, OldFollows, StubPrecedesRegistration
  <2>5. CASE k = Len(docs')
    <3>1. Len(docs') = Len(docs) + 1 \/ k \in 1..Len(docs)
      BY <1>1, <2>1 DEF DocsFollow
    <3> QED BY <2>1, <2>2, <2>3, <2>4, <2>5, <3>1 DEF DocsFollow, NewFollows
  <2> QED BY <1>1, <2>1, <2>4, <2>5 DEF DocsFollow
<1>3. CASE ~ \E r \in Requests, i \in Slots : CallStep(r, i)
  BY <1>3, OtherStepDocs DEF SameRecords, StubPrecedesRegistration
<1> QED BY <1>2, <1>3

\* A node never has two stubs or two registered documents, and its stub is the
\* older, whatever the order of checks and registrations (mongo.ts:101, 239).
THEOREM StubPrecedes == Spec => []StubPrecedesRegistration
<1>1. Init => StubPrecedesRegistration
  BY DEF Init, StubPrecedesRegistration
<1> QED BY <1>1, StubStep, TypeInvariance, PTL DEF Spec

-----------------------------------------------------------------------------
(* The stored owner *)

\* the owners that the registry has had for a node
Owners(states, n) == {states[k].held[n].owner : k \in 1..Len(states)}

\* What a call has read in the registry is an owner that the node has had.
OwnersAreKnown ==
  \A r \in Requests, i \in Slots :
    /\ call[r][i].db = "save" => script[r].account \in Owners(chain, Call(r, i).node)
    /\ call[r][i].pc = "write" /\ Call(r, i).kind = "transfer"
         => call[r][i].owner \in Owners(chain, Call(r, i).node)

OwnerInv == OwnersAreKnown /\ OwnerComesFromChain

LEMMA OwnerNow ==
  ASSUME TypeInv, NEW n
  PROVE  OnChainOwner(Now, n) \in Owners(chain, n)
BY NowTypes, ChainTypes DEF OnChainOwner, Owners, TypeInv

LEMMA OwnerInit == Init => OwnerInv
<1> SUFFICES ASSUME Init PROVE OwnerInv
  OBVIOUS
<1>1. \A r \in Requests, i \in Slots :
        call[r][i].db = "none" /\ call[r][i].pc = "idle"
  BY DEF Init, IdleCall
<1>2. OwnerComesFromChain
  BY DEF Init, OwnerComesFromChain
<1> QED BY <1>1, <1>2 DEF OwnerInv, OwnersAreKnown

LEMMA OwnerCallStep ==
  ASSUME TypeInv, ChecksPending, OwnerInv,
         NEW r \in Requests, NEW i \in Slots, CallStep(r, i)
  PROVE  OwnerInv'
<1> DEFINE c == call[r][i]  d == call'[r][i]  n == Call(r, i).node
<1>1. AnswersFollow(r, i) /\ WritesFollow(r, i) /\ DocsFollow(r, i)
  BY CallStepFollows, CallStepDocs
<1>2. UNCHANGED <<chain, script>>
  BY CallStepShape DEF OneCall
<1>3. \A q \in Requests, j \in Slots :
        (q # r \/ j # i) => call'[q][j] = call[q][j]
  BY CallStepShape DEF OneCall, TypeInv, TypeOK
<1>4. /\ i \in CallsOf(r) /\ script[r] \in Scripts /\ n \in Nodes
      /\ Len(docs) \in Nat
  BY CallStepNotIdle, CallTypes DEF CallType, TypeInv, TypeOK
<1>5. OnChainOwner(Now, n) \in Owners(chain, n)
  BY OwnerNow
<1>6. d.db = "save" => script[r].account \in Owners(chain, n)
  BY <1>1, <1>5 DEF AnswersFollow, OwnerInv, OwnersAreKnown, OnChainOwner
<1>7. d.pc = "write" /\ Call(r, i).kind = "transfer" => d.owner \in Owners(chain, n)
  BY <1>1, <1>5 DEF WritesFollow, OwnerInv, OwnersAreKnown
<1>8. OwnersAreKnown'
  BY <1>2, <1>3, <1>6, <1>7 DEF OwnerInv, OwnersAreKnown, Call
<1>9. ASSUME \A s \in Scripts : NamesNoOwner(s), NEW e, OwnerSource(r, i, e)
      PROVE  e.fields["owner"] \in Owners(chain, e.node)
  <2>1. ~ (/\ Call(r, i).kind \in {"setText", "setField", "register"}
           /\ Call(r, i).field = "owner")
    BY <1>4, <1>9 DEF NamesNoOwner, Call, CallsOf
  <2> QED BY <1>9, <2>1 DEF OwnerSource, OwnerInv, OwnersAreKnown
<1>10. OwnerComesFromChain'
  <2>1. SUFFICES ASSUME \A s \in Scripts : NamesNoOwner(s),
                        NEW k \in 1..Len(docs')
                 PROVE  docs'[k].fields["owner"] \in
                          {Absent} \cup Owners(chain, docs'[k].node)
    BY <1>2 DEF OwnerComesFromChain, Owners
  <2>2. CASE k \in 1..Len(docs)
    <3>1. docs[k].fields["owner"] \in {Absent} \cup Owners(chain, docs[k].node)
      BY <2>1, <2>2 DEF OwnerInv, OwnerComesFromChain, Owners
    <3> QED BY <1>1, <1>9, <2>1, <2>2, <3>1 DEF DocsFollow, OldFollows
  <2>3. CASE k = Len(docs) + 1
    BY <1>1, <1>4, <1>9, <2>1, <2>3 DEF DocsFollow, NewFollows
  <2> QED BY <1>1, <1>4, <2>2, <2>3 DEF DocsFollow
<1> QED BY <1>8, <1>10 DEF OwnerInv

\* The owners that a node has had remain those it has had.
LEMMA OwnersStay ==
  ASSUME TypeInv, NEW state, chain' = Append(chain, state), NEW n
  PROVE  Owners(chain, n) \subseteq Owners(chain', n)
<1>1. /\ Len(chain) \in Nat /\ Len(chain') = Len(chain) + 1
      /\ \A k \in 1..Len(chain) : chain'[k] = chain[k]
  BY ChainGrows, ChainTypes DEF TypeInv
<1> SUFFICES ASSUME NEW k \in 1..Len(chain)
             PROVE  chain[k].held[n].owner \in Owners(chain', n)
  BY DEF Owners
<1>2. k \in 1..Len(chain') /\ chain'[k] = chain[k]
  BY <1>1
<1> QED BY <1>2 DEF Owners

\* The steps that leave the owners in the collection as they are.
LEMMA SameOwners ==
  ASSUME SameRecords, OwnerComesFromChain,
         \A n \in Nodes : Owners(chain, n) \subseteq Owners(chain', n),
         docs \in Seq(Document)
  PROVE  OwnerComesFromChain'
<1>1. SUFFICES ASSUME \A s \in Scripts : NamesNoOwner(s),
                      NEW j \in 1..Len(docs')
               PROVE  docs'[j].fields["owner"] \in
                        {Absent} \cup Owners(chain', docs'[j].node)
  BY DEF OwnerComesFromChain, Owners
<1>0. /\ j \in 1..Len(docs) /\ docs'[j].node = docs[j].node
      /\ docs'[j].fields = docs[j].fields
  BY <1>1 DEF SameRecords
<1>2. docs[j].node \in Nodes
  <2>1. docs[j] \in Document
    BY <1>0
  <2> QED BY <2>1 DEF Document
<1>3. docs[j].fields["owner"] \in {Absent} \cup Owners(chain, docs[j].node)
  BY <1>0, <1>1 DEF OwnerComesFromChain, Owners
<1> QED BY <1>0, <1>2, <1>3

LEMMA OwnerArrive ==
  ASSUME TypeInv, OwnerInv, NEW r \in Requests, Arrive(r)
  PROVE  OwnersAreKnown'
<1>1. PICK s \in Scripts :
        /\ script' = [script EXCEPT ![r] = s]
        /\ call' = [call EXCEPT ![r] = [i \in Slots |-> StartOf(s, i)]]
        /\ chain' = chain
  BY DEF Arrive, store
<1>2. ASSUME NEW q \in Requests, NEW i \in Slots
      PROVE  \/ call'[q][i].db # "save" /\ call'[q][i].pc # "write"
             \/ script'[q] = script[q] /\ call'[q] = call[q]
  <2>1. CASE q = r
    <3>1. call'[q][i] = StartOf(s, i)
      BY <1>1, <2>1 DEF TypeInv, TypeOK
    <3> QED BY <3>1 DEF StartOf, IdleCall
  <2>2. CASE q # r
    BY <1>1, <2>2 DEF TypeInv, TypeOK
  <2> QED BY <2>1, <2>2
<1>3. ASSUME NEW q \in Requests, NEW i \in Slots
      PROVE  /\ call'[q][i].db = "save"
                  => script'[q].account \in Owners(chain, script'[q].calls[i].node)
             /\ call'[q][i].pc = "write" /\ script'[q].calls[i].kind = "transfer"
                  => call'[q][i].owner \in Owners(chain, script'[q].calls[i].node)
  BY <1>2 DEF OwnerInv, OwnersAreKnown, Call
<1> QED BY <1>1, <1>3 DEF OwnersAreKnown, Call

LEMMA OwnerBecomes ==
  ASSUME TypeInv, OwnerInv, NEW state, Becomes(state)
  PROVE  OwnersAreKnown' /\ \A n \in Nodes : Owners(chain, n) \subseteq Owners(chain', n)
<1>1. UNCHANGED <<script, call>> /\ chain' = Append(chain, state)
  BY DEF Becomes
<1>2. \A n : Owners(chain, n) \subseteq Owners(chain', n)
  BY <1>1, OwnersStay
<1>3. ASSUME NEW r \in Requests, NEW i \in Slots
      PROVE  /\ call[r][i].db = "save"
                  => script[r].account \in Owners(chain', Call(r, i).node)
             /\ call[r][i].pc = "write" /\ Call(r, i).kind = "transfer"
                  => call[r][i].owner \in Owners(chain', Call(r, i).node)
  BY <1>2 DEF OwnerInv, OwnersAreKnown
<1>4. OwnersAreKnown'
  BY <1>1, <1>3 DEF OwnersAreKnown, Call
<1> QED BY <1>2, <1>4

LEMMA OwnerCrash ==
  ASSUME TypeInv, OwnerInv, Crash
  PROVE  OwnersAreKnown'
<1>1. UNCHANGED <<script, chain>>
  BY DEF Crash
<1>2. ASSUME NEW r \in Requests, NEW i \in Slots
      PROVE  \/ call'[r][i] = call[r][i]
             \/ call'[r][i].pc = "lost" /\ call'[r][i].db = "none"
  <2>1. call[r][i] \in CallState
    BY DEF TypeInv, TypeOK
  <2>2. \/ call'[r][i] = call[r][i]
        \/ call'[r][i] = [call[r][i] EXCEPT !.pc = "lost", !.eth = "none",
                                            !.db = "none"]
    BY DEF Crash
  <2> QED BY <2>1, <2>2 DEF CallState
<1>3. ASSUME NEW r \in Requests, NEW i \in Slots
      PROVE  /\ call'[r][i].db = "save"
                  => script[r].account \in Owners(chain, Call(r, i).node)
             /\ call'[r][i].pc = "write" /\ Call(r, i).kind = "transfer"
                  => call'[r][i].owner \in Owners(chain, Call(r, i).node)
  BY <1>2 DEF OwnerInv, OwnersAreKnown
<1> QED BY <1>1, <1>3 DEF OwnersAreKnown, Call

LEMMA OwnerStep ==
  TypeInv /\ ChecksPending /\ OwnerInv /\ [Next]_vars => OwnerInv'
<1> SUFFICES ASSUME TypeInv, ChecksPending, OwnerInv, [Next]_vars
             PROVE  OwnerInv'
  OBVIOUS
<1>1. ASSUME NEW r \in Requests, NEW i \in Slots, CallStep(r, i) PROVE OwnerInv'
  BY <1>1, OwnerCallStep
<1>2. CASE ~ \E r \in Requests, i \in Slots : CallStep(r, i)
  <2>1. SameRecords /\ docs \in Seq(Document) /\ OwnerComesFromChain
    BY <1>2, OtherStepDocs DEF TypeInv, TypeOK, OwnerInv
  <2>2. ASSUME UNCHANGED <<chain, script, call>>
        PROVE  OwnerInv'
    BY <2>1, <2>2, SameOwners DEF OwnerInv, OwnersAreKnown, Call
  <2>3. ASSUME NEW r \in Requests, Arrive(r) PROVE OwnerInv'
    <3>1. chain' = chain
      BY <2>3 DEF Arrive, store
    <3> QED BY <2>1, <2>3, <3>1, OwnerArrive, SameOwners DEF OwnerInv
  <2>4. ASSUME NEW r \in Requests, RequestStep(r) PROVE OwnerInv'
    BY <2>2, <2>4, RequestStepShape DEF history
  <2>5. CASE (\E n \in Nodes : Move(n)) \/ Regroup
    BY <2>1, <2>5, MoveBecomes, OwnerBecomes, SameOwners DEF OwnerInv
  <2>6. CASE Crash
    <3>1. chain' = chain
      BY <2>6 DEF Crash
    <3> QED BY <2>1, <2>6, <3>1, OwnerCrash, SameOwners DEF OwnerInv
  <2>7. CASE UNCHANGED vars
    BY <2>2, <2>7 DEF vars
  <2> QED BY <1>2, <2>3, <2>4, <2>5, <2>6, <2>7 DEF Next
<1> QED BY <1>1, <1>2

\* As long as no call names the field "owner", every stored owner is one the
\* registry has had for the node, although it is read before it is written
\* (mongo.ts:98-105 and 323-327).
THEOREM OwnerFromChain == Spec => []OwnerComesFromChain
<1>1. Init => OwnerInv
  BY OwnerInit
<1>2. TypeInv /\ Entitlement /\ OwnerInv /\ [Next]_vars => OwnerInv'
  BY OwnerStep DEF Entitlement
<1>3. OwnerInv => OwnerComesFromChain
  BY DEF OwnerInv
<1> QED BY <1>1, <1>2, <1>3, EntitlementInvariance, PTL DEF Spec

-----------------------------------------------------------------------------
(* What one step of a call does to what its request signs *)

\* a write is noted and never forgotten, and the first word of a result is a
\* node only after a text was written to that node
NotesFollow(r, i) ==
  LET c == call[r][i]  d == call'[r][i] IN
  /\ c.wrote \subseteq d.wrote
  /\ d.first \in Nodes => \/ d.first = c.first
                          \/ d.first = Call(r, i).node /\ "own" \in d.wrote
  /\ d.pc # c.pc /\ c.pc = "run" /\ Call(r, i).kind \in Verified
       => VerifyFailed(c) \/ Settled(c)

\* the hash that the record of a call has after the step
NewHash(q, j) == HashOf(FindOne(docs', Call(q, j).node))

\* the hashes of the versions that a request which is not answered has seen
HashesFollow(r, i) ==
  LET text == Call(r, i).kind = "setText"
      writes == call[r][i].pc = "write" /\ text IN
  /\ \A q \in Requests, j \in Slots :
       /\ since[q][j] \subseteq since'[q][j] \/ (q = r /\ j = i /\ writes)
       /\ \/ docs' = docs /\ since' = since
          \/ since[q][j] = {} \/ req[q].pc = "answered"
          \/ NewHash(q, j) \in since'[q][j]
  /\ text /\ "own" \in call'[r][i].wrote /\ "own" \notin call[r][i].wrote
       => writes /\ NewHash(r, i) \in since'[r][i]

LEMMA FinishNotes ==
  ASSUME TypeInv, NEW r \in Requests, NEW i \in Slots, NEW c \in CallState,
         NEW status, NEW first, Finish(r, i, c, status, first)
  PROVE  call'[r][i].wrote = c.wrote /\ call'[r][i].first = first
<1> DEFINE d == [c EXCEPT !.pc = "done", !.status = status, !.first = first,
                          !.hash = NoHash, !.owner = Multisig]
<1>1. call'[r][i] = d
  BY DEF Finish, TypeInv, TypeOK
<1>2. d.wrote = c.wrote /\ d.first = first
  BY DEF CallState
<1> QED BY <1>1, <1>2

\* What Store does to the history of hashes.
LEMMA StoreHashes ==
  ASSUME TypeInv, NEW r \in Requests, NEW i \in Slots, NEW new, NEW own, Store(new, own),
         \/ own = <<r, i>> /\ call[r][i].pc = "write" /\ Call(r, i).kind = "setText"
         \/ /\ own = NoOne
            /\ Call(r, i).kind = "setText" /\ "own" \in call'[r][i].wrote
                 => "own" \in call[r][i].wrote,
         UNCHANGED script
  PROVE  HashesFollow(r, i)
<1> DEFINE H(q, j) == HashOf(FindOne(new, Call(q, j).node))
<1>1. docs' = new /\ \A q \in Requests, j \in Slots : NewHash(q, j) = H(q, j)
  BY DEF Store, NewHash, Call
<1>2. \A q \in Requests, j \in Slots : since'[q][j] =
        IF <<q, j>> = own THEN {H(q, j)}
        ELSE IF since[q][j] = {} \/ req[q].pc = "answered" THEN since[q][j]
        ELSE since[q][j] \cup {H(q, j)}
  BY DEF Store
<1> HIDE DEF H
<1>3. \A q \in Requests, j \in Slots :
        (<<q, j>> = own) <=> (own = <<r, i>> /\ q = r /\ j = i)
  BY DEF NoOne
<1>4. ASSUME NEW q \in Requests, NEW j \in Slots
      PROVE  /\ \/ since[q][j] \subseteq since'[q][j]
                \/ q = r /\ j = i /\ own = <<r, i>>
             /\ \/ since[q][j] = {} \/ req[q].pc = "answered"
                \/ NewHash(q, j) \in since'[q][j]
             /\ own = <<r, i>> /\ q = r /\ j = i => NewHash(q, j) \in since'[q][j]
  <2>1. CASE <<q, j>> = own
    BY <1>1, <1>2, <1>3, <2>1
  <2>2. CASE <<q, j>> # own
    <3>1. since'[q][j] = IF since[q][j] = {} \/ req[q].pc = "answered" THEN since[q][j]
                         ELSE since[q][j] \cup {H(q, j)}
      BY <1>2, <2>2
    <3>2. ~ (own = <<r, i>> /\ q = r /\ j = i)
      BY <1>3, <2>2
    <3> QED BY <1>1, <3>1, <3>2
  <2> QED BY <2>1, <2>2
<1>5. own = <<r, i>> => own # NoOne
  BY DEF NoOne
<1> QED BY <1>4, <1>5 DEF HashesFollow

LEMMA SameHashes ==
  ASSUME NEW r \in Requests, NEW i \in Slots, UNCHANGED <<docs, since>>,
         Call(r, i).kind = "setText" /\ "own" \in call'[r][i].wrote
           => "own" \in call[r][i].wrote
  PROVE  HashesFollow(r, i)
BY DEF HashesFollow

\* A call that ends without a write, or with one of another field than texts.
LEMMA FinishHashes ==
  ASSUME TypeInv, NEW r \in Requests, NEW i \in Slots, NEW c \in CallState,
         NEW status, NEW first, Finish(r, i, c, status, first),
         c.wrote = call[r][i].wrote \/ Call(r, i).kind # "setText",
         UNCHANGED <<docs, since>> \/ \E new : Store(new, NoOne),
         UNCHANGED script
  PROVE  HashesFollow(r, i)
<1>1. call'[r][i].wrote = c.wrote
  BY FinishNotes
<1>2. CASE UNCHANGED <<docs, since>>
  BY <1>1, <1>2, SameHashes
<1>3. ASSUME NEW new, Store(new, NoOne)
      PROVE  HashesFollow(r, i)
  BY <1>1, <1>3, StoreHashes
<1> QED BY <1>2, <1>3

LEMMA FinishNotesFollow ==
  ASSUME TypeInv, NEW r \in Requests, NEW i \in Slots, NEW c \in CallState,
         NEW status, NEW first, Finish(r, i, c, status, first),
         call[r][i].wrote \subseteq c.wrote,
         first \in {"0x", "other"} \/ (first = Call(r, i).node /\ "own" \in c.wrote),
         \/ call[r][i].pc # "run" \/ Call(r, i).kind \notin Verified
         \/ VerifyFailed(call[r][i]) \/ Settled(call[r][i])
  PROVE  NotesFollow(r, i)
<1>1. call'[r][i].wrote = c.wrote /\ call'[r][i].first = first
  BY FinishNotes
<1>2. {"0x", "other"} \cap Nodes = {}
  BY GatewayAssumption
<1> QED BY <1>1, <1>2 DEF NotesFollow

LEMMA SetFieldNotes ==
  ASSUME TypeInv, NEW r \in Requests, NEW i \in Slots, NEW n, NEW f, NEW v,
         SetField(r, i, call[r][i], n, f, v), Call(r, i).kind # "setText",
         call[r][i].pc # "run" \/ Settled(call[r][i]), UNCHANGED script
  PROVE  NotesFollow(r, i) /\ HashesFollow(r, i)
<1> DEFINE c == call[r][i]
           wrote == [c EXCEPT !.wrote =
                       @ \cup (IF Exists(docs, n) THEN {"own"} ELSE {})]
<1>1. c \in CallState
  BY DEF TypeInv, TypeOK
<1>2. wrote \in CallState /\ c.wrote \subseteq wrote.wrote
  BY <1>1 DEF CallState
<1>3. /\ \/ Finish(r, i, wrote, 200, "0x")
         \/ Finish(r, i, wrote, 400, "other")
         \/ Finish(r, i, c, 400, "other")
      /\ UNCHANGED <<docs, since>> \/ \E new : Store(new, NoOne)
  BY DEF SetField
<1> HIDE DEF wrote
<1>4. ASSUME NEW e \in {c, wrote}, NEW s, NEW w \in {"0x", "other"}, Finish(r, i, e, s, w)
      PROVE  NotesFollow(r, i) /\ HashesFollow(r, i)
  <2>1. e \in CallState /\ c.wrote \subseteq e.wrote
    BY <1>1, <1>2
  <2>2. NotesFollow(r, i)
    BY <1>4, <2>1, FinishNotesFollow
  <2>3. HashesFollow(r, i)
    BY <1>3, <1>4, <2>1, FinishHashes
  <2> QED BY <2>2, <2>3
<1> QED BY <1>3, <1>4

LEMMA CallStepNotes ==
  ASSUME TypeInv, NEW r \in Requests, NEW i \in Slots, CallStep(r, i)
  PROVE  NotesFollow(r, i) /\ HashesFollow(r, i)
<1> DEFINE c == call[r][i]  d == call'[r][i]  kind == Call(r, i).kind
           wrote == [c EXCEPT !.wrote = @ \cup {"own"}]
<1>1. /\ c \in CallState /\ call \in [Requests -> [Slots -> CallState]]
      /\ UNCHANGED script
  BY CallStepShape DEF TypeInv, TypeOK, OneCall
<1>2. wrote \in CallState /\ c.wrote \subseteq wrote.wrote /\ "own" \in wrote.wrote
  BY <1>1 DEF CallState
<1> HIDE DEF wrote
\* a call that ends as it is
<1>3. ASSUME NEW s, NEW w \in {"0x", "other"}, Finish(r, i, c, s, w),
             UNCHANGED <<docs, since>>,
             c.pc # "run" \/ kind \notin Verified \/ VerifyFailed(c) \/ Settled(c)
      PROVE  NotesFollow(r, i) /\ HashesFollow(r, i)
  <2>1. NotesFollow(r, i)
    BY <1>1, <1>3, FinishNotesFollow
  <2>2. HashesFollow(r, i)
    BY <1>1, <1>3, FinishHashes
  <2> QED BY <2>1, <2>2
\* a call that goes on
<1>4. ASSUME UNCHANGED <<docs, since>>, d.wrote = c.wrote, d.first = c.first,
             d.pc = c.pc \/ kind \notin Verified \/ Settled(c)
      PROVE  NotesFollow(r, i) /\ HashesFollow(r, i)
  BY <1>4, SameHashes DEF NotesFollow
<1>5. ASSUME Authorized(c) PROVE Settled(c)
  BY <1>5 DEF Authorized
<1>6. CASE VerifierStep(r, i)
  <2>1. PICK e \in CallState :
          /\ call' = [call EXCEPT ![r][i] = e]
          /\ e.pc = c.pc /\ e.wrote = c.wrote /\ e.first = c.first
    BY <1>6, VerifierShape
  <2>2. d = e
    BY <1>1, <2>1
  <2>3. UNCHANGED <<docs, since>>
    BY <1>6, VerifierShape DEF history
  <2> QED BY <1>4, <2>1, <2>2, <2>3
<1>8. CASE SyncOwner(r, i)
  <2> DEFINE saved == [c EXCEPT !.wrote = @ \cup {"sync"}]
  <2>1. PICK b : \/ call' = [call EXCEPT ![r][i] = [saved EXCEPT !.db = b]]
                 \/ call' = [call EXCEPT ![r][i] = [c EXCEPT !.db = b]]
    BY <1>8 DEF SyncOwner
  <2>2. d = [saved EXCEPT !.db = b] \/ d = [c EXCEPT !.db = b]
    BY <1>1, <2>1
  <2>3. /\ d.wrote \in {c.wrote, c.wrote \cup {"sync"}}
        /\ d.first = c.first /\ d.pc = c.pc
    BY <1>1, <2>2 DEF CallState
  <2>4. UNCHANGED <<docs, since>> \/ \E new : Store(new, NoOne)
    BY <1>8 DEF SyncOwner
  <2>5. "own" \in d.wrote => "own" \in c.wrote
    BY <2>3
  <2>6. HashesFollow(r, i)
    BY <1>1, <2>4, <2>5, StoreHashes, SameHashes
  <2>7. NotesFollow(r, i)
    BY <2>3 DEF NotesFollow
  <2> QED BY <2>6, <2>7
<1>9. CASE Reject(r, i)
  <2>1. PICK s : Finish(r, i, c, s, "other")
    BY <1>9 DEF Reject
  <2>2. VerifyFailed(c) \/ Settled(c)
    BY <1>5, <1>9 DEF Reject
  <2> QED BY <1>3, <1>9, <2>1, <2>2 DEF Reject, store, history
<1>10. CASE ReadRecord(r, i)
  <2>1. Settled(c) /\ UNCHANGED <<docs, since>>
    BY <1>5, <1>10 DEF ReadRecord, history
  <2>2. CASE Finish(r, i, c, 400, "other")
    BY <1>3, <2>1, <2>2
  <2>3. ASSUME NEW h, call' = [call EXCEPT ![r][i].pc = "write", ![r][i].hash = h]
        PROVE  NotesFollow(r, i) /\ HashesFollow(r, i)
    <3>1. d = [c EXCEPT !.pc = "write", !.hash = h]
      BY <1>1, <2>3
    <3>2. d.wrote = c.wrote /\ d.first = c.first
      BY <1>1, <3>1 DEF CallState
    <3> QED BY <1>4, <2>1, <3>2
  <2> QED BY <1>10, <2>2, <2>3 DEF ReadRecord
<1>11. CASE WriteText(r, i)
  <2>1. c.pc = "write" /\ kind = "setText"
    BY <1>11 DEF WriteText, Writing
  <2>2. CASE Finish(r, i, c, 400, "other") /\ UNCHANGED <<docs, since>>
    BY <1>3, <2>1, <2>2
  <2>3. ASSUME NEW new, Store(new, <<r, i>>)
        PROVE  HashesFollow(r, i)
    BY <1>1, <2>1, <2>3, StoreHashes
  <2>4. ASSUME NEW s, NEW w \in {Call(r, i).node, "other"}, Finish(r, i, wrote, s, w)
        PROVE  NotesFollow(r, i)
    BY <1>2, <2>1, <2>4, FinishNotesFollow
  <2> QED BY <1>11, <2>2, <2>3, <2>4 DEF WriteText, wrote
<1>12. CASE WriteField(r, i)
  <2>1. Settled(c) /\ kind # "setText"
    BY <1>5, <1>12 DEF WriteField, Running
  <2>2. SetField(r, i, c, Call(r, i).node, Call(r, i).field, Call(r, i).value)
    BY <1>12 DEF WriteField
  <2> QED BY <1>1, <2>1, <2>2, SetFieldNotes
<1>13. CASE ReadOwner(r, i)
  <2>1. Settled(c) /\ UNCHANGED <<docs, since>>
    BY <1>5, <1>13 DEF ReadOwner, history
  <2>2. CASE Finish(r, i, c, 400, "other")
    BY <1>3, <2>1, <2>2
  <2>3. ASSUME NEW o, call' = [call EXCEPT ![r][i].pc = "write", ![r][i].owner = o]
        PROVE  NotesFollow(r, i) /\ HashesFollow(r, i)
    <3>1. d = [c EXCEPT !.pc = "write", !.owner = o]
      BY <1>1, <2>3
    <3>2. d.wrote = c.wrote /\ d.first = c.first
      BY <1>1, <3>1 DEF CallState
    <3> QED BY <1>4, <2>1, <3>2
  <2> QED BY <1>13, <2>2, <2>3 DEF ReadOwner
<1>14. CASE WriteOwner(r, i)
  <2>1. c.pc = "write" /\ kind # "setText"
    BY <1>14 DEF WriteOwner, Writing
  <2>2. SetField(r, i, c, Call(r, i).node, "owner", c.owner)
    BY <1>14 DEF WriteOwner
  <2> QED BY <1>1, <2>1, <2>2, SetFieldNotes
<1>15. CASE SetNothing(r, i)
  <2>1. Settled(c) /\ Finish(r, i, c, 200, "0x") /\ UNCHANGED <<docs, since>>
    BY <1>5, <1>15 DEF SetNothing, store, history
  <2> QED BY <1>3, <2>1
<1>16. CASE ReadLEI(r, i)
  <2>1. kind \notin Verified /\ UNCHANGED <<docs, since>>
    BY <1>16 DEF ReadLEI, Running, Verified, history
  <2>2. CASE Finish(r, i, c, 400, "other")
    BY <1>3, <2>1, <2>2
  <2>3. CASE call' = [call EXCEPT ![r][i].pc = "write"]
    <3>1. d = [c EXCEPT !.pc = "write"]
      BY <1>1, <2>3
    <3>2. d.wrote = c.wrote /\ d.first = c.first
      BY <1>1, <3>1 DEF CallState
    <3> QED BY <1>4, <2>1, <3>2
  <2> QED BY <1>16, <2>2, <2>3 DEF ReadLEI
<1>17. CASE CreateEntity(r, i)
  <2>1. c.pc = "write" /\ kind # "setText"
    BY <1>17 DEF CreateEntity, Writing
  <2>2. \E e, s : e \in {c, wrote} /\ Finish(r, i, e, s, "other")
    BY <1>17 DEF CreateEntity, wrote
  <2>3. UNCHANGED <<docs, since>> \/ \E new : Store(new, NoOne)
    BY <1>17 DEF CreateEntity
  <2>4. PICK e, s : /\ e \in CallState
                     /\ Finish(r, i, e, s, "other") /\ c.wrote \subseteq e.wrote
    BY <1>1, <1>2, <2>2
  <2>5. NotesFollow(r, i)
    BY <2>1, <2>4, FinishNotesFollow
  <2>6. HashesFollow(r, i)
    BY <1>1, <2>1, <2>3, <2>4, FinishHashes
  <2> QED BY <2>5, <2>6
<1>18. CASE Read(r, i)
  <2>1. kind \notin Verified /\ UNCHANGED <<docs, since>>
    BY <1>18 DEF Read, Running, Reads, Verified, history
  <2>2. PICK s \in {200, 500}, w \in {"0x", "other"} : Finish(r, i, c, s, w)
    BY <1>18 DEF Read
  <2> QED BY <1>3, <2>1, <2>2
<1> QED BY <1>6, <1>8, <1>9, <1>10, <1>11, <1>12, <1>13, <1>14, <1>15,
           <1>16, <1>17, <1>18 DEF CallStep, VerifierStep

-----------------------------------------------------------------------------
(* What a signature covers *)

\* Who has sent no request has no script.
ScriptsAreAsked ==
  \A r \in Requests : IF req[r].pc = "idle" THEN script[r] = NoScript
                                           ELSE script[r] \in Scripts

\* Requests that are under way together have been noticed to overlap.
OverlapIsNoticed ==
  \A p, q \in Requests : p # q /\ Active(p) /\ Active(q) => contended[p]

\* A call that went on has both answers, unless its check failed: only then
\* can the other verifier be under way (Promise.all in ownership.ts).
ChecksEnd ==
  \A r \in Requests, i \in Slots :
    call[r][i].pc # "run" \/ Call(r, i).kind \notin Verified
      => \/ call[r][i].eth = "error"
         \/ /\ call[r][i].eth \notin EthPending
            /\ call[r][i].db \notin DbPending \cup {"save"}

\* The middleware runs when the handlers have ended.
HandlersEnd ==
  \A r \in Requests : req[r].pc \in {"fetch", "save", "answered"} =>
    \A i \in CallsOf(r) : call[r][i].pc \notin {"run", "write"}

\* A result that begins with a node is that of a text written to the node.
FirstIsOwn ==
  \A r \in Requests, i \in Slots :
    call[r][i].first \in Nodes =>
      call[r][i].first = Call(r, i).node /\ "own" \in call[r][i].wrote

OwnText(r, i) == Call(r, i).kind = "setText" /\ "own" \in call[r][i].wrote

\* The version a record has now is one of those since a text was written to it.
HashIsKnown ==
  \A r \in Requests : \A i \in CallsOf(r) :
    OwnText(r, i) /\ req[r].pc # "answered"
      => HashOf(FindOne(docs, Call(r, i).node)) \in since[r][i]

Covers(r) ==
  LET last == Len(script[r].calls) IN
  /\ "own" \in call[r][last].wrote /\ Call(r, last).node = req[r].node
  /\ \A i \in CallsOf(r) : OwnText(r, i) /\ Call(r, i).node = req[r].node
                             => req[r].hash \in since[r][i]

HashCovers ==
  \A r \in Requests :
    /\ req[r].signed => req[r].pc = "answered"
    /\ req[r].pc = "save" \/ req[r].signed => Covers(r)

\* The hash that is about to be stored is current, if nobody else was active
\* and no check of the request's own calls was left behind.
HashIsCurrent ==
  \A r \in Requests :
    /\ req[r].pc = "save" /\ ~ contended[r]
    /\ \A i \in CallsOf(r) : call[r][i].eth # "error"
    => req[r].hash = HashOf(FindOne(docs, req[r].node))

SignInv ==
  /\ ScriptsAreAsked /\ OverlapIsNoticed /\ ChecksEnd /\ HandlersEnd
  /\ FirstIsOwn /\ HashIsKnown /\ HashCovers /\ HashIsCurrent

LEMMA SignInit == Init => SignInv
<1> SUFFICES ASSUME Init PROVE SignInv
  OBVIOUS
<1>1. /\ \A r \in Requests, i \in Slots : call[r][i] = IdleCall
      /\ \A r \in Requests : req[r] = IdleRequest /\ script[r] = NoScript
      /\ \A r \in Requests : CallsOf(r) = {}
  BY InitialTypes DEF Init, CallsOf
<1>2. /\ IdleCall.pc = "idle" /\ IdleCall.eth = "none" /\ IdleCall.db = "none"
      /\ IdleCall.first = "none" /\ IdleCall.wrote = {}
      /\ IdleRequest.pc = "idle" /\ IdleRequest.signed = FALSE
  BY DEF IdleCall, IdleRequest
<1>3. "none" \notin Nodes
  BY GatewayAssumption
<1>4. ScriptsAreAsked /\ OverlapIsNoticed
  BY <1>1, <1>2 DEF ScriptsAreAsked, OverlapIsNoticed, Active
<1>5. ChecksEnd /\ HandlersEnd /\ FirstIsOwn
  BY <1>1, <1>2, <1>3 DEF ChecksEnd, HandlersEnd, FirstIsOwn, EthPending, DbPending
<1>6. HashIsKnown /\ HashCovers /\ HashIsCurrent
  BY <1>1, <1>2 DEF HashIsKnown, HashCovers, HashIsCurrent
<1> QED BY <1>4, <1>5, <1>6 DEF SignInv

LEMMA CallsAreSlots ==
  ASSUME ScriptsAreAsked, NEW r \in Requests
  PROVE  \A i \in CallsOf(r) : i \in Slots
<1>1. CASE script[r] = NoScript
  <2>1. Len(script[r].calls) = 0
    BY <1>1, InitialTypes
  <2> QED BY <2>1 DEF CallsOf
<1>2. CASE script[r] \in Scripts
  <2>1. Len(script[r].calls) \in 1..MaxCalls /\ MaxCalls \in Nat
    BY <1>2, GatewayAssumption DEF Slots
  <2> QED BY <2>1 DEF CallsOf, Slots
<1> QED BY <1>1, <1>2 DEF ScriptsAreAsked

\* A call that takes a step is busy.
LEMMA CallStepBusy ==
  ASSUME TypeInv, ChecksPending, NEW r \in Requests, NEW i \in Slots, CallStep(r, i)
  PROVE  Busy(r, i) /\ i \in CallsOf(r)
<1>1. call[r][i].pc \in {"run", "write"} \/ call[r][i].eth \in EthPending
      \/ call[r][i].db \in DbPending \cup {"save"}
  BY DEF CallStep, EthOwner, EthOwnerOf, EthLegacyOwner, DbOwner, DbManager, DbRole,
       SyncOwner, Reject, ReadRecord, WriteText,
       WriteField, ReadOwner, WriteOwner, SetNothing, ReadLEI, CreateEntity, Read,
       Running, Writing, EthPending, DbPending
<1>2. call[r][i].eth \in EthPending => call[r][i].pc = "run"
  BY DEF ChecksPending
<1> QED BY <1>1, <1>2, CallStepNotIdle, CallTypes DEF Busy, DbPending

LEMMA SignCallStep ==
  ASSUME TypeInv, ChecksPending, SignInv, NEW r \in Requests, NEW i \in Slots,
         CallStep(r, i)
  PROVE  SignInv'
<1> DEFINE c == call[r][i]  d == call'[r][i]
<1>1. /\ UNCHANGED <<script, req, contended>>
      /\ \A q \in Requests, j \in Slots : q # r \/ j # i => call'[q][j] = call[q][j]
  BY CallStepShape DEF OneCall, TypeInv, TypeOK
<1>2. /\ AnswersFollow(r, i) /\ WritesFollow(r, i)
      /\ NotesFollow(r, i) /\ HashesFollow(r, i)
  BY CallStepFollows, CallStepNotes
<1>3. Busy(r, i) /\ i \in CallsOf(r) /\ Active(r)
  BY CallStepBusy DEF Active
<1>4. \A q, j : Call(q, j)' = Call(q, j) /\ CallsOf(q)' = CallsOf(q)
  BY <1>1 DEF Call, CallsOf
<1>5. ASSUME NEW q \in Requests, Active(q)'
      PROVE  Active(q)
  <2>1. ASSUME NEW j \in CallsOf(q), Busy(q, j)' PROVE Busy(q, j)
    <3>1. j \in Slots
      BY <2>1, CallsAreSlots DEF SignInv
    <3>2. CASE q = r /\ j = i
      BY <1>2, <2>1, <3>2 DEF Busy, AnswersFollow, WritesFollow, DbPending
    <3>3. CASE q # r \/ j # i
      BY <1>1, <2>1, <3>1, <3>3 DEF Busy
    <3> QED BY <3>2, <3>3
  <2> QED BY <1>1, <1>4, <1>5, <2>1 DEF Active
<1>6. ScriptsAreAsked' /\ OverlapIsNoticed'
  BY <1>1, <1>5 DEF SignInv, ScriptsAreAsked, OverlapIsNoticed
<1>7. ChecksEnd'
  <2>1. ASSUME d.pc # "run" \/ Call(r, i).kind \notin Verified
        PROVE  \/ d.eth = "error"
               \/ d.eth \notin EthPending /\ d.db \notin DbPending \cup {"save"}
    <3>1. \/ c.eth = "error"
          \/ c.eth \notin EthPending /\ c.db \notin DbPending \cup {"save"}
      <4>1. CASE c.pc # "run" \/ Call(r, i).kind \notin Verified
        BY <4>1 DEF SignInv, ChecksEnd
      <4>2. CASE c.pc = "run" /\ Call(r, i).kind \in Verified
        BY <1>2, <2>1, <4>2
           DEF NotesFollow, VerifyFailed, Settled, EthPending, DbPending
      <4> QED BY <4>1, <4>2
    <3> QED BY <1>2, <3>1 DEF AnswersFollow, EthPending
  <2>2. ASSUME NEW q \in Requests, NEW j \in Slots,
               call'[q][j].pc # "run" \/ Call(q, j).kind \notin Verified
        PROVE  \/ call'[q][j].eth = "error"
               \/ /\ call'[q][j].eth \notin EthPending
                  /\ call'[q][j].db \notin DbPending \cup {"save"}
    <3>1. CASE q = r /\ j = i
      BY <2>1, <2>2, <3>1
    <3>2. CASE q # r \/ j # i
      BY <1>1, <2>2, <3>2 DEF SignInv, ChecksEnd
    <3> QED BY <3>1, <3>2
  <2> QED BY <1>4, <2>2 DEF ChecksEnd
<1>8. \A q \in Requests : \A j \in CallsOf(q) : j \in Slots
  BY CallsAreSlots DEF SignInv
<1>9. HandlersEnd'
  <2>1. ASSUME NEW q \in Requests, NEW j \in CallsOf(q),
               req[q].pc \in {"fetch", "save", "answered"}
        PROVE  call'[q][j].pc \notin {"run", "write"}
    <3>1. call[q][j].pc \notin {"run", "write"}
      BY <2>1 DEF SignInv, HandlersEnd
    <3> QED BY <1>1, <1>2, <1>8, <3>1 DEF WritesFollow
  <2> QED BY <1>1, <1>4, <2>1 DEF HandlersEnd
<1>10. FirstIsOwn'
  BY <1>1, <1>2, <1>4 DEF SignInv, FirstIsOwn, NotesFollow
<1>11. HashIsKnown'
  <2>1. ASSUME NEW q \in Requests, NEW j \in CallsOf(q), OwnText(q, j)',
               req[q].pc # "answered"
        PROVE  NewHash(q, j) \in since'[q][j]
    <3>0. j \in Slots /\ Call(q, j)' = Call(q, j)
      BY <1>4, <1>8
    <3>1. CASE OwnText(q, j)
      <4>1. HashOf(FindOne(docs, Call(q, j).node)) \in since[q][j]
        BY <2>1, <3>1 DEF SignInv, HashIsKnown
      <4>2. docs' = docs /\ since' = since => NewHash(q, j) \in since'[q][j]
        BY <1>4, <4>1 DEF NewHash
      <4> QED BY <1>2, <2>1, <3>0, <4>1, <4>2 DEF HashesFollow
    <3>2. CASE ~ OwnText(q, j)
      <4>1. q = r /\ j = i
        BY <1>1, <2>1, <3>0, <3>2 DEF OwnText
      <4> QED BY <1>2, <2>1, <3>0, <3>2, <4>1 DEF HashesFollow, OwnText
    <3> QED BY <3>1, <3>2
  <2> QED BY <1>1, <1>4, <2>1 DEF HashIsKnown, NewHash
<1>12. HashCovers'
  <2>1. ASSUME NEW q \in Requests, req[q].pc = "save" \/ req[q].signed
        PROVE  Covers(q)'
    <3> DEFINE last == Len(script[q].calls)
    <3>1. Covers(q) /\ req[q].pc \in {"save", "answered"}
      BY <2>1 DEF SignInv, HashCovers
    <3>2. last \in Slots
      BY <3>1, GatewayAssumption DEF SignInv, ScriptsAreAsked, ScriptType
    <3>3. \A j \in CallsOf(q) : call[q][j].pc \notin {"run", "write"}
      BY <3>1 DEF SignInv, HandlersEnd
    <3>4. "own" \in call'[q][last].wrote
      BY <1>1, <1>2, <3>1, <3>2 DEF Covers, NotesFollow
    <3>5. ASSUME NEW j \in CallsOf(q), OwnText(q, j)', Call(q, j).node = req[q].node
          PROVE  req[q].hash \in since'[q][j]
      <4>1. j \in Slots /\ call[q][j].pc \notin {"run", "write"}
            /\ Call(q, j)' = Call(q, j)
        BY <1>4, <1>8, <3>3
      <4>2. OwnText(q, j)
        <5>1. CASE q = r /\ j = i
          BY <1>2, <3>5, <4>1, <5>1 DEF OwnText, HashesFollow
        <5>2. CASE q # r \/ j # i
          BY <1>1, <3>5, <4>1, <5>2 DEF OwnText
        <5> QED BY <5>1, <5>2
      <4>3. req[q].hash \in since[q][j]
        BY <3>1, <3>5, <4>2 DEF Covers
      <4>4. since[q][j] \subseteq since'[q][j] \/ call[q][j].pc = "write"
        BY <1>2, <4>1 DEF HashesFollow
      <4> QED BY <4>1, <4>3, <4>4
    <3>6. Call(q, last).node = req[q].node
      BY <3>1 DEF Covers
    <3> QED BY <1>1, <1>4, <3>4, <3>5, <3>6 DEF Covers
  <2> QED BY <1>1, <2>1 DEF SignInv, HashCovers
<1>13. HashIsCurrent'
  <2>1. ASSUME NEW q \in Requests, req[q].pc = "save", ~ contended[q]
        PROVE  \E j \in CallsOf(q) : call'[q][j].eth = "error"
    <3>1. q = r
      BY <1>3, <2>1 DEF SignInv, OverlapIsNoticed, Active
    <3>2. c.pc \notin {"run", "write"}
      BY <1>3, <2>1, <3>1 DEF SignInv, HandlersEnd
    <3>3. c.eth = "error"
      BY <1>3, <3>2 DEF SignInv, ChecksEnd, Busy, DbPending
    <3>4. d.eth = "error"
      BY <1>2, <3>3 DEF AnswersFollow, EthPending
    <3> QED BY <1>3, <3>1, <3>4
  <2> QED BY <1>1, <1>4, <2>1 DEF HashIsCurrent
<1> QED BY <1>6, <1>7, <1>9, <1>10, <1>11, <1>12, <1>13 DEF SignInv

\* What a call is when it arrives.
LEMMA StartFacts ==
  ASSUME NEW s, NEW i \in Nat, Len(s.calls) \in Nat
  PROVE  /\ StartOf(s, i).pc = IF i > Len(s.calls) THEN "idle" ELSE "run"
         /\ i > Len(s.calls) => StartOf(s, i) = IdleCall
         /\ StartOf(s, i).wrote = {} /\ StartOf(s, i).first = "none"
         /\ ~ (i <= Len(s.calls) /\ s.calls[i].kind \in Verified)
              => StartOf(s, i).eth = "none" /\ StartOf(s, i).db = "none"
<1> DEFINE run == [IdleCall EXCEPT !.pc = "run"]
           checked(e) == [IdleCall EXCEPT !.pc = "run", !.eth = e, !.db = e]
<1>1. /\ IdleCall.pc = "idle" /\ IdleCall.wrote = {} /\ IdleCall.first = "none"
      /\ IdleCall.eth = "none" /\ IdleCall.db = "none"
  BY DEF IdleCall
<1>2. /\ run.pc = "run" /\ run.wrote = {} /\ run.first = "none"
      /\ run.eth = "none" /\ run.db = "none"
      /\ \A e : /\ checked(e).pc = "run" /\ checked(e).wrote = {}
                /\ checked(e).first = "none"
  BY DEF IdleCall
<1> HIDE DEF run, checked
<1>3. CASE i > Len(s.calls)
  BY <1>1, <1>3 DEF StartOf
<1>4. CASE i <= Len(s.calls) /\ s.calls[i].kind \in Verified
  <2>1. StartOf(s, i) = checked(IF s.chainOk THEN "todo" ELSE "no")
    BY <1>4 DEF StartOf, checked
  <2> QED BY <1>2, <1>4, <2>1
<1>5. CASE i <= Len(s.calls) /\ s.calls[i].kind \notin Verified
  <2>1. StartOf(s, i) = run
    BY <1>5 DEF StartOf, run
  <2> QED BY <1>2, <1>5, <2>1
<1> QED BY <1>3, <1>4, <1>5

LEMMA SignArrive ==
  ASSUME TypeInv, SignInv, NEW r \in Requests, Arrive(r)
  PROVE  SignInv'
<1>1. PICK s \in Scripts :
        /\ script' = [script EXCEPT ![r] = s]
        /\ call' = [call EXCEPT ![r] = [i \in Slots |-> StartOf(s, i)]]
  BY DEF Arrive
<1>2. /\ UNCHANGED <<docs, since>> /\ req[r].pc = "idle" /\ TypeOK
      /\ req' = [req EXCEPT ![r] = [req[r] EXCEPT !.pc = "run"]]
  BY DEF Arrive, store, TypeInv, TypeOK
<1>3. /\ req'[r].pc = "run" /\ req'[r].signed = FALSE
      /\ script'[r] = s /\ \A i \in Slots : call'[r][i] = StartOf(s, i)
  BY <1>1, <1>2 DEF TypeOK, RequestState, SignInv, HashCovers
<1>4. \A q \in Requests : q # r =>
        script'[q] = script[q] /\ call'[q] = call[q] /\ req'[q] = req[q]
  BY <1>1, <1>2 DEF TypeOK
<1>5. \A q \in Requests : q # r =>
        /\ CallsOf(q)' = CallsOf(q) /\ \A i : Call(q, i)' = Call(q, i)
        /\ Active(q)' = Active(q) /\ Covers(q)' = Covers(q)
        /\ \A i : OwnText(q, i)' = OwnText(q, i)
  BY <1>2, <1>4 DEF CallsOf, Call, Active, Busy, Covers, OwnText
<1>6. \A q \in Requests : contended'[q] =
        \/ contended[q]
        \/ q # r /\ Active(q)
        \/ q = r /\ \E p \in Requests \ {r} : Active(p)
  BY DEF Arrive
<1>0. Len(s.calls) \in Nat /\ \A i \in Slots : i \in Nat
  BY GatewayAssumption DEF ScriptType, Slots
<1>7. ScriptsAreAsked'
  BY <1>3, <1>4 DEF SignInv, ScriptsAreAsked
<1>8. OverlapIsNoticed'
  BY <1>5, <1>6 DEF SignInv, OverlapIsNoticed
<1>9. ChecksEnd'
  <2>1. ASSUME NEW i \in Slots, StartOf(s, i).pc # "run" \/ Call(r, i)'.kind \notin Verified
        PROVE  StartOf(s, i).eth = "none" /\ StartOf(s, i).db = "none"
    <3>1. Call(r, i)' = s.calls[i]
      BY <1>3 DEF Call
    <3>2. ~ (i <= Len(s.calls) /\ s.calls[i].kind \in Verified)
      BY <1>0, <2>1, <3>1, StartFacts
    <3> QED BY <1>0, <3>2, StartFacts
  <2> QED BY <1>3, <1>4, <1>5, <2>1 DEF SignInv, ChecksEnd, EthPending, DbPending
<1>10. HandlersEnd'
  BY <1>3, <1>4, <1>5 DEF SignInv, HandlersEnd
<1>11. FirstIsOwn'
  BY <1>0, <1>3, <1>4, <1>5, StartFacts, GatewayAssumption DEF SignInv, FirstIsOwn
<1>12. HashIsKnown'
  <2>1. ASSUME NEW i \in CallsOf(r)' PROVE ~ OwnText(r, i)'
    <3>1. i \in Slots
      <4>1. Len(s.calls) \in 1..MaxCalls /\ MaxCalls \in Nat
        BY GatewayAssumption DEF Slots
      <4> QED BY <1>3, <2>1, <4>1 DEF CallsOf, Slots
    <3> QED BY <1>0, <1>3, <3>1, StartFacts DEF OwnText
  <2> QED BY <1>2, <1>4, <1>5, <2>1 DEF SignInv, HashIsKnown
<1>13. HashCovers'
  BY <1>3, <1>4, <1>5 DEF SignInv, HashCovers
<1>14. HashIsCurrent'
  <2>1. ASSUME NEW q \in Requests, req'[q].pc = "save", ~ contended'[q],
               \A i \in CallsOf(q)' : call'[q][i].eth # "error"
        PROVE  req'[q].hash = HashOf(FindOne(docs', req'[q].node))
    <3>1. q # r /\ ~ contended[q]
      BY <1>3, <1>6, <2>1
    <3>2. \A i \in CallsOf(q) : call[q][i].eth # "error"
      BY <1>4, <1>5, <2>1, <3>1
    <3> QED BY <1>2, <1>4, <2>1, <3>1, <3>2 DEF SignInv, HashIsCurrent
  <2> QED BY <2>1 DEF HashIsCurrent
<1> QED BY <1>7, <1>8, <1>9, <1>10, <1>11, <1>12, <1>13, <1>14 DEF SignInv

\* What the middleware and the multicall do to a request.
RequestFollows(r) ==
  LET p == req[r]  q == req'[r] IN
  /\ p.pc \in {"run", "fetch", "save"} /\ q.pc \in {"fetch", "save", "answered"}
  /\ p.pc = "run" => \A i \in CallsOf(r) : call[r][i].pc = "done"
  /\ q.pc = "save" => /\ p.pc = "fetch" /\ q.node = SignedNode(r)
                      /\ Exists(docs, q.node) /\ docs' = docs
                      /\ q.hash = HashOf(FindOne(docs, q.node))
  /\ q.signed /\ ~ p.signed =>
       /\ p.pc = "save" /\ q.pc = "answered" /\ q.node = p.node /\ q.hash = p.hash
       /\ docs' = UpdateHash(docs, p.node, p.hash)

LEMMA RequestStepFollows ==
  ASSUME TypeInv, NEW r \in Requests, RequestStep(r)
  PROVE  RequestFollows(r)
<1>1. req \in [Requests -> RequestState] /\ req[r] \in RequestState
  BY DEF TypeInv, TypeOK
<1>2. ASSUME NEW s, Answer(r, s)
      PROVE  req'[r].pc = "answered" /\ req'[r].signed = req[r].signed
  <2>1. req'[r] = [req[r] EXCEPT !.pc = "answered", !.status = s]
    BY <1>1, <1>2 DEF Answer
  <2> QED BY <1>1, <2>1 DEF RequestState
<1>3. CASE Respond(r)
  <2>1. req[r].pc = "run" /\ \A i \in CallsOf(r) : call[r][i].pc = "done"
    BY <1>3 DEF Respond
  <2>2. CASE req' = [req EXCEPT ![r].pc = "fetch"]
    <3>1. req'[r] = [req[r] EXCEPT !.pc = "fetch"]
      BY <1>1, <2>2
    <3>2. req'[r].pc = "fetch" /\ req'[r].signed = req[r].signed
      BY <1>1, <3>1 DEF RequestState
    <3> QED BY <2>1, <3>2 DEF RequestFollows
  <2>3. ASSUME NEW s, Answer(r, s) PROVE RequestFollows(r)
    BY <1>2, <2>1, <2>3 DEF RequestFollows
  <2> QED BY <1>3, <2>2, <2>3 DEF Respond
<1>4. CASE SignFetch(r)
  <2> DEFINE n == SignedNode(r)  h == HashOf(FindOne(docs, n))
  <2>1. req[r].pc = "fetch" /\ docs' = docs
    BY <1>4 DEF SignFetch
  <2>2. CASE /\ Exists(docs, n)
             /\ req' = [req EXCEPT ![r].pc = "save", ![r].node = n, ![r].hash = h]
    <3>1. req'[r] = [req[r] EXCEPT !.pc = "save", !.node = n, !.hash = h]
      BY <1>1, <2>2
    <3> HIDE DEF n, h
    <3>2. /\ req'[r].pc = "save" /\ req'[r].signed = req[r].signed
          /\ req'[r].node = n /\ req'[r].hash = h
      BY <1>1, <3>1 DEF RequestState
    <3> QED BY <2>1, <2>2, <3>2 DEF RequestFollows, n, h
  <2>3. CASE Answer(r, 500)
    BY <1>2, <2>1, <2>3 DEF RequestFollows
  <2> QED BY <1>4, <2>2, <2>3 DEF SignFetch
<1>5. CASE SignSave(r)
  <2>1. req[r].pc = "save"
    BY <1>5 DEF SignSave
  <2>2. CASE /\ docs' = UpdateHash(docs, req[r].node, req[r].hash)
             /\ req' = [req EXCEPT ![r].pc = "answered", ![r].status = 200,
                                   ![r].signed = TRUE]
    <3>1. req'[r] = [req[r] EXCEPT !.pc = "answered", !.status = 200, !.signed = TRUE]
      BY <1>1, <2>2
    <3>2. /\ req'[r].pc = "answered" /\ req'[r].node = req[r].node
          /\ req'[r].hash = req[r].hash
      BY <1>1, <3>1 DEF RequestState
    <3> QED BY <2>1, <2>2, <3>2 DEF RequestFollows
  <2>3. CASE Answer(r, 500)
    BY <1>2, <2>1, <2>3 DEF RequestFollows
  <2> QED BY <1>5, <2>2, <2>3 DEF SignSave
<1> QED BY <1>3, <1>4, <1>5 DEF RequestStep

\* Storing a hash does not change what a record hashes to.
LEMMA SameHash ==
  ASSUME TypeInv, SameRecords, docs' \in Seq(Document), NEW n, Exists(docs, n)
  PROVE  /\ Exists(docs', n)
         /\ HashOf(FindOne(docs', n)) = HashOf(FindOne(docs, n))
         /\ FindOne(docs', n).fields = FindOne(docs, n).fields
<1>1. docs \in Seq(Document)
  BY DEF TypeInv, TypeOK
<1>2. First(docs', n) = First(docs, n) /\ Exists(docs', n)
  BY <1>1, SameFirst DEF SameRecords
<1>3. First(docs, n) \in 1..Len(docs)
  BY <1>1, FirstProperties
<1> QED BY <1>2, <1>3 DEF SameRecords, FindOne, HashOf

LEMMA SignRequestStep ==
  ASSUME TypeInv, SignInv, NEW r \in Requests, RequestStep(r)
  PROVE  SignInv'
<1> DEFINE p == req[r]  q == req'[r]
<1>1. PICK e \in RequestState : req' = [req EXCEPT ![r] = e]
  BY RequestStepShape
<1>2. /\ UNCHANGED <<script, call, since, contended>> /\ docs' \in Seq(Document)
      /\ SameRecords /\ RequestFollows(r)
  BY RequestStepShape, RequestStepDocs, RequestStepFollows DEF history
<1>3. \A s \in Requests : s # r => req'[s] = req[s]
  BY <1>1 DEF TypeInv, TypeOK
<1>4. \A s, i : /\ Call(s, i)' = Call(s, i) /\ CallsOf(s)' = CallsOf(s)
                /\ Busy(s, i)' = Busy(s, i) /\ OwnText(s, i)' = OwnText(s, i)
  BY <1>2 DEF Call, CallsOf, Busy, OwnText
<1>5. Active(r) /\ \A s \in Requests : Active(s)' => Active(s)
  BY <1>2, <1>3, <1>4 DEF Active, RequestFollows
<1>6. ScriptsAreAsked' /\ OverlapIsNoticed' /\ ChecksEnd' /\ FirstIsOwn'
  <2>1. ScriptsAreAsked'
    BY <1>2, <1>3 DEF SignInv, ScriptsAreAsked, RequestFollows
  <2>2. OverlapIsNoticed'
    BY <1>2, <1>5 DEF SignInv, OverlapIsNoticed
  <2>3. ChecksEnd' /\ FirstIsOwn'
    BY <1>2, <1>4 DEF SignInv, ChecksEnd, FirstIsOwn
  <2> QED BY <2>1, <2>2, <2>3
<1>7. HandlersEnd'
  <2>1. ASSUME NEW i \in CallsOf(r) PROVE call[r][i].pc \notin {"run", "write"}
    BY <1>2, <2>1 DEF RequestFollows, SignInv, HandlersEnd
  <2> QED BY <1>2, <1>3, <1>4, <2>1 DEF SignInv, HandlersEnd
<1>8. HashIsKnown'
  <2>1. ASSUME NEW s \in Requests, NEW i \in CallsOf(s), OwnText(s, i),
               req'[s].pc # "answered"
        PROVE  HashOf(FindOne(docs', Call(s, i).node)) \in since[s][i]
    <3>1. req[s].pc # "answered" /\ i \in Slots
      BY <1>2, <1>3, <2>1, CallsAreSlots DEF RequestFollows, SignInv
    <3>2. HashOf(FindOne(docs, Call(s, i).node)) \in since[s][i]
      BY <2>1, <3>1 DEF SignInv, HashIsKnown
    <3>3. Exists(docs, Call(s, i).node)
      BY <3>1, <3>2 DEF TypeInv, RecordsStay
    <3> QED BY <1>2, <3>2, <3>3, SameHash
  <2> QED BY <1>2, <1>4, <2>1 DEF HashIsKnown
<1>9. HashCovers'
  <2>1. ASSUME q.pc = "save" PROVE Covers(r)'
    <3> DEFINE n == SignedNode(r)  last == Len(script[r].calls)
    <3>1. /\ p.pc = "fetch" /\ q.node = n /\ Exists(docs, n)
          /\ q.hash = HashOf(FindOne(docs, n))
      BY <1>2, <2>1 DEF RequestFollows
    <3>2. n \in Nodes
      BY <3>1, FirstProperties DEF TypeInv, TypeOK
    <3>3. n = call[r][last].first
      BY <3>2, GatewayAssumption DEF SignedNode
    <3>4. last \in Slots
      BY <3>1, GatewayAssumption DEF SignInv, ScriptsAreAsked
    <3>5. Call(r, last).node = n /\ "own" \in call[r][last].wrote
      BY <3>2, <3>3, <3>4 DEF SignInv, FirstIsOwn
    <3>6. ASSUME NEW i \in CallsOf(r), OwnText(r, i), Call(r, i).node = n
          PROVE  HashOf(FindOne(docs, n)) \in since[r][i]
      BY <3>1, <3>6 DEF SignInv, HashIsKnown
    <3> HIDE DEF n
    <3> QED BY <1>2, <1>4, <3>1, <3>5, <3>6 DEF Covers
  <2>2. ~ p.signed
    BY <1>2 DEF RequestFollows, SignInv, HashCovers
  <2>3. ASSUME q.signed PROVE Covers(r)' /\ q.pc = "answered"
    <3>1. Covers(r) /\ q.node = p.node /\ q.hash = p.hash /\ q.pc = "answered"
      BY <1>2, <2>2, <2>3 DEF RequestFollows, SignInv, HashCovers
    <3> QED BY <1>2, <1>4, <3>1 DEF Covers
  <2>4. ASSUME NEW s \in Requests, s # r PROVE Covers(s)' = Covers(s)
    BY <1>2, <1>3, <1>4, <2>4 DEF Covers
  <2> QED BY <1>3, <2>1, <2>3, <2>4 DEF SignInv, HashCovers
<1>10. HashIsCurrent'
  <2>1. ASSUME NEW s \in Requests, req'[s].pc = "save", ~ contended[s]
        PROVE  req'[s].hash = HashOf(FindOne(docs', req'[s].node))
    <3>1. s = r
      BY <1>2, <1>3, <1>5, <2>1 DEF SignInv, OverlapIsNoticed, Active
    <3> QED BY <1>2, <2>1, <3>1 DEF RequestFollows
  <2> QED BY <1>2, <2>1 DEF HashIsCurrent
<1> QED BY <1>6, <1>7, <1>8, <1>9, <1>10 DEF SignInv

LEMMA SignCrash ==
  ASSUME TypeInv, SignInv, Crash
  PROVE  SignInv'
<1>1. UNCHANGED <<docs, script, since, contended>>
  BY DEF Crash, history
<1>2. \A s, i : Call(s, i)' = Call(s, i) /\ CallsOf(s)' = CallsOf(s)
  BY <1>1 DEF Call, CallsOf
<1>3. ASSUME NEW s \in Requests
      PROVE  /\ req'[s].pc \in {"idle", "answered", "lost"}
             /\ req'[s].pc \in {"idle", "answered"} => req'[s] = req[s]
             /\ req[s].pc \in {"idle", "answered"} => req'[s] = req[s]
             /\ req'[s].pc = "lost" => req[s].pc # "answered"
             /\ req'[s].signed = req[s].signed
  <2>1. req[s] \in RequestState
    BY DEF TypeInv, TypeOK
  <2>2. req'[s] = IF req[s].pc \in {"run", "fetch", "save"}
                  THEN [req[s] EXCEPT !.pc = "lost"] ELSE req[s]
    BY DEF Crash
  <2> QED BY <2>1, <2>2 DEF RequestState, RequestPcs
<1>4. ASSUME NEW s \in Requests, NEW i \in Slots
      PROVE  /\ call'[s][i].wrote = call[s][i].wrote
             /\ call'[s][i].first = call[s][i].first
             /\ \/ call'[s][i] = call[s][i] /\ call[s][i].pc = "idle"
                \/ /\ call'[s][i].pc = "lost"
                   /\ call'[s][i].eth = "none" /\ call'[s][i].db = "none"
  <2>1. call[s][i] \in CallState
    BY DEF TypeInv, TypeOK
  <2>2. call'[s][i] = IF call[s][i].pc = "idle" THEN call[s][i]
          ELSE [call[s][i] EXCEPT !.pc = "lost", !.eth = "none", !.db = "none"]
    BY DEF Crash
  <2> QED BY <2>1, <2>2 DEF CallState
<1>5. ScriptsAreAsked'
  BY <1>1, <1>3 DEF SignInv, ScriptsAreAsked
<1>6. OverlapIsNoticed'
  <2>1. ASSUME NEW s \in Requests, Active(s)' PROVE Active(s)
    <3>1. PICK i \in CallsOf(s) : Busy(s, i)'
      BY <1>2, <1>3, <2>1 DEF Active
    <3>2. i \in Slots
      BY CallsAreSlots DEF SignInv
    <3>3. Busy(s, i)
      BY <1>4, <3>1, <3>2 DEF Busy
    <3> QED BY <3>3 DEF Active
  <2> QED BY <1>1, <2>1 DEF SignInv, OverlapIsNoticed
<1>7. ChecksEnd'
  BY <1>2, <1>4 DEF SignInv, ChecksEnd, EthPending, DbPending
<1>8. HandlersEnd'
  <2>1. ASSUME NEW s \in Requests, NEW i \in CallsOf(s)
        PROVE  call'[s][i].pc \notin {"run", "write"}
    <3>1. i \in Slots
      BY CallsAreSlots DEF SignInv
    <3> QED BY <1>4, <3>1
  <2> QED BY <1>2, <2>1 DEF HandlersEnd
<1>9. FirstIsOwn'
  BY <1>2, <1>4 DEF SignInv, FirstIsOwn
<1>10. ASSUME NEW s \in Requests, NEW i \in CallsOf(s)
       PROVE  OwnText(s, i)' = OwnText(s, i)
  <2>1. i \in Slots
    BY CallsAreSlots DEF SignInv
  <2> QED BY <1>2, <1>4, <2>1 DEF OwnText
<1>11. HashIsKnown'
  <2>1. ASSUME NEW s \in Requests, NEW i \in CallsOf(s), OwnText(s, i),
               req'[s].pc # "answered"
        PROVE  HashOf(FindOne(docs, Call(s, i).node)) \in since[s][i]
    <3>1. req[s].pc # "answered"
      BY <1>3, <2>1
    <3> QED BY <2>1, <3>1 DEF SignInv, HashIsKnown
  <2> QED BY <1>1, <1>2, <1>10, <2>1 DEF HashIsKnown
<1>12. HashCovers'
  <2>1. ASSUME NEW s \in Requests, req'[s].signed
        PROVE  req'[s].pc = "answered" /\ Covers(s)'
    <3> DEFINE last == Len(script[s].calls)
    <3>1. req'[s] = req[s] /\ req[s].pc = "answered" /\ Covers(s)
      BY <1>3, <2>1 DEF SignInv, HashCovers
    <3>2. last \in Slots
      BY <3>1, GatewayAssumption DEF SignInv, ScriptsAreAsked
    <3> QED BY <1>1, <1>2, <1>4, <1>10, <3>1, <3>2 DEF Covers
  <2> QED BY <1>3, <2>1 DEF HashCovers
<1>13. HashIsCurrent'
  BY <1>3 DEF HashIsCurrent
<1> QED BY <1>5, <1>6, <1>7, <1>8, <1>9, <1>11, <1>12, <1>13 DEF SignInv

LEMMA SignSame ==
  ASSUME SignInv, UNCHANGED <<docs, script, call, req, since, contended>>
  PROVE  SignInv'
BY DEF SignInv, ScriptsAreAsked, OverlapIsNoticed, ChecksEnd, HandlersEnd,
       FirstIsOwn, HashIsKnown, HashCovers, HashIsCurrent, Covers, OwnText,
       Active, Busy, Call, CallsOf

LEMMA SignStep == TypeInv /\ ChecksPending /\ SignInv /\ [Next]_vars => SignInv'
<1> SUFFICES ASSUME TypeInv, ChecksPending, SignInv, [Next]_vars PROVE SignInv'
  OBVIOUS
<1>1. ASSUME NEW r \in Requests, Arrive(r) PROVE SignInv'
  BY <1>1, SignArrive
<1>2. ASSUME NEW r \in Requests, RequestStep(r) PROVE SignInv'
  BY <1>2, SignRequestStep
<1>3. ASSUME NEW r \in Requests, NEW i \in Slots, CallStep(r, i) PROVE SignInv'
  BY <1>3, SignCallStep
<1>4. CASE (\E n \in Nodes : Move(n)) \/ Regroup
  BY <1>4, MoveBecomes, SignSame DEF Becomes, history
<1>5. CASE Crash
  BY <1>5, SignCrash
<1>6. CASE UNCHANGED vars
  BY <1>6, SignSame DEF vars, history
<1> QED BY <1>1, <1>2, <1>3, <1>4, <1>5, <1>6 DEF Next

LEMMA SignInvariance == Spec => [](TypeInv /\ SignInv)
<1>1. Entitlement => ChecksPending
  BY DEF Entitlement
<1> QED BY <1>1, SignInit, SignStep, EntitlementInvariance, PTL DEF Spec

\* What the gateway signs after a write is the hash of a version of the record
\* that has every text of the request, whatever else is written in the
\* meantime and however many calls the request has (signer.ts:42-75).
THEOREM SignedHashCovers == Spec => []SignedHashCoversOwnWrites
<1>1. SignInv => SignedHashCoversOwnWrites
  BY DEF SignInv, HashCovers, Covers, OwnText, SignedHashCoversOwnWrites
<1> QED BY <1>1, SignInvariance, PTL

\* A request that overlaps no other leaves the stored hash current, and that is
\* the hash it signs (signer.ts:35-40): from the fetch to the update nobody
\* writes, unless a verifier was left behind by a failed check.
THEOREM UncontendedCurrent == Spec => UncontendedHashIsCurrent
<1> DEFINE Good(r) ==
      LET n == req'[r].node IN
      (req'[r].signed /\ ~ req[r].signed /\ ~ contended[r]
         /\ \A i \in CallsOf(r) : call[r][i].eth # "error")
      => /\ FindOne(docs', n).hash = HashOf(FindOne(docs', n))
         /\ req'[r].hash = FindOne(docs', n).hash
<1>1. ASSUME TypeInv, SignInv, Next, NEW r \in Requests, req'[r].signed, ~ req[r].signed
      PROVE  RequestStep(r)
  <2>1. ASSUME NEW s \in Requests, s # r, RequestStep(s) PROVE FALSE
    <3>1. \E e \in RequestState : req' = [req EXCEPT ![s] = e]
      BY <1>1, <2>1, RequestStepShape
    <3> QED BY <1>1, <2>1, <3>1 DEF TypeInv, TypeOK
  <2>2. ASSUME NEW s \in Requests, Arrive(s) PROVE FALSE
    <3>1. req' = [req EXCEPT ![s] = [req[s] EXCEPT !.pc = "run"]]
      BY <1>1, <2>2 DEF Arrive, TypeInv, TypeOK
    <3> QED BY <1>1, <3>1 DEF TypeInv, TypeOK, RequestState
  <2>3. CASE Crash
    <3>1. req'[r] = IF req[r].pc \in {"run", "fetch", "save"}
                    THEN [req[r] EXCEPT !.pc = "lost"] ELSE req[r]
      BY <2>3 DEF Crash
    <3> QED BY <1>1, <3>1 DEF TypeInv, TypeOK, RequestState
  <2>4. ASSUME NEW s \in Requests, NEW i \in Slots, CallStep(s, i) PROVE FALSE
    BY <1>1, <2>4, CallStepShape DEF OneCall
  <2>5. CASE (\E n \in Nodes : Move(n)) \/ Regroup
    BY <1>1, <2>5, MoveBecomes DEF Becomes
  <2> QED BY <1>1, <2>1, <2>2, <2>3, <2>4, <2>5 DEF Next
<1>2. ASSUME TypeInv, SignInv, Next, NEW r \in Requests
      PROVE  Good(r)
  <2> SUFFICES ASSUME req'[r].signed, ~ req[r].signed, ~ contended[r],
                      \A i \in CallsOf(r) : call[r][i].eth # "error"
               PROVE  /\ FindOne(docs', req'[r].node).hash
                           = HashOf(FindOne(docs', req'[r].node))
                      /\ req'[r].hash = FindOne(docs', req'[r].node).hash
    OBVIOUS
  <2> DEFINE n == req[r].node  h == req[r].hash
  <2>1. RequestStep(r)
    BY <1>1, <1>2
  <2>2. /\ req[r].pc = "save" /\ req'[r].node = n /\ req'[r].hash = h
        /\ docs' = UpdateHash(docs, n, h)
    BY <1>2, <2>1, RequestStepFollows DEF RequestFollows
  <2>3. Exists(docs, n) /\ h \in Hash /\ docs \in Seq(Document)
    BY <1>2, <2>2 DEF TypeInv, TypeOK, RecordsStay, RequestState
  <2>4. h = HashOf(FindOne(docs, n))
    BY <1>2, <2>2 DEF SignInv, HashIsCurrent
  <2>5. HashOf(FindOne(docs', n)) = HashOf(FindOne(docs, n))
    BY <1>2, <2>1, <2>3, SameHash, RequestStepDocs, RequestStepShape
  <2>6. FindOne(docs', n).hash = h
    BY <2>2, <2>3, UpdateHashStores
  <2> QED BY <2>2, <2>4, <2>5, <2>6
<1>3. TypeInv /\ SignInv /\ [Next]_vars => [\A r \in Requests : Good(r)]_vars
  BY <1>2
<1> QED BY <1>3, SignInvariance, PTL DEF Spec, UncontendedHashIsCurrent

-----------------------------------------------------------------------------
(* What the readers see of one step of a call *)

NoFields == [f \in Fields |-> Absent]

\* A call that is not idle has arrived.
IdleIsUntouched ==
  \A r \in Requests, i \in Slots : call[r][i].pc = "idle" => call[r][i] = IdleCall

\* nothing; or the owner of its node, before the call ends; or, as it ends, the
\* field it names
EffectFollows(r, i) ==
  LET c == call[r][i]  d == call'[r][i]  w == Call(r, i)
      old == View(docs)  new == View(docs')
      found == Exists(docs, w.node) IN
  \/ /\ new = old
     /\ d.pc = c.pc \/ (c.pc \in {"run", "write"} /\ d.pc \in {"write", "done"})
  \/ /\ d.pc = c.pc
     /\ \E v \in Values : new = [old EXCEPT ![w.node] =
          [(IF found THEN old[w.node] ELSE NoFields) EXCEPT !["owner"] = v]]
  \/ /\ c.pc \in {"run", "write"} /\ d.pc = "done"
     /\ \/ /\ w.kind \in {"setText", "setField"} /\ found
           /\ new = [old EXCEPT ![w.node][w.field] = w.value]
        \/ /\ w.kind = "transfer" /\ found
           /\ \E v \in Values : new = [old EXCEPT ![w.node]["owner"] = v]
        \/ /\ w.kind = "register"
           /\ new = IF found THEN old
                    ELSE [old EXCEPT ![w.node] = [NoFields EXCEPT ![w.field] = w.value]]

LEMMA SetFieldEffect ==
  ASSUME TypeInv, NEW r \in Requests, NEW i \in Slots,
         NEW n \in Nodes, NEW f \in Fields, NEW v \in Values,
         SetField(r, i, call[r][i], n, f, v)
  PROVE  /\ call'[r][i].pc = "done"
         /\ \/ View(docs') = View(docs)
            \/ Exists(docs, n) /\ View(docs') = [View(docs) EXCEPT ![n][f] = v]
<1>1. \E d \in CallState : d.pc = "done" /\ call' = [call EXCEPT ![r][i] = d]
  BY SetFieldShape
<1>2. call'[r][i].pc = "done"
  BY <1>1 DEF TypeInv, TypeOK
<1>3. docs' = docs \/ (Exists(docs, n) /\ docs' = UpdateField(docs, n, f, v))
  BY DEF SetField, Store
<1>4. docs \in Seq(Document)
  BY DEF TypeInv, TypeOK
<1> QED BY <1>2, <1>3, <1>4, ViewUpdate

LEMMA CallStepEffect ==
  ASSUME TypeInv, NEW r \in Requests, NEW i \in Slots, CallStep(r, i)
  PROVE  EffectFollows(r, i)
<1> DEFINE c == call[r][i]  d == call'[r][i]  w == Call(r, i)
           wrote == [c EXCEPT !.wrote = @ \cup {"own"}]
<1>1. /\ c \in CallState /\ call \in [Requests -> [Slots -> CallState]]
      /\ docs \in Seq(Document)
  BY DEF TypeInv, TypeOK
<1>2. /\ w \in CallType /\ w.node \in Nodes /\ w.field \in Fields /\ w.value \in Values
      /\ script[r].account \in Values /\ "owner" \in Fields
  BY CallStepNotIdle, CallTypes, GatewayAssumption, RecordAssumption DEF CallType
<1>3. wrote \in CallState
  BY <1>1 DEF CallState
<1>19. ASSUME NEW n \in Nodes, NEW f \in Fields, NEW v \in Values, NEW new,
              Exists(docs, n), new = UpdateField(docs, n, f, v)
       PROVE  View(new) = [View(docs) EXCEPT ![n][f] = v]
  BY <1>1, <1>19, ViewUpdate
<1> HIDE DEF wrote
\* a call that ends, or goes on, without an effect
<1>4. ASSUME NEW e \in CallState, NEW s, NEW u, Finish(r, i, e, s, u), docs' = docs,
             c.pc \in {"run", "write"}
      PROVE  EffectFollows(r, i)
  <2>1. d.pc = "done"
    BY <1>4, FinishEffect
  <2> QED BY <1>4, <2>1 DEF EffectFollows
<1>5. ASSUME docs' = docs, d.pc = c.pc \/ (c.pc \in {"run", "write"} /\ d.pc = "write")
      PROVE  EffectFollows(r, i)
  BY <1>5 DEF EffectFollows
<1>6. CASE VerifierStep(r, i)
  <2>1. PICK e \in CallState :
          call' = [call EXCEPT ![r][i] = e] /\ e.pc = c.pc
    BY <1>6, VerifierShape
  <2>2. d = e
    BY <1>1, <2>1
  <2>3. docs' = docs
    BY <1>6, VerifierShape
  <2> QED BY <1>5, <2>1, <2>2, <2>3
<1>8. CASE SyncOwner(r, i)
  <2> DEFINE saved == [c EXCEPT !.wrote = @ \cup {"sync"}]
             n == w.node  a == script[r].account
  <2>1. PICK b : \/ call' = [call EXCEPT ![r][i] = [saved EXCEPT !.db = b]]
                 \/ call' = [call EXCEPT ![r][i] = [c EXCEPT !.db = b]]
    BY <1>8 DEF SyncOwner
  <2>2. d = [saved EXCEPT !.db = b] \/ d = [c EXCEPT !.db = b]
    BY <1>1, <2>1
  <2>3. d.pc = c.pc
    BY <1>1, <2>2 DEF CallState
  <2>4. \/ docs' = docs
        \/ Exists(docs, n) /\ docs' = UpdateField(docs, n, "owner", a)
        \/ ~ Exists(docs, n) /\ docs' = Append(docs, Stub(n, a))
    BY <1>8 DEF SyncOwner, Store
  <2>5. CASE docs' = docs
    BY <1>5, <2>3, <2>5
  <2>6. CASE Exists(docs, n) /\ docs' = UpdateField(docs, n, "owner", a)
    <3>1. View(docs') = [View(docs) EXCEPT ![n]["owner"] = a]
      BY <1>2, <1>19, <2>6
    <3> QED BY <1>2, <2>3, <2>6, <3>1 DEF EffectFollows
  <2>7. CASE ~ Exists(docs, n) /\ docs' = Append(docs, Stub(n, a))
    <3>1. Stub(n, a) \in Document /\ Stub(n, a).node = n
      BY <1>2, InsertedTypes
    <3>2. Stub(n, a).fields = [NoFields EXCEPT !["owner"] = a]
      BY <1>2 DEF Stub, NoFields
    <3>3. View(docs') = [View(docs) EXCEPT ![n] = [NoFields EXCEPT !["owner"] = a]]
      BY <1>1, <2>7, <3>1, <3>2, ViewAppend
    <3> QED BY <1>2, <2>3, <2>7, <3>3 DEF EffectFollows
  <2> QED BY <2>4, <2>5, <2>6, <2>7
<1>9. CASE Reject(r, i)
  <2>1. PICK s : Finish(r, i, c, s, "other")
    BY <1>9 DEF Reject
  <2> QED BY <1>1, <1>4, <1>9, <2>1 DEF Reject, store
<1>10. CASE ReadRecord(r, i)
  <2>1. c.pc = "run" /\ docs' = docs
    BY <1>10 DEF ReadRecord, Running
  <2>2. CASE Finish(r, i, c, 400, "other")
    BY <1>1, <1>4, <2>1, <2>2
  <2>3. ASSUME NEW h, call' = [call EXCEPT ![r][i].pc = "write", ![r][i].hash = h]
        PROVE  EffectFollows(r, i)
    <3>1. d = [c EXCEPT !.pc = "write", !.hash = h]
      BY <1>1, <2>3
    <3>2. d.pc = "write"
      BY <1>1, <3>1 DEF CallState
    <3> QED BY <1>5, <2>1, <3>2
  <2> QED BY <1>10, <2>2, <2>3 DEF ReadRecord
<1>11. CASE WriteText(r, i)
  <2> DEFINE half == UpdateField(docs, w.node, w.field, w.value)
  <2>1. c.pc = "write" /\ w.kind = "setText"
    BY <1>11 DEF WriteText, Writing
  <2>2. Exists(docs, w.node)
    BY <2>1 DEF TypeInv, RecordsStay
  <2>3. \E e, s, u : e \in {c, wrote} /\ Finish(r, i, e, s, u)
    BY <1>11 DEF WriteText, wrote
  <2>4. d.pc = "done"
    BY <1>1, <1>3, <2>3, FinishEffect
  <2>5. docs' = docs \/ docs' = UpdateHash(half, w.node, c.hash)
    BY <1>11 DEF WriteText, Store
  <2>6. CASE docs' = docs
    BY <2>1, <2>4, <2>6 DEF EffectFollows
  <2>7. CASE docs' = UpdateHash(half, w.node, c.hash)
    <3>1. half \in Seq(Document) /\ Keeps(docs, half)
      BY <1>1, <1>2, <2>2, UpdatesKeep
    <3>2. Exists(half, w.node) /\ c.hash \in Hash
      BY <1>1, <2>2, <3>1, KeepsExists DEF CallState
    <3>3. View(docs') = View(half)
      BY <2>7, <3>1, <3>2, UpdateHashProperties, ViewSame
    <3>5. half = UpdateField(docs, w.node, w.field, w.value)
      OBVIOUS
    <3> HIDE DEF half
    <3>4. View(half) = [View(docs) EXCEPT ![w.node][w.field] = w.value]
      BY <1>2, <1>19, <2>2, <3>5
    <3> QED BY <2>1, <2>2, <2>4, <3>3, <3>4 DEF EffectFollows
  <2> QED BY <2>5, <2>6, <2>7
<1>12. CASE WriteField(r, i)
  <2>1. /\ SetField(r, i, c, w.node, w.field, w.value)
        /\ w.kind = "setField" /\ c.pc = "run"
    BY <1>12 DEF WriteField, Running
  <2>2. /\ d.pc = "done"
        /\ \/ View(docs') = View(docs)
           \/ /\ Exists(docs, w.node)
              /\ View(docs') = [View(docs) EXCEPT ![w.node][w.field] = w.value]
    BY <1>2, <2>1, SetFieldEffect
  <2> QED BY <2>1, <2>2 DEF EffectFollows
<1>13. CASE ReadOwner(r, i)
  <2>1. c.pc = "run" /\ docs' = docs
    BY <1>13 DEF ReadOwner, Running
  <2>2. CASE Finish(r, i, c, 400, "other")
    BY <1>1, <1>4, <2>1, <2>2
  <2>3. ASSUME NEW o, call' = [call EXCEPT ![r][i].pc = "write", ![r][i].owner = o]
        PROVE  EffectFollows(r, i)
    <3>1. d = [c EXCEPT !.pc = "write", !.owner = o]
      BY <1>1, <2>3
    <3>2. d.pc = "write"
      BY <1>1, <3>1 DEF CallState
    <3> QED BY <1>5, <2>1, <3>2
  <2> QED BY <1>13, <2>2, <2>3 DEF ReadOwner
<1>14. CASE WriteOwner(r, i)
  <2>1. /\ SetField(r, i, c, w.node, "owner", c.owner)
        /\ w.kind = "transfer" /\ c.pc = "write"
    BY <1>14 DEF WriteOwner, Writing
  <2>2. c.owner \in Values
    BY <1>1, GatewayAssumption DEF CallState
  <2>3. /\ d.pc = "done"
        /\ \/ View(docs') = View(docs)
           \/ /\ Exists(docs, w.node)
              /\ View(docs') = [View(docs) EXCEPT ![w.node]["owner"] = c.owner]
    BY <1>2, <2>1, <2>2, SetFieldEffect
  <2> QED BY <2>1, <2>2, <2>3 DEF EffectFollows
<1>15. CASE SetNothing(r, i)
  <2>1. c.pc = "run" /\ Finish(r, i, c, 200, "0x") /\ docs' = docs
    BY <1>15 DEF SetNothing, Running, store
  <2> QED BY <1>1, <1>4, <2>1
<1>16. CASE ReadLEI(r, i)
  <2>1. c.pc = "run" /\ docs' = docs
    BY <1>16 DEF ReadLEI, Running
  <2>2. CASE Finish(r, i, c, 400, "other")
    BY <1>1, <1>4, <2>1, <2>2
  <2>3. CASE call' = [call EXCEPT ![r][i].pc = "write"]
    <3>1. d = [c EXCEPT !.pc = "write"]
      BY <1>1, <2>3
    <3>2. d.pc = "write"
      BY <1>1, <3>1 DEF CallState
    <3> QED BY <1>5, <2>1, <3>2
  <2> QED BY <1>16, <2>2, <2>3 DEF ReadLEI
<1>17. CASE CreateEntity(r, i)
  <2> DEFINE entity == Entity(w.node, w.field, w.value)
  <2>1. c.pc = "write" /\ w.kind = "register"
    BY <1>17 DEF CreateEntity, Writing
  <2>2. \E e, s : e \in {c, wrote} /\ Finish(r, i, e, s, "other")
    BY <1>17 DEF CreateEntity, wrote
  <2>3. d.pc = "done"
    BY <1>1, <1>3, <2>2, FinishEffect
  <2>4. docs' = docs \/ docs' = Append(docs, entity)
    BY <1>17 DEF CreateEntity, Store
  <2>5. CASE docs' = docs
    BY <2>1, <2>3, <2>5 DEF EffectFollows
  <2>6. CASE docs' = Append(docs, entity)
    <3>1. entity \in Document /\ entity.node = w.node
      BY <1>2, InsertedTypes
    <3>2. entity.fields = [NoFields EXCEPT ![w.field] = w.value]
      BY <1>2 DEF Entity, NoFields
    <3>3. View(docs') =
            IF Exists(docs, w.node) THEN View(docs)
            ELSE [View(docs) EXCEPT ![w.node] = [NoFields EXCEPT ![w.field] = w.value]]
      BY <1>1, <2>6, <3>1, <3>2, ViewAppend
    <3> QED BY <2>1, <2>3, <3>3 DEF EffectFollows
  <2> QED BY <2>4, <2>5, <2>6
<1>18. CASE Read(r, i)
  <2>1. c.pc = "run" /\ docs' = docs
    BY <1>18 DEF Read, Running
  <2>2. PICK s \in {200, 500}, u \in {"0x", "other"} : Finish(r, i, c, s, u)
    BY <1>18 DEF Read
  <2> QED BY <1>1, <1>4, <2>1, <2>2
<1> QED BY <1>6, <1>8, <1>9, <1>10, <1>11, <1>12, <1>13, <1>14, <1>15,
           <1>16, <1>17, <1>18 DEF CallStep, VerifierStep

-----------------------------------------------------------------------------
(* The gateway implements RecordStore *)

StageOf(pc) == IF pc = "idle" THEN "idle"
               ELSE IF pc \in {"run", "write"} THEN "open" ELSE "over"

CallOf(c) == call[c[1]][c[2]]

\* What has arrived is not idle again, and what is idle has not been touched.
LEMMA IdleInit == Init => IdleIsUntouched
BY DEF Init, IdleIsUntouched

LEMMA IdleArrive ==
  ASSUME TypeInv, SignInv, IdleIsUntouched, NEW r \in Requests, Arrive(r)
  PROVE  IdleIsUntouched'
<1>1. PICK s \in Scripts : call' = [call EXCEPT ![r] = [i \in Slots |-> StartOf(s, i)]]
  BY DEF Arrive
<1>2. Len(s.calls) \in Nat /\ \A i \in Slots : i \in Nat
  BY GatewayAssumption DEF ScriptType, Slots
<1>3. \A i \in Slots : StartOf(s, i).pc = "idle" => StartOf(s, i) = IdleCall
  BY <1>2, StartFacts
<1>4. \A i \in Slots : call'[r][i] = StartOf(s, i)
  BY <1>1 DEF TypeInv, TypeOK
<1>5. \A q \in Requests : q # r => call'[q] = call[q]
  BY <1>1 DEF TypeInv, TypeOK
<1> QED BY <1>3, <1>4, <1>5 DEF IdleIsUntouched

LEMMA IdleCrash ==
  ASSUME TypeInv, IdleIsUntouched, Crash
  PROVE  IdleIsUntouched'
<1>1. ASSUME NEW r \in Requests, NEW i \in Slots, call'[r][i].pc = "idle"
      PROVE  call'[r][i] = IdleCall
  <2>1. call[r][i] \in CallState
    BY DEF TypeInv, TypeOK
  <2>2. call'[r][i] = IF call[r][i].pc = "idle" THEN call[r][i]
          ELSE [call[r][i] EXCEPT !.pc = "lost", !.eth = "none", !.db = "none"]
    BY DEF Crash
  <2>3. call[r][i].pc = "idle"
    BY <1>1, <2>1, <2>2 DEF CallState
  <2> QED BY <2>2, <2>3 DEF IdleIsUntouched
<1> QED BY <1>1 DEF IdleIsUntouched

LEMMA IdleCallStep ==
  ASSUME TypeInv, IdleIsUntouched, NEW r \in Requests, NEW i \in Slots, CallStep(r, i)
  PROVE  IdleIsUntouched' /\ call[r][i].pc # "idle"
<1>1. call[r][i].pc # "idle"
  BY CallStepNotIdle DEF IdleIsUntouched
<1>2. call'[r][i].pc # "idle"
  BY <1>1, CallStepEffect DEF EffectFollows
<1>3. \E d \in CallState : call' = [call EXCEPT ![r][i] = d]
  BY CallStepShape DEF OneCall
<1>4. \A q \in Requests, j \in Slots : q # r \/ j # i => call'[q][j] = call[q][j]
  BY <1>3 DEF TypeInv, TypeOK
<1> QED BY <1>1, <1>2, <1>4 DEF IdleIsUntouched

LEMMA IdleStep ==
  TypeInv /\ SignInv /\ IdleIsUntouched /\ [Next]_vars => IdleIsUntouched'
<1> SUFFICES ASSUME TypeInv, SignInv, IdleIsUntouched, [Next]_vars PROVE IdleIsUntouched'
  OBVIOUS
<1>1. CASE UNCHANGED call
  BY <1>1 DEF IdleIsUntouched
<1>2. ASSUME NEW r \in Requests, RequestStep(r) PROVE UNCHANGED call
  BY <1>2, RequestStepShape
<1>3. CASE (\E n \in Nodes : Move(n)) \/ Regroup
  BY <1>1, <1>3, MoveBecomes DEF Becomes
<1>4. CASE UNCHANGED vars
  BY <1>1, <1>4 DEF vars
<1> QED BY <1>1, <1>2, <1>3, <1>4, IdleArrive, IdleCallStep, IdleCrash DEF Next

\* The refinement mapping, call by call.
LEMMA Mapping ==
  /\ ShownRecord = View(docs) /\ ShownRecord' = View(docs')
  /\ Stage = [c \in CallIds |-> StageOf(CallOf(c).pc)]
  /\ Stage' = [c \in CallIds |-> StageOf(CallOf(c)'.pc)]
BY DEF ShownRecord, View, Stage, StageOf, CallOf

LEMMA CallIdsArePairs ==
  \A c \in CallIds : c[1] \in Requests /\ c[2] \in Slots /\ c = <<c[1], c[2]>>
BY DEF CallIds

LEMMA WantedTypes == TypeInv => Wanted \in [CallIds -> CallType]
<1> SUFFICES ASSUME TypeInv PROVE Wanted \in [CallIds -> CallType]
  OBVIOUS
<1>1. AnyCall \in CallType
  <2>1. PICK n \in Nodes : TRUE
    BY RecordAssumption
  <2>2. Multisig \in Values /\ "owner" \in Fields
    BY GatewayAssumption, RecordAssumption
  <2>3. [kind |-> "register", node |-> n, field |-> "owner", value |-> Multisig]
          \in CallType
    BY <2>1, <2>2 DEF CallType
  <2> QED BY <2>3 DEF AnyCall
<1>2. ASSUME NEW r \in Requests, NEW i \in CallsOf(r) PROVE Call(r, i) \in CallType
  <2>1. script[r] # NoScript
    BY InitialTypes DEF CallsOf
  <2>2. script[r].calls \in Seq(CallType)
    BY <2>1, GatewayAssumption DEF TypeInv, TypeOK, ScriptType
  <2> QED BY <2>2 DEF Call, CallsOf
<1> QED BY <1>1, <1>2, CallIdsArePairs DEF Wanted

\* A call takes its effect as it ends, or keeps the owner in line with the chain.
LEMMA CallStepMaps ==
  ASSUME TypeInv, IdleIsUntouched, NEW r \in Requests, NEW i \in Slots, CallStep(r, i)
  PROVE  [Records!Next]_<<ShownRecord, Wanted, Stage>>
<1> DEFINE id == <<r, i>>  w == Call(r, i)  c == call[r][i]  d == call'[r][i]
           old == View(docs)  new == View(docs')  found == Exists(docs, w.node)
<1>1. id \in CallIds /\ TypeOK /\ docs \in Seq(Document)
  BY DEF CallIds, TypeInv, TypeOK
<1>2. /\ i \in CallsOf(r) /\ w \in CallType /\ w.node \in Nodes
      /\ w.field \in Fields /\ w.value \in Values
  BY CallStepNotIdle, CallTypes DEF CallType
<1>3. Wanted' = Wanted /\ Wanted[id] = w
  <2>1. script' = script
    BY CallStepShape DEF OneCall
  <2> QED BY <1>1, <1>2, <2>1 DEF Wanted, Call, CallsOf
<1>4. \A x \in CallIds : CallOf(x)' = IF x = id THEN d ELSE CallOf(x)
  <2>1. \E e \in CallState : call' = [call EXCEPT ![r][i] = e]
    BY CallStepShape DEF OneCall
  <2>2. \A q \in Requests, j \in Slots :
          call'[q][j] = IF q = r /\ j = i THEN d ELSE call[q][j]
    BY <1>1, <2>1 DEF TypeOK
  <2> QED BY <2>2, CallIdsArePairs DEF CallOf
<1>5. /\ \A x \in CallIds : x # id => Stage'[x] = Stage[x]
      /\ Stage[id] = StageOf(c.pc) /\ Stage'[id] = StageOf(d.pc)
  BY <1>1, <1>4, Mapping DEF CallOf
<1>6. /\ Stage = [x \in CallIds |-> Stage[x]] /\ Stage' = [x \in CallIds |-> Stage'[x]]
      /\ c.pc # "idle"
  BY Mapping, IdleCallStep
<1>7. /\ ShownRecord = old /\ ShownRecord' = new
      /\ found <=> old[w.node] # Absent
  BY <1>1, <1>2, Mapping, ViewOf
<1> HIDE DEF id, w, c, d, old, new, found
<1>8. CASE new = old /\ d.pc = c.pc
  BY <1>3, <1>5, <1>6, <1>7, <1>8
<1>9. CASE new = old /\ c.pc \in {"run", "write"} /\ d.pc = "write"
  BY <1>3, <1>5, <1>6, <1>7, <1>9 DEF StageOf
<1>10. ASSUME c.pc \in {"run", "write"}, d.pc = "done"
       PROVE  Stage[id] = "open" /\ Stage' = [Stage EXCEPT ![id] = "over"]
  <2>1. Stage[id] = "open" /\ Stage'[id] = "over"
    BY <1>5, <1>10 DEF StageOf
  <2> QED BY <1>1, <1>5, <1>6, <2>1
<1>11. CASE new = old /\ c.pc \in {"run", "write"} /\ d.pc = "done"
  <2>1. Stage[id] = "open" /\ Stage' = [Stage EXCEPT ![id] = "over"]
    BY <1>10, <1>11
  <2>2. Stage' = [x \in CallIds |-> IF x \in {id} THEN "over" ELSE Stage[x]]
    BY <1>6, <2>1
  <2>3. {id} \in SUBSET {x \in CallIds : Stage[x] = "open"}
    BY <1>1, <2>1
  <2>4. Records!Drop
    BY <1>3, <1>7, <1>11, <2>2, <2>3 DEF Records!Drop
  <2> QED BY <2>4 DEF Records!Next
<1>12. ASSUME d.pc = c.pc, NEW v \in Values,
              new = [old EXCEPT ![w.node] =
                [(IF found THEN old[w.node] ELSE NoFields) EXCEPT !["owner"] = v]]
       PROVE  Records!Sync
  <2>1. Stage[id] # "idle" /\ Stage' = Stage
    BY <1>5, <1>6, <1>12 DEF StageOf
  <2>2. (IF found THEN old[w.node] ELSE NoFields)
          = IF old[w.node] = Absent THEN Records!Empty ELSE old[w.node]
    BY <1>7 DEF Records!Empty, NoFields
  <2> QED BY <1>1, <1>3, <1>7, <1>12, <2>1, <2>2 DEF Records!Sync
<1>13. CASE /\ c.pc \in {"run", "write"} /\ d.pc = "done"
            /\ w.kind \in {"setText", "setField"} /\ found
            /\ new = [old EXCEPT ![w.node][w.field] = w.value]
  <2>1. Records!Set(id)
    BY <1>3, <1>7, <1>10, <1>13 DEF Records!Set, Records!Close
  <2> QED BY <1>1, <2>1 DEF Records!Next
<1>14. ASSUME c.pc \in {"run", "write"}, d.pc = "done", w.kind = "transfer", found,
              NEW v \in Values, new = [old EXCEPT ![w.node]["owner"] = v]
       PROVE  Records!Set(id)
  BY <1>3, <1>7, <1>10, <1>14 DEF Records!Set, Records!Close
<1>15. CASE /\ c.pc \in {"run", "write"} /\ d.pc = "done" /\ w.kind = "register"
            /\ new = IF found THEN old
                     ELSE [old EXCEPT ![w.node] = [NoFields EXCEPT ![w.field] = w.value]]
  <2>1. Records!Empty = NoFields
    BY DEF Records!Empty, NoFields
  <2>2. Records!Insert(id)
    BY <1>3, <1>7, <1>10, <1>15, <2>1 DEF Records!Insert, Records!Close
  <2> QED BY <1>1, <2>2 DEF Records!Next
<1>16. EffectFollows(r, i)
  BY CallStepEffect
<1> QED BY <1>1, <1>8, <1>9, <1>11, <1>12, <1>13, <1>14, <1>15, <1>16
        DEF EffectFollows, Records!Next, w, c, d, old, new, found

LEMMA WantedTypesNext == TypeInv' => (Wanted \in [CallIds -> CallType])'
BY WantedTypes, PTL

\* The calls of a request arrive together.
LEMMA ArriveMaps ==
  ASSUME TypeInv, TypeInv', SignInv, NEW r \in Requests, Arrive(r)
  PROVE  Records!Open
<1>1. PICK s \in Scripts :
        /\ script' = [script EXCEPT ![r] = s]
        /\ call' = [call EXCEPT ![r] = [i \in Slots |-> StartOf(s, i)]]
  BY DEF Arrive
<1> DEFINE S == {x \in CallIds : x[1] = r /\ x[2] <= Len(s.calls)}
<1>2. /\ req[r].pc = "idle" /\ docs' = docs /\ script[r] = NoScript
      /\ \A i \in Slots : call[r][i] = IdleCall
  BY DEF Arrive, store, SignInv, ScriptsAreAsked, TypeInv, IdleOutsideCalls
<1>3. Len(s.calls) \in Nat /\ \A i \in Slots : i \in Nat /\ i >= 1
  BY GatewayAssumption DEF ScriptType, Slots
<1>4. /\ script'[r] = s /\ \A q \in Requests : q # r => script'[q] = script[q]
      /\ \A i \in Slots : call'[r][i] = StartOf(s, i)
      /\ \A q \in Requests : q # r => call'[q] = call[q]
  BY <1>1 DEF TypeInv, TypeOK
<1>5. IdleCall.pc = "idle" /\ Len(NoScript.calls) = 0
  BY InitialTypes DEF IdleCall
<1>6. S \in SUBSET {x \in CallIds : Stage[x] = "idle"}
  BY <1>2, <1>5, Mapping, CallIdsArePairs DEF StageOf, CallOf
<1>7. ASSUME NEW x \in CallIds
      PROVE  StageOf(CallOf(x)'.pc) = IF x \in S THEN "open" ELSE StageOf(CallOf(x).pc)
  <2>1. CASE x[1] # r
    BY <1>4, <2>1, CallIdsArePairs DEF CallOf
  <2>2. CASE x[1] = r
    <3>1. /\ x[2] \in Slots /\ x[2] \in Nat
          /\ CallOf(x) = IdleCall /\ CallOf(x)' = StartOf(s, x[2])
      BY <1>2, <1>3, <1>4, <2>2, CallIdsArePairs DEF CallOf
    <3>2. CallOf(x)'.pc = IF x[2] > Len(s.calls) THEN "idle" ELSE "run"
      BY <1>3, <3>1, StartFacts
    <3> QED BY <1>3, <1>5, <2>2, <3>1, <3>2 DEF StageOf
  <2> QED BY <2>1, <2>2
<1>8. Stage' = [x \in CallIds |-> IF x \in S THEN "open" ELSE Stage[x]]
  BY <1>7, Mapping
<1>9. Wanted' \in [CallIds -> CallType]
  BY WantedTypesNext
<1>10. ASSUME NEW x \in CallIds \ S PROVE Wanted'[x] = Wanted[x]
  <2>1. CASE x[1] # r
    BY <1>4, <1>10, <2>1, CallIdsArePairs DEF Wanted, Call, CallsOf
  <2>2. CASE x[1] = r
    <3>1. x[2] \notin CallsOf(r) /\ x[2] \notin CallsOf(r)'
      BY <1>2, <1>3, <1>4, <1>5, <1>10, <2>2, CallIdsArePairs DEF CallsOf
    <3> QED BY <1>10, <2>2, <3>1 DEF Wanted
  <2> QED BY <2>1, <2>2
<1>11. ShownRecord' = ShownRecord
  BY <1>2, Mapping
<1> QED BY <1>6, <1>8, <1>9, <1>10, <1>11 DEF Records!Open

\* The end of the process ends every call without effect.
LEMMA CrashMaps ==
  ASSUME TypeInv, Crash
  PROVE  Records!Drop
<1> DEFINE S == {x \in CallIds : Stage[x] = "open"}
<1>1. Wanted' = Wanted /\ ShownRecord' = ShownRecord
  <2>1. docs' = docs /\ script' = script
    BY DEF Crash
  <2> QED BY <2>1, Mapping DEF Wanted, Call, CallsOf
<1>2. ASSUME NEW x \in CallIds
      PROVE  CallOf(x)'.pc = IF CallOf(x).pc = "idle" THEN "idle" ELSE "lost"
  <2> DEFINE r == x[1]  i == x[2]
  <2>1. r \in Requests /\ i \in Slots
    BY CallIdsArePairs
  <2>2. call[r][i] \in CallState
    BY <2>1 DEF TypeInv, TypeOK
  <2>3. call'[r][i] = IF call[r][i].pc = "idle" THEN call[r][i]
          ELSE [call[r][i] EXCEPT !.pc = "lost", !.eth = "none", !.db = "none"]
    BY <2>1 DEF Crash
  <2> QED BY <2>2, <2>3 DEF CallState, CallOf
<1>3. \A x \in CallIds : StageOf(CallOf(x)'.pc)
        = IF x \in S THEN "over" ELSE StageOf(CallOf(x).pc)
  BY <1>2, Mapping DEF StageOf
<1>4. Stage' = [x \in CallIds |-> IF x \in S THEN "over" ELSE Stage[x]]
  BY <1>3, Mapping
<1> QED BY <1>1, <1>4 DEF Records!Drop

\* The answer, its signature and the chain are of no concern to readers.
LEMMA OtherStepMaps ==
  ASSUME TypeInv, TypeInv', UNCHANGED <<script, call>>, SameRecords
  PROVE  UNCHANGED <<ShownRecord, Wanted, Stage>>
<1>1. docs \in Seq(Document) /\ docs' \in Seq(Document)
  BY DEF TypeInv, TypeOK
<1>2. View(docs') = View(docs)
  BY <1>1, ViewSame DEF SameRecords
<1> QED BY <1>2, Mapping DEF Wanted, Call, CallsOf, CallOf

LEMMA RecordsInit == Init => Records!Init
<1> SUFFICES ASSUME Init PROVE Records!Init
  OBVIOUS
<1>1. \A n : ~ Exists(docs, n)
  <2>1. Len(docs) = 0
    BY DEF Init
  <2> QED BY <2>1 DEF Exists, Matches
<1>2. ShownRecord = [n \in Nodes |-> Absent]
  BY <1>1 DEF ShownRecord
<1>3. Wanted \in [CallIds -> CallType]
  BY TypeInit, WantedTypes
<1>4. \A x \in CallIds : CallOf(x).pc = "idle"
  BY CallIdsArePairs DEF Init, CallOf, IdleCall
<1>5. Stage = [x \in CallIds |-> "idle"]
  BY <1>4, Mapping DEF StageOf
<1> QED BY <1>2, <1>3, <1>5 DEF Records!Init

LEMMA RecordsStep ==
  TypeInv /\ TypeInv' /\ SignInv /\ IdleIsUntouched /\ [Next]_vars
    => [Records!Next]_<<ShownRecord, Wanted, Stage>>
<1> SUFFICES ASSUME TypeInv, TypeInv', SignInv, IdleIsUntouched, [Next]_vars
             PROVE  [Records!Next]_<<ShownRecord, Wanted, Stage>>
  OBVIOUS
<1>1. ASSUME NEW r \in Requests, Arrive(r) PROVE Records!Next
  BY <1>1, ArriveMaps DEF Records!Next
<1>2. ASSUME NEW r \in Requests, RequestStep(r)
      PROVE  UNCHANGED <<ShownRecord, Wanted, Stage>>
  BY <1>2, RequestStepShape, RequestStepDocs, OtherStepMaps
<1>3. ASSUME NEW r \in Requests, NEW i \in Slots, CallStep(r, i)
      PROVE  [Records!Next]_<<ShownRecord, Wanted, Stage>>
  BY <1>3, CallStepMaps
<1>4. CASE UNCHANGED <<docs, script, call>>
  <2>1. SameRecords
    BY <1>4 DEF SameRecords
  <2> QED BY <1>4, <2>1, OtherStepMaps
<1>5. CASE (\E n \in Nodes : Move(n)) \/ Regroup
  BY <1>4, <1>5, MoveBecomes DEF Becomes
<1>6. CASE Crash
  BY <1>6, CrashMaps DEF Records!Next
<1>7. CASE UNCHANGED vars
  BY <1>4, <1>7 DEF vars
<1> QED BY <1>1, <1>2, <1>3, <1>4, <1>5, <1>6, <1>7 DEF Next

\* For readers, every call takes effect at most once, at one instant between
\* its arrival and its end, and on the field it names only, although setText
\* reads the record in one database call and writes it in another, and although
\* the answer is signed and the hash stored after that (mongo.ts:248-272).
THEOREM ImplementsRecords == Spec => ImplementsRecordStore
<1>1. Spec => []IdleIsUntouched
  BY IdleInit, IdleStep, SignInvariance, PTL DEF Spec
<1> QED BY <1>1, RecordsInit, RecordsStep, SignInvariance, PTL
        DEF Spec, ImplementsRecordStore, Records!Spec, Records!vars

=============================================================================
