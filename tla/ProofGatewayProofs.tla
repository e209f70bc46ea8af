-------------------------- MODULE ProofGatewayProofs --------------------------
(***************************************************************************)
(* Invariants of ProofGateway for any number of requests, nodes and faults *)
(* and any programs and contents.  They follow from one inductive          *)
(* invariant, which says of each request what it has when, of the cache    *)
(* that what it holds belongs together, and of the rollup that its nodes   *)
(* are those of their blocks.                                              *)
(* A second one, Undisturbed, says that a request that met no failed call  *)
(* has the slots and words of the state that its block has.                *)
(***************************************************************************)
EXTENDS ProofGateway, StorageProofProofs, SequenceTheorems

Waiting == {"asking", "logs", "block", "locating"}
Serving == {"locating", "served"}

\* The progress of a request: of its commands, and of its block, when s is
\* since of the request and seq the blocks.
CommandsInv(q) ==
  q.pc \in Waiting =>
    /\ Len(q.slots) = Len(q.prog) /\ Len(q.words) = Len(q.prog)
    /\ \A i \in 1..Len(q.prog) :
         /\ q.slots[i] # <<>> => \A j \in RefsOf(q.prog[i]) : j < i /\ ~ q.prog[j].dynamic
         /\ q.words[i] # <<>> => ~ q.prog[i].dynamic

ServedInv(q) == q.pc = "served" =>
  /\ Len(q.slots) = Len(q.prog)
  /\ \A i \in 1..Len(q.prog) :
       q.slots[i] # <<>> /\ \A j \in RefsOf(q.prog[i]) : j < i /\ ~ q.prog[j].dynamic

BlockInv(q, s, seq) ==
  /\ q.pc \in {"logs", "block"} \cup Serving => s <= q.index
  /\ q.pc \in {"block"} \cup Serving =>
       q.root \in 1..Len(seq) /\ seq[q.root].node = q.index
  /\ q.pc \in Serving => q.block = q.root

RequestInv(q, s, seq) ==
  q \in RequestState /\ CommandsInv(q) /\ ServedInv(q) /\ BlockInv(q, s, seq)

\* The node of a number asserted a block as the node of that number.
RollupInv == \A n \in 1..Latest : blocks[nodes[n]].node = n

\* What is cached is a block with its own root and the number of its node.
CacheInv ==
  cache.block # NoBlock =>
    /\ cache.block \in 1..Len(blocks) /\ blocks[cache.block].node = cache.index
    /\ cache.root = cache.block

ProofInv ==
  /\ TypeOK /\ RollupInv /\ CacheInv
  /\ \A r \in Requests : since[r] <= Latest /\ RequestInv(req[r], since[r], blocks)

-----------------------------------------------------------------------------

LEMMA ProofConstants ==
  /\ MaxNodes \in Nat /\ MaxFaults \in Nat /\ Zero \in Words
  /\ Programs \subseteq Seq(Command) /\ \A p \in Programs : Based(p)
  /\ \A content \in Contents : IsContent(content)
  /\ Indices = 0..MaxNodes /\ NoBlock \in Indices
BY ProofAssumption, StorageAssumption DEF IsContent, Indices, NoBlock

LEMMA IdleTypes ==
  /\ Idle \in RequestState
  /\ [Idle EXCEPT !.pc = "failed"] \in RequestState
  /\ [Idle EXCEPT !.pc = "failed"].pc = "failed" /\ Idle.pc = "idle"
<1>1. /\ 0 \in Indices /\ NoBlock \in Indices
      /\ <<>> \in Seq(Seq(Slot)) /\ <<>> \in Seq(Seq(Words))
  BY ProofConstants DEF Indices
<1>2. Idle \in RequestState /\ Idle.pc = "idle"
  BY <1>1 DEF Idle, RequestState
<1>3. [Idle EXCEPT !.pc = "failed"] \in RequestState
  BY <1>2 DEF RequestState
<1>4. [Idle EXCEPT !.pc = "failed"].pc = "failed"
  BY <1>2 DEF RequestState
<1> QED BY <1>2, <1>3, <1>4

\* Nothing is asked of a request that has not begun or has ended.
LEMMA RestingInv ==
  ASSUME NEW q \in RequestState, NEW s, NEW seq,
         q.pc \in {"idle", "failed", "accepted", "reverted"}
  PROVE  RequestInv(q, s, seq)
BY DEF RequestInv, CommandsInv, ServedInv, BlockInv, Waiting, Serving

LEMMA ProofInit == Init => ProofInv
<1> SUFFICES ASSUME Init PROVE ProofInv
  OBVIOUS
<1>1. blocks = <<>> /\ nodes = <<>> /\ Latest = 0 /\ Len(blocks) = 0
  BY DEF Init, Latest
<1>2. TypeOK
  BY <1>1, ProofConstants, IdleTypes DEF Init, TypeOK
<1>3. CacheInv /\ RollupInv
  BY <1>1 DEF Init, CacheInv, RollupInv
<1>4. \A r \in Requests : req[r] = Idle /\ since[r] = 0
  BY DEF Init
<1>5. \A r \in Requests : since[r] <= Latest
  BY <1>1, <1>4
<1>6. \A r \in Requests : RequestInv(req[r], since[r], blocks)
  BY <1>4, IdleTypes, RestingInv
<1> QED BY <1>2, <1>3, <1>5, <1>6 DEF ProofInv

-----------------------------------------------------------------------------
(* Steps of the environment *)

LEMMA ElementOf ==
  ASSUME NEW S, NEW s \in Seq(S), NEW i \in 1..Len(s)
  PROVE  s[i] \in S
OBVIOUS

\* A sequence without its last element.
LEMMA Shortened ==
  ASSUME NEW S, NEW s \in Seq(S), Len(s) >= 1
  PROVE  /\ SubSeq(s, 1, Len(s) - 1) \in Seq(S)
         /\ Len(SubSeq(s, 1, Len(s) - 1)) = Len(s) - 1
         /\ \A n \in 1..(Len(s) - 1) : SubSeq(s, 1, Len(s) - 1)[n] = s[n]
<1> DEFINE top == Len(s) - 1
<1>1. /\ 1 \in Int /\ top \in Int /\ top >= 0
      /\ \A n \in 1..top : s[n] \in S
  OBVIOUS
<1> HIDE DEF top
<1>2. /\ SubSeq(s, 1, top) \in Seq(S)
      /\ Len(SubSeq(s, 1, top)) = IF 1 <= top THEN top - 1 + 1 ELSE 0
      /\ \A n \in 1..(top - 1 + 1) : SubSeq(s, 1, top)[n] = s[1 + n - 1]
  BY <1>1, SubSeqProperties
<1>3. Len(SubSeq(s, 1, top)) = top /\ \A n \in 1..top : SubSeq(s, 1, top)[n] = s[n]
  BY <1>1, <1>2
<1> QED BY <1>2, <1>3 DEF top

\* What is known of the rollup and its numbers.
LEMMA KnownRollup ==
  ASSUME ProofInv
  PROVE  /\ blocks \in Seq([node : Indices, storage : Contents]) /\ Len(blocks) \in Nat
         /\ nodes \in Seq(1..Len(blocks)) /\ Latest = Len(nodes) /\ Latest \in Nat
         /\ Latest <= Len(blocks) /\ Len(blocks) <= MaxNodes /\ MaxNodes \in Nat
         /\ Latest \in Indices /\ 1..Len(blocks) \subseteq Indices
         /\ \A b \in 1..Len(blocks) : blocks[b].node \in Indices /\ IsContent(StateOf(b))
<1>1. /\ blocks \in Seq([node : Indices, storage : Contents])
      /\ nodes \in Seq(1..Len(blocks)) /\ Latest = Len(nodes)
      /\ Latest <= Len(blocks) /\ Len(blocks) <= MaxNodes
  BY DEF ProofInv, TypeOK, Latest
<1>2. Len(blocks) \in Nat /\ Latest \in Nat
  BY <1>1
<1>3. \A b \in 1..Len(blocks) : blocks[b] \in [node : Indices, storage : Contents]
  BY <1>1, ElementOf
<1>4. \A b \in 1..Len(blocks) : blocks[b].node \in Indices /\ IsContent(StateOf(b))
  BY <1>3, ProofConstants DEF StateOf
<1> QED BY <1>1, <1>2, <1>4, ProofConstants

LEMMA CreateNodeKeeps == ProofInv /\ CreateNode => ProofInv'
<1> SUFFICES ASSUME ProofInv, CreateNode PROVE ProofInv'
  OBVIOUS
<1>1. PICK content \in Contents :
        blocks' = Append(blocks, [node |-> Latest + 1, storage |-> content])
  BY DEF CreateNode
<1>2. /\ nodes' = Append(nodes, Len(blocks) + 1) /\ Len(blocks) < MaxNodes
      /\ UNCHANGED <<visible, cache, req, faults, since, failed>>
  BY DEF CreateNode
<1>3. [node |-> Latest + 1, storage |-> content] \in [node : Indices, storage : Contents]
  BY <1>1, <1>2, KnownRollup, ProofConstants
<1>4. /\ blocks' \in Seq([node : Indices, storage : Contents])
      /\ Len(blocks') = Len(blocks) + 1
      /\ \A b \in 1..Len(blocks) : blocks'[b] = blocks[b]
      /\ blocks'[Len(blocks) + 1].node = Latest + 1
  BY <1>1, <1>3, KnownRollup
<1>5. nodes \in Seq(1..Len(blocks'))
  BY <1>4, KnownRollup
<1>6. /\ nodes' \in Seq(1..Len(blocks')) /\ Latest' = Latest + 1
      /\ \A n \in 1..Latest : nodes'[n] = nodes[n]
      /\ nodes'[Latest + 1] = Len(blocks) + 1
  BY <1>2, <1>4, <1>5, KnownRollup DEF Latest
<1>7. TypeOK'
  BY <1>2, <1>4, <1>6, KnownRollup DEF ProofInv, TypeOK
<1>8. RollupInv'
  <2> SUFFICES ASSUME NEW n \in 1..(Latest + 1) PROVE blocks'[nodes'[n]].node = n
    BY <1>6 DEF RollupInv
  <2>1. CASE n = Latest + 1
    BY <1>4, <1>6, <2>1
  <2>2. CASE n \in 1..Latest
    <3>1. nodes[n] \in 1..Len(blocks) /\ blocks[nodes[n]].node = n
      BY <2>2, KnownRollup DEF ProofInv, RollupInv
    <3> QED BY <1>4, <1>6, <2>2, <3>1
  <2> QED BY <2>1, <2>2, KnownRollup
<1>9. CacheInv'
  BY <1>2, <1>4, KnownRollup DEF ProofInv, CacheInv
<1>10. ASSUME NEW r \in Requests
       PROVE  since'[r] <= Latest' /\ RequestInv(req'[r], since'[r], blocks')
  <2>1. /\ since[r] \in Nat /\ since[r] <= Latest /\ RequestInv(req[r], since[r], blocks)
    BY ProofConstants DEF ProofInv, TypeOK
  <2>2. BlockInv(req[r], since[r], blocks')
    BY <1>4, <2>1, KnownRollup DEF RequestInv, BlockInv
  <2> QED BY <1>2, <1>6, <2>1, <2>2, KnownRollup DEF RequestInv
<1> QED BY <1>7, <1>8, <1>9, <1>10 DEF ProofInv

LEMMA RemoveNodeKeeps == ProofInv /\ RemoveNode => ProofInv'
<1> SUFFICES ASSUME ProofInv, RemoveNode PROVE ProofInv'
  OBVIOUS
<1>1. /\ Latest >= visible /\ nodes' = SubSeq(nodes, 1, Latest - 1)
      /\ since' = [r \in Requests |-> IF since[r] = Latest THEN Latest - 1 ELSE since[r]]
      /\ UNCHANGED <<blocks, visible, cache, req, faults, failed>>
  BY DEF RemoveNode
<1>2. Latest >= 1
  BY <1>1, KnownRollup, ProofConstants DEF ProofInv, TypeOK
<1>3. /\ nodes' \in Seq(1..Len(blocks)) /\ Latest' = Latest - 1
      /\ \A n \in 1..(Latest - 1) : nodes'[n] = nodes[n]
  <2>1. nodes \in Seq(1..Len(blocks)) /\ Latest = Len(nodes) /\ Latest' = Len(nodes')
    BY KnownRollup DEF Latest
  <2> QED BY <1>1, <1>2, <2>1, Shortened
<1>4. since \in [Requests -> Indices]
  BY DEF ProofInv, TypeOK
<1>5. ASSUME NEW r \in Requests
      PROVE  /\ since[r] \in Nat /\ since'[r] \in Indices
             /\ since'[r] <= since[r] /\ since'[r] <= Latest'
  <2>1. since[r] \in Nat /\ since[r] \in Indices /\ since[r] <= Latest
    BY <1>4, ProofConstants DEF ProofInv
  <2>2. since'[r] = IF since[r] = Latest THEN Latest - 1 ELSE since[r]
    BY <1>1
  <2> QED BY <1>2, <1>3, <2>1, <2>2, KnownRollup, ProofConstants
<1>6. since' \in [Requests -> Indices]
  BY <1>1, <1>5
<1>7. TypeOK'
  BY <1>1, <1>2, <1>3, <1>6, KnownRollup DEF ProofInv, TypeOK
<1>8. RollupInv' /\ CacheInv'
  BY <1>1, <1>2, <1>3, KnownRollup DEF ProofInv, RollupInv, CacheInv
<1>9. ASSUME NEW r \in Requests
      PROVE  RequestInv(req'[r], since'[r], blocks')
  <2>1. RequestInv(req[r], since[r], blocks) /\ req[r].index \in Nat
    BY ProofConstants DEF ProofInv, RequestInv, RequestState
  <2>2. BlockInv(req[r], since'[r], blocks)
    BY <1>5, <2>1, ProofConstants DEF RequestInv, BlockInv
  <2> QED BY <1>1, <2>1, <2>2 DEF RequestInv
<1> QED BY <1>5, <1>7, <1>8, <1>9 DEF ProofInv

LEMMA AgeKeeps == ProofInv /\ Age => ProofInv'
<1> SUFFICES ASSUME ProofInv, Age PROVE ProofInv'
  OBVIOUS
<1>1. UNCHANGED <<blocks, nodes, cache, req, faults, since, failed, Latest>>
  BY DEF Age, Latest
<1>2. visible' \in 1..(MaxNodes + 1)
  BY KnownRollup DEF Age
<1> QED BY <1>1, <1>2 DEF ProofInv, TypeOK, CacheInv, RollupInv

-----------------------------------------------------------------------------
(* Steps of a request.  Each leaves the other requests alone.              *)

\* A step of r that keeps everything else in order keeps the invariant.
LEMMA OneRequest ==
  ASSUME ProofInv, NEW r \in Requests, NEW q,
         req' = [req EXCEPT ![r] = q],
         UNCHANGED rollup,
         RequestInv(q, since'[r], blocks),
         since' \in [Requests -> Indices], since'[r] <= Latest,
         \A p \in Requests \ {r} : since'[p] = since[p],
         cache' \in [index : Indices, block : Indices, root : Indices], CacheInv',
         faults' \in 0..MaxFaults, failed' \in [Requests -> BOOLEAN]
  PROVE  ProofInv'
<1>1. req \in [Requests -> RequestState] /\ q \in RequestState
  BY DEF ProofInv, TypeOK, RequestInv
<1>2. req' \in [Requests -> RequestState]
  BY <1>1
<1>3. UNCHANGED <<blocks, nodes, visible, Latest>>
  BY DEF Latest, rollup
<1>4. TypeOK' /\ RollupInv'
  BY <1>2, <1>3 DEF ProofInv, TypeOK, RollupInv
<1>5. ASSUME NEW p \in Requests
      PROVE  since'[p] <= Latest' /\ RequestInv(req'[p], since'[p], blocks')
  <2>1. CASE p = r
    BY <1>1, <1>3, <2>1
  <2>2. CASE p # r
    BY <1>1, <1>3, <2>2 DEF ProofInv
  <2> QED BY <2>1, <2>2
<1> QED BY <1>4, <1>5 DEF ProofInv

LEMMA FaultKeeps ==
  ASSUME ProofInv, NEW r \in Requests, NoFault(r) \/ Fault(r)
  PROVE  /\ faults' \in 0..MaxFaults /\ failed' \in [Requests -> BOOLEAN]
         /\ since' = since
<1>1. faults \in 0..MaxFaults /\ failed \in [Requests -> BOOLEAN]
  BY DEF ProofInv, TypeOK
<1>2. CASE NoFault(r)
  BY <1>1, <1>2 DEF NoFault
<1>3. CASE Fault(r)
  BY <1>1, <1>3, ProofConstants DEF Fault, Mishap
<1> QED BY <1>2, <1>3

\* A request ends in a state of rest.
LEMMA EndKeeps ==
  ASSUME ProofInv, NEW r \in Requests, NEW q \in RequestState, End(r, q),
         q.pc \in {"failed", "accepted", "reverted"},
         Mishap \/ UNCHANGED faults, UNCHANGED <<rollup, cache>>
  PROVE  ProofInv'
<1>1. req' = [req EXCEPT ![r] = q]
  BY DEF End
<1>2. /\ since \in [Requests -> Indices] /\ failed \in [Requests -> BOOLEAN]
      /\ cache \in [index : Indices, block : Indices, root : Indices]
      /\ faults \in 0..MaxFaults
  BY DEF ProofInv, TypeOK
<1>3. faults' \in 0..MaxFaults
  BY <1>2, ProofConstants DEF Mishap
<1>4. /\ since' \in [Requests -> Indices] /\ since'[r] = 0 /\ since'[r] <= Latest
      /\ \A p \in Requests \ {r} : since'[p] = since[p]
      /\ failed' \in [Requests -> BOOLEAN]
  BY <1>2, KnownRollup, ProofConstants DEF End
<1>5. cache' \in [index : Indices, block : Indices, root : Indices] /\ CacheInv'
  BY <1>2 DEF ProofInv, CacheInv, rollup
<1>6. RequestInv(q, since'[r], blocks)
  BY RestingInv
<1>7. UNCHANGED rollup
  OBVIOUS
<1> QED BY <1>1, <1>3, <1>4, <1>5, <1>6, <1>7, OneRequest

\* A request that fails forgets everything.
LEMMA FailKeeps ==
  ASSUME ProofInv, NEW r \in Requests, Fail(r),
         Mishap \/ UNCHANGED faults, UNCHANGED <<rollup, cache>>
  PROVE  ProofInv'
<1> DEFINE q == [Idle EXCEPT !.pc = "failed"]
<1>1. q \in RequestState /\ q.pc = "failed" /\ End(r, q)
  BY IdleTypes DEF Fail
<1> HIDE DEF q
<1> QED BY <1>1, EndKeeps

\* A request goes on.
LEMMA GoesOn ==
  ASSUME ProofInv, NEW r \in Requests, NEW q, req' = [req EXCEPT ![r] = q],
         NoFault(r) \/ Fault(r), UNCHANGED <<rollup, cache>>,
         RequestInv(q, since[r], blocks)
  PROVE  ProofInv'
<1>1. /\ since \in [Requests -> Indices] /\ since[r] <= Latest
      /\ cache \in [index : Indices, block : Indices, root : Indices]
      /\ CacheInv' /\ UNCHANGED rollup
  BY DEF ProofInv, TypeOK, CacheInv, rollup
<1> QED BY <1>1, FaultKeeps, OneRequest

\* What is known of a request of which only the progress counts.
LEMMA Known ==
  ASSUME ProofInv, NEW r \in Requests
  PROVE  /\ req \in [Requests -> RequestState]
         /\ req[r] \in RequestState /\ CommandsInv(req[r]) /\ ServedInv(req[r])
         /\ BlockInv(req[r], since[r], blocks)
         /\ since[r] \in Nat /\ since[r] <= Latest
         /\ req[r].prog \in Seq(Command) /\ Len(req[r].prog) \in Nat /\ Based(req[r].prog)
         /\ req[r].index \in Indices
<1>1. /\ req \in [Requests -> RequestState] /\ req[r] \in RequestState
      /\ CommandsInv(req[r]) /\ ServedInv(req[r]) /\ BlockInv(req[r], since[r], blocks)
      /\ since[r] \in Indices /\ since[r] <= Latest
  BY DEF ProofInv, TypeOK, RequestInv
<1>2. req[r].prog \in Programs \cup {<<>>} /\ req[r].index \in Indices
  BY <1>1 DEF RequestState
<1>3. req[r].prog \in Seq(Command) /\ Based(req[r].prog)
  <2>1. <<>> \in Seq(Command) /\ Based(<<>>)
    BY DEF Based
  <2> QED BY <1>2, <2>1, ProofConstants
<1> QED BY <1>1, <1>2, <1>3, ProofConstants

LEMMA ArriveKeeps ==
  ASSUME ProofInv, NEW r \in Requests, Arrive(r)
  PROVE  ProofInv'
<1>1. PICK p \in Programs : req' = [req EXCEPT ![r] =
        [Idle EXCEPT !.pc = "asking", !.prog = p,
                     !.slots = [i \in 1..Len(p) |-> <<>>],
                     !.words = [i \in 1..Len(p) |-> <<>>]]]
  BY DEF Arrive
<1> DEFINE none == [i \in 1..Len(p) |-> <<>>]
           q == [Idle EXCEPT !.pc = "asking", !.prog = p, !.slots = none, !.words = none]
<1>2. p \in Seq(Command) /\ Len(p) \in Nat
  BY ProofConstants
<1>3. /\ none \in Seq(Seq(Slot)) /\ none \in Seq(Seq(Words)) /\ Len(none) = Len(p)
      /\ \A i \in 1..Len(p) : none[i] = <<>>
  <2>1. <<>> \in Seq(Slot) /\ <<>> \in Seq(Words)
    OBVIOUS
  <2> QED BY <1>2, <2>1
<1> HIDE DEF none
<1>4. q \in RequestState
  BY <1>3, IdleTypes DEF RequestState
<1>5. q.pc = "asking" /\ q.prog = p /\ q.slots = none /\ q.words = none
  BY IdleTypes DEF RequestState
<1>6. req' = [req EXCEPT ![r] = q]
  BY <1>1 DEF none
<1> HIDE DEF q
<1>7. RequestInv(q, Latest, blocks)
  BY <1>3, <1>4, <1>5 DEF RequestInv, CommandsInv, ServedInv, BlockInv, Serving
<1>8. /\ since' = [since EXCEPT ![r] = Latest]
      /\ UNCHANGED <<cache, faults, failed>> /\ UNCHANGED rollup
  BY DEF Arrive
<1>9. /\ since \in [Requests -> Indices]
      /\ cache \in [index : Indices, block : Indices, root : Indices]
      /\ faults \in 0..MaxFaults /\ failed \in [Requests -> BOOLEAN]
  BY DEF ProofInv, TypeOK
<1>10. CacheInv'
  BY <1>8 DEF ProofInv, CacheInv, rollup
<1>11. /\ since' \in [Requests -> Indices] /\ since'[r] = Latest /\ since'[r] <= Latest
       /\ \A o \in Requests \ {r} : since'[o] = since[o]
  BY <1>8, <1>9, KnownRollup
<1>12. RequestInv(q, since'[r], blocks)
  BY <1>7, <1>11
<1>13. /\ cache' \in [index : Indices, block : Indices, root : Indices]
       /\ faults' \in 0..MaxFaults /\ failed' \in [Requests -> BOOLEAN]
  BY <1>8, <1>9
<1> QED BY <1>6, <1>8, <1>10, <1>11, <1>12, <1>13, OneRequest

LEMMA AskLatestKeeps ==
  ASSUME ProofInv, NEW r \in Requests, AskLatest(r)
  PROVE  ProofInv'
<1>1. UNCHANGED <<rollup, cache>> /\ req[r].pc = "asking"
  BY DEF AskLatest
<1>2. CASE (Mishap \/ UNCHANGED faults) /\ Fail(r)
  BY <1>1, <1>2, FailKeeps
<1>3. CASE /\ ~ Hit(Latest) /\ NoFault(r)
           /\ req' = [req EXCEPT ![r].pc = "logs", ![r].index = Latest]
  <2> DEFINE q == [req[r] EXCEPT !.pc = "logs", !.index = Latest]
  <2>1. q \in RequestState
    BY Known, KnownRollup DEF RequestState
  <2>2. /\ q.pc = "logs" /\ q.index = Latest
        /\ q.prog = req[r].prog /\ q.slots = req[r].slots /\ q.words = req[r].words
    BY Known DEF RequestState
  <2>3. req' = [req EXCEPT ![r] = q]
    BY <1>3, Known
  <2> HIDE DEF q
  <2>4. CommandsInv(q) /\ ServedInv(q)
    BY <1>1, <2>2, Known DEF CommandsInv, ServedInv, Waiting
  <2>5. BlockInv(q, since[r], blocks)
    BY <2>2, Known DEF BlockInv, Serving
  <2> QED BY <1>1, <1>3, <2>1, <2>3, <2>4, <2>5, GoesOn DEF RequestInv
<1>4. CASE /\ Hit(Latest) /\ cache.block # NoBlock /\ NoFault(r)
           /\ req' = [req EXCEPT ![r].pc = "locating", ![r].index = Latest,
                                 ![r].block = cache.block, ![r].root = cache.root]
  <2> DEFINE q == [req[r] EXCEPT !.pc = "locating", !.index = Latest,
                                 !.block = cache.block, !.root = cache.root]
  <2>1. /\ cache \in [index : Indices, block : Indices, root : Indices]
        /\ cache.block \in 1..Len(blocks) /\ blocks[cache.block].node = Latest
        /\ cache.root = cache.block /\ cache.block \in Indices /\ cache.root \in Indices
    BY <1>4 DEF ProofInv, TypeOK, CacheInv, Hit
  <2>2. q \in RequestState
    <3>1. /\ req[r] \in RequestState /\ Latest \in Indices
          /\ cache.block \in Indices /\ cache.root \in Indices
      BY <2>1, Known, KnownRollup
    <3> QED BY <3>1 DEF RequestState
  <2>3. /\ q.pc = "locating" /\ q.index = Latest
        /\ q.block = cache.block /\ q.root = cache.root
        /\ q.prog = req[r].prog /\ q.slots = req[r].slots /\ q.words = req[r].words
    BY Known DEF RequestState
  <2>4. req' = [req EXCEPT ![r] = q]
    BY <1>4, Known
  <2> HIDE DEF q
  <2>5. CommandsInv(q) /\ ServedInv(q)
    BY <1>1, <2>3, Known DEF CommandsInv, ServedInv, Waiting
  <2>6. BlockInv(q, since[r], blocks)
    BY <2>1, <2>3, Known DEF BlockInv, Serving
  <2> QED BY <1>1, <1>4, <2>2, <2>4, <2>5, <2>6, GoesOn DEF RequestInv
<1> QED BY <1>2, <1>3, <1>4 DEF AskLatest

LEMMA FetchLogsKeeps ==
  ASSUME ProofInv, NEW r \in Requests, FetchLogs(r)
  PROVE  ProofInv'
<1>1. UNCHANGED <<rollup, cache>> /\ req[r].pc = "logs"
  BY DEF FetchLogs
<1>2. CASE (Mishap \/ UNCHANGED faults) /\ Fail(r)
  BY <1>1, <1>2, FailKeeps
<1>3. CASE /\ req[r].index \in visible..Latest /\ NoFault(r)
           /\ req' = [req EXCEPT ![r].pc = "block", ![r].root = nodes[req[r].index]]
  <2> DEFINE q == [req[r] EXCEPT !.pc = "block", !.root = nodes[req[r].index]]
  <2>1. req[r].index \in 1..Latest
    <3>1. visible \in 1..(MaxNodes + 1) /\ MaxNodes \in Nat
      BY ProofConstants DEF ProofInv, TypeOK
    <3> QED BY <1>3, <3>1, KnownRollup
  <2>2. /\ nodes[req[r].index] \in 1..Len(blocks)
        /\ blocks[nodes[req[r].index]].node = req[r].index
    BY <2>1, KnownRollup DEF ProofInv, RollupInv
  <2>3. q \in RequestState
    BY <2>2, Known, KnownRollup DEF RequestState
  <2>4. /\ q.pc = "block" /\ q.index = req[r].index /\ q.root = nodes[req[r].index]
        /\ q.prog = req[r].prog /\ q.slots = req[r].slots /\ q.words = req[r].words
    BY Known DEF RequestState
  <2>5. req' = [req EXCEPT ![r] = q]
    BY <1>3, Known
  <2> HIDE DEF q
  <2>6. CommandsInv(q) /\ ServedInv(q)
    BY <1>1, <2>4, Known DEF CommandsInv, ServedInv, Waiting
  <2>7. BlockInv(q, since[r], blocks)
    BY <1>1, <2>2, <2>4, Known DEF BlockInv, Serving
  <2> QED BY <1>1, <1>3, <2>3, <2>5, <2>6, <2>7, GoesOn DEF RequestInv
<1> QED BY <1>2, <1>3 DEF FetchLogs

LEMMA FetchBlockKeeps ==
  ASSUME ProofInv, NEW r \in Requests, FetchBlock(r)
  PROVE  ProofInv'
<1>1. UNCHANGED rollup /\ req[r].pc = "block"
  BY DEF FetchBlock
<1>2. CASE Mishap /\ Fail(r) /\ UNCHANGED cache
  BY <1>1, <1>2, FailKeeps
<1>3. CASE /\ NoFault(r)
           /\ cache' = [index |-> req[r].index, block |-> req[r].root, root |-> req[r].root]
           /\ req' = [req EXCEPT ![r].pc = "locating", ![r].block = req[r].root]
  <2> DEFINE q == [req[r] EXCEPT !.pc = "locating", !.block = req[r].root]
  <2>1. /\ req[r].root \in 1..Len(blocks) /\ blocks[req[r].root].node = req[r].index
        /\ req[r].root \in Indices
    BY <1>1, Known, KnownRollup DEF BlockInv
  <2>2. q \in RequestState
    BY <2>1, Known DEF RequestState
  <2>3. /\ q.pc = "locating" /\ q.index = req[r].index /\ q.block = req[r].root
        /\ q.root = req[r].root /\ q.prog = req[r].prog /\ q.slots = req[r].slots
        /\ q.words = req[r].words
    BY Known DEF RequestState
  <2>4. req' = [req EXCEPT ![r] = q]
    BY <1>3, Known
  <2> HIDE DEF q
  <2>5. CommandsInv(q) /\ ServedInv(q)
    BY <1>1, <2>3, Known DEF CommandsInv, ServedInv, Waiting
  <2>6. BlockInv(q, since[r], blocks)
    BY <1>1, <2>1, <2>3, Known DEF BlockInv, Serving
  <2>7. RequestInv(q, since'[r], blocks)
    BY <1>3, <2>2, <2>5, <2>6, FaultKeeps DEF RequestInv
  <2>8. /\ cache' \in [index : Indices, block : Indices, root : Indices]
        /\ CacheInv'
    BY <1>1, <1>3, <2>1, Known DEF CacheInv, rollup
  <2>9. since \in [Requests -> Indices] /\ since[r] <= Latest
    BY Known DEF ProofInv, TypeOK
  <2> QED BY <1>1, <1>3, <2>4, <2>7, <2>8, <2>9, FaultKeeps, OneRequest
<1> QED BY <1>2, <1>3 DEF FetchBlock

LEMMA ReadValueKeeps ==
  ASSUME ProofInv, NEW r \in Requests, NEW j, ReadValue(r, j)
  PROVE  ProofInv'
<1>1. /\ UNCHANGED <<rollup, cache>>
      /\ req[r].pc = "locating" /\ j \in 1..Len(req[r].prog) /\ ~ req[r].prog[j].dynamic
  BY DEF ReadValue
<1>2. PICK got \in Fetched(r, req[r].slots[j][1]) :
        /\ Charge(r, got.fault)
        /\ req' = [req EXCEPT ![r].words[j] = <<got.word>>]
  BY DEF ReadValue
<1>3. NoFault(r) \/ Fault(r)
  BY <1>2 DEF Charge
<1>4. got.word \in Words
  <2>1. req[r].block \in 1..Len(blocks)
    BY <1>1, Known DEF BlockInv, Serving
  <2>2. IsContent(StateOf(req[r].block))
    BY <2>1, KnownRollup
  <2>3. At(StateOf(req[r].block), req[r].slots[j][1]) \in Words
    BY <2>2, AtType
  <2> QED BY <1>2, <2>3, ProofConstants DEF Fetched
<1> DEFINE q == [req[r] EXCEPT !.words[j] = <<got.word>>]
<1>5. req[r].words \in Seq(Seq(Words)) /\ j \in 1..Len(req[r].words)
  BY <1>1, Known DEF RequestState, CommandsInv, Waiting
<1>6. /\ [req[r].words EXCEPT ![j] = <<got.word>>] \in Seq(Seq(Words))
      /\ Len([req[r].words EXCEPT ![j] = <<got.word>>]) = Len(req[r].words)
  BY <1>4, <1>5
<1>7. q \in RequestState
  BY <1>6, Known DEF RequestState
<1>8. /\ q.pc = "locating" /\ q.index = req[r].index /\ q.block = req[r].block
      /\ q.root = req[r].root /\ q.prog = req[r].prog /\ q.slots = req[r].slots
      /\ Len(q.words) = Len(req[r].words)
      /\ \A i \in 1..Len(req[r].words) : i # j => q.words[i] = req[r].words[i]
  BY <1>1, <1>5, <1>6, Known DEF RequestState
<1>9. req' = [req EXCEPT ![r] = q]
  BY <1>2, Known
<1> HIDE DEF q
<1>10. CommandsInv(q) /\ ServedInv(q)
  BY <1>1, <1>8, Known DEF CommandsInv, ServedInv, Waiting
<1>11. BlockInv(q, since[r], blocks)
  BY <1>1, <1>8, Known DEF BlockInv, Serving
<1> QED BY <1>1, <1>3, <1>7, <1>9, <1>10, <1>11, GoesOn DEF RequestInv

\* The slots of a command, with its data if a long value is announced.
LEMMA SlotsForTypes ==
  ASSUME NEW slot \in Slot, NEW header \in Words
  PROVE  SlotsFor(slot, header) \in Seq(Slot) /\ SlotsFor(slot, header) # <<>>
<1>1. <<slot>> \in Seq(Slot) /\ Len(<<slot>>) = 1
  OBVIOUS
<1>2. DataSlots(slot, 1) \in [1..1 -> Slot]
  <2>1. [slot EXCEPT !.part = 1] \in Slot
    BY DEF Slot
  <2> QED BY <2>1 DEF DataSlots
<1>3. DataSlots(slot, 1) \in Seq(Slot)
  <2>1. PICK n \in Nat : DataSlots(slot, 1) \in [1..n -> Slot]
    BY <1>2
  <2> QED BY <2>1
<1>4. /\ <<slot>> \o DataSlots(slot, 1) \in Seq(Slot)
      /\ Len(<<slot>> \o DataSlots(slot, 1)) = Len(<<slot>>) + Len(DataSlots(slot, 1))
      /\ Len(DataSlots(slot, 1)) \in Nat
  BY <1>1, <1>3
<1>5. <<slot>> \o DataSlots(slot, 1) # <<>> /\ <<slot>> # <<>>
  BY <1>1, <1>4
<1> QED BY <1>1, <1>4, <1>5 DEF SlotsFor

LEMMA LocateKeeps ==
  ASSUME ProofInv, NEW r \in Requests, NEW i, Locate(r, i)
  PROVE  ProofInv'
<1> DEFINE command == req[r].prog[i]
           slot == SlotOf(command, [j \in RefsOf(command) |-> req[r].words[j][1]])
<1>1. /\ UNCHANGED <<rollup, cache>>
      /\ req[r].pc = "locating" /\ i \in 1..Len(req[r].prog)
      /\ \A j \in RefsOf(command) : j < i /\ req[r].words[j] # <<>>
  BY DEF Locate, Read
<1>2. /\ command \in Command
      /\ req[r].slots \in Seq(Seq(Slot)) /\ req[r].words \in Seq(Seq(Words))
      /\ Len(req[r].slots) = Len(req[r].prog) /\ Len(req[r].words) = Len(req[r].prog)
  BY <1>1, Known DEF RequestState, CommandsInv, Waiting
<1>3. slot \in Slot
  <2>1. ASSUME NEW j \in RefsOf(command)
        PROVE  req[r].words[j][1] \in Words
    <3>1. j \in Nat \ {0}
      BY <1>2, OperandTypes DEF RefsOf
    <3>2. j \in 1..Len(req[r].words)
      BY <1>1, <1>2, <3>1, Known
    <3>3. req[r].words[j] \in Seq(Words) /\ req[r].words[j] # <<>>
      BY <1>1, <1>2, <3>2
    <3> QED BY <3>3
  <2> HIDE DEF command
  <2> QED BY <1>2, <2>1, SlotOfType
<1>4. PICK found \in Seq(Slot) :
        /\ found # <<>> /\ (NoFault(r) \/ Fault(r))
        /\ req' = [req EXCEPT ![r].slots[i] = found]
  <2>1. CASE NoFault(r) /\ req' = [req EXCEPT ![r].slots[i] = <<slot>>]
    <3>1. <<slot>> \in Seq(Slot) /\ <<slot>> # <<>>
      <4> HIDE DEF slot
      <4> QED BY <1>3
    <3> QED BY <2>1, <3>1
  <2>2. CASE \E got \in Fetched(r, slot) :
               /\ Charge(r, got.fault)
               /\ req' = [req EXCEPT ![r].slots[i] = SlotsFor(slot, got.word)]
    <3>1. PICK got \in Fetched(r, slot) :
               /\ Charge(r, got.fault)
               /\ req' = [req EXCEPT ![r].slots[i] = SlotsFor(slot, got.word)]
      BY <2>2
    <3>2. req[r].block \in 1..Len(blocks)
      BY <1>1, Known DEF BlockInv, Serving
    <3> HIDE DEF slot
    <3>3. At(StateOf(req[r].block), slot) \in Words
      BY <3>2, KnownRollup, AtType
    <3>4. got.word \in Words
      BY <3>1, <3>3, ProofConstants DEF Fetched
    <3> QED BY <1>3, <3>1, <3>4, SlotsForTypes DEF Charge
  <2> QED BY <2>1, <2>2 DEF Locate
<1> DEFINE slots == [req[r].slots EXCEPT ![i] = found]
           q == [req[r] EXCEPT !.slots = slots]
<1>5. /\ slots \in Seq(Seq(Slot)) /\ Len(slots) = Len(req[r].prog)
      /\ \A k \in 1..Len(req[r].prog) :
           slots[k] = IF k = i THEN found ELSE req[r].slots[k]
  BY <1>1, <1>2, <1>4, Known
<1>6. req' = [req EXCEPT ![r] = q]
  BY <1>4, Known
<1> HIDE DEF slots
<1>7. q \in RequestState
  BY <1>5, Known DEF RequestState
<1>8. /\ q.pc = "locating" /\ q.index = req[r].index /\ q.block = req[r].block
      /\ q.root = req[r].root /\ q.prog = req[r].prog /\ q.slots = slots
      /\ q.words = req[r].words
  BY <1>1, Known DEF RequestState
<1> HIDE DEF q
<1>9. CommandsInv(q) /\ ServedInv(q)
  <2>1. \A j \in RefsOf(command) : j < i /\ ~ req[r].prog[j].dynamic
    <3> SUFFICES ASSUME NEW j \in RefsOf(command) PROVE ~ req[r].prog[j].dynamic
      BY <1>1
    <3>1. j \in Nat \ {0}
      BY <1>2, OperandTypes DEF RefsOf
    <3>2. j \in 1..Len(req[r].prog)
      BY <1>1, <3>1, Known
    <3> QED BY <1>1, <3>2, Known DEF CommandsInv, Waiting
  <2> QED BY <1>1, <1>2, <1>5, <1>8, <2>1, Known DEF CommandsInv, ServedInv, Waiting
<1>10. BlockInv(q, since[r], blocks)
  BY <1>1, <1>8, Known DEF BlockInv, Serving
<1> QED BY <1>1, <1>4, <1>6, <1>7, <1>9, <1>10, GoesOn DEF RequestInv

LEMMA LocateFailsKeeps ==
  ASSUME ProofInv, NEW r \in Requests, NEW i, LocateFails(r, i)
  PROVE  ProofInv'
BY FailKeeps DEF LocateFails

LEMMA ProveKeeps ==
  ASSUME ProofInv, NEW r \in Requests, Prove(r)
  PROVE  ProofInv'
<1>1. /\ UNCHANGED <<rollup, cache>> /\ req[r].pc = "locating"
      /\ \A i \in 1..Len(req[r].prog) : req[r].slots[i] # <<>>
  BY DEF Prove, Located
<1>2. CASE Mishap /\ Fail(r)
  BY <1>1, <1>2, FailKeeps
<1>3. CASE NoFault(r) /\ req' = [req EXCEPT ![r].pc = "served", ![r].words = <<>>]
  <2> DEFINE q == [req[r] EXCEPT !.pc = "served", !.words = <<>>]
  <2>1. q \in RequestState
    <3>1. <<>> \in Seq(Seq(Words))
      OBVIOUS
    <3> QED BY <3>1, Known DEF RequestState
  <2>2. /\ q.pc = "served" /\ q.index = req[r].index /\ q.block = req[r].block
        /\ q.root = req[r].root /\ q.prog = req[r].prog /\ q.slots = req[r].slots
    BY Known DEF RequestState
  <2>3. req' = [req EXCEPT ![r] = q]
    BY <1>3, Known
  <2> HIDE DEF q
  <2>4. CommandsInv(q) /\ ServedInv(q)
    BY <1>1, <2>2, Known DEF CommandsInv, ServedInv, Waiting
  <2>5. BlockInv(q, since[r], blocks)
    BY <1>1, <2>2, Known DEF BlockInv, Serving
  <2> QED BY <1>1, <1>3, <2>1, <2>3, <2>4, <2>5, GoesOn DEF RequestInv
<1> QED BY <1>2, <1>3 DEF Prove

\* The client: what the verifier accepts is a reading (VerifiedSound) of the
\* state of the block.
LEMMA CallbackEnds ==
  ASSUME ProofInv, NEW r \in Requests, Callback(r)
  PROVE  \E q \in RequestState :
           /\ End(r, q) /\ q.pc \in {"accepted", "reverted"}
           /\ q.pc = "accepted" =>
                Shows(q.values, StateOf(req[r].block), req[r].prog)
<1> DEFINE state == StateOf(req[r].block)
           prog == req[r].prog
           witness == Witness(req[r].slots)
<1>1. req[r].pc = "served"
  BY DEF Callback
<1>2. PICK lenient \in BOOLEAN :
        LET got == Verified(state, prog, witness, lenient) IN
        End(r, [Idle EXCEPT !.pc = IF got.ok THEN "accepted" ELSE "reverted",
                            !.values = got.values])
  BY DEF Callback
<1> DEFINE got == Verified(state, prog, witness, lenient)
           pc == IF got.ok THEN "accepted" ELSE "reverted"
           q == [Idle EXCEPT !.pc = pc, !.values = got.values]
<1>3. prog \in Seq(Command) /\ Based(prog) /\ StaticRefs(prog)
  BY <1>1, Known DEF ServedInv, StaticRefs
<1>4. IsContent(state)
  BY <1>1, Known, KnownRollup DEF BlockInv, Serving
<1> HIDE DEF witness, state, prog
<1>5. got.values \in Seq(Seq(Words))
  BY <1>3, <1>4, VerifiedTypes
<1>6. got.ok => Shows(got.values, state, prog)
  BY <1>3, <1>4, VerifiedSound DEF Shows
<1>7. End(r, q)
  BY <1>2 DEF got
<1> HIDE DEF got
<1>8. pc \in {"accepted", "reverted"} /\ (pc = "accepted" => got.ok)
  OBVIOUS
<1> HIDE DEF pc
<1>9. q \in RequestState
  BY <1>5, <1>8, IdleTypes DEF RequestState
<1>10. q.pc = pc /\ q.values = got.values
  BY IdleTypes DEF RequestState
<1> HIDE DEF q
<1> QED BY <1>6, <1>7, <1>8, <1>9, <1>10 DEF state, prog

LEMMA CallbackKeeps ==
  ASSUME ProofInv, NEW r \in Requests, Callback(r)
  PROVE  ProofInv'
<1>1. UNCHANGED <<rollup, cache>> /\ UNCHANGED faults
  BY DEF Callback
<1>2. PICK q \in RequestState : End(r, q) /\ q.pc \in {"accepted", "reverted"}
  BY CallbackEnds
<1> QED BY <1>1, <1>2, EndKeeps

-----------------------------------------------------------------------------

LEMMA ProofStep == ProofInv /\ [Next]_vars => ProofInv'
<1> SUFFICES ASSUME ProofInv, [Next]_vars PROVE ProofInv'
  OBVIOUS
<1>1. CASE CreateNode
  BY <1>1, CreateNodeKeeps
<1>2. CASE RemoveNode
  BY <1>2, RemoveNodeKeeps
<1>3. CASE Age
  BY <1>3, AgeKeeps
<1>4. ASSUME NEW r \in Requests, Arrive(r)
      PROVE  ProofInv'
  BY <1>4, ArriveKeeps
<1>5. ASSUME NEW r \in Requests, GatewayStep(r)
      PROVE  ProofInv'
  BY <1>5, AskLatestKeeps, FetchLogsKeeps, FetchBlockKeeps, ProveKeeps,
     ReadValueKeeps, LocateKeeps, LocateFailsKeeps DEF GatewayStep
<1>6. ASSUME NEW r \in Requests, Callback(r)
      PROVE  ProofInv'
  BY <1>6, CallbackKeeps
<1>7. CASE UNCHANGED vars
  <2>1. UNCHANGED <<blocks, nodes, visible, cache, req, faults, since, failed, Latest>>
    BY <1>7 DEF vars, Latest
  <2> QED BY <2>1 DEF ProofInv, TypeOK, CacheInv, RollupInv
<1> QED BY <1>1, <1>2, <1>3, <1>4, <1>5, <1>6, <1>7 DEF Next

LEMMA ProofInvariance == Spec => []ProofInv
<1> QED BY ProofInit, ProofStep, PTL DEF Spec

\* Every reachable state of the proof gateway has the types of TypeOK.
THEOREM ProofGatewayTypes == Spec => []TypeOK
<1>1. ProofInv => TypeOK
  BY DEF ProofInv
<1> QED BY <1>1, ProofInvariance, PTL

\* The block, the send root and the node number of an answer belong together,
\* however many requests overwrite the cache and however the rollup changes
\* (ArbProof.ts:138-153).
THEOREM PartsMatch == Spec => []ServedPartsMatch
<1>1. ProofInv => ServedPartsMatch
  BY DEF ProofInv, RequestInv, BlockInv, Serving, ServedPartsMatch
<1> QED BY <1>1, ProofInvariance, PTL

\* Only the callback of a request takes it from "served".
LEMMA OnlyCallbackEnds ==
  ASSUME ProofInv, [Next]_vars, NEW r \in Requests,
         NEW pc \in {"accepted", "reverted"}, Ends(r, pc)
  PROVE  Callback(r)
<1>1. /\ req[r].pc = "served" /\ req'[r].pc = pc /\ req'[r] # req[r]
      /\ req \in [Requests -> RequestState]
  BY Known DEF Ends
<1>2. ASSUME NEW p \in Requests, Arrive(p) \/ GatewayStep(p) \/ Callback(p)
      PROVE  p = r
  <2>1. PICK q : req' = [req EXCEPT ![p] = q]
    BY <1>2 DEF Arrive, GatewayStep, AskLatest, FetchLogs, FetchBlock, Prove,
       ReadValue, Locate, LocateFails, Callback, Fail, End
  <2> QED BY <1>1, <2>1
<1>3. ~ Arrive(r) /\ ~ GatewayStep(r)
  BY <1>1 DEF Arrive, GatewayStep, AskLatest, FetchLogs, FetchBlock, Prove,
     ReadValue, Locate, LocateFails
<1>4. ~ CreateNode /\ ~ RemoveNode /\ ~ Age /\ ~ UNCHANGED vars
  BY <1>1 DEF CreateNode, RemoveNode, Age, vars
<1> QED BY <1>2, <1>3, <1>4 DEF Next

\* An accepted answer is, but for lost zeros, a reading of one state of the
\* contract, that of a node whose number is not older than the request,
\* whatever failed, whatever proofs were sent and whatever nodes were removed
\* (EVMProofHelper.sol:177-210, slots.ts:43-80).
THEOREM AcceptedFreshSnapshot == Spec => AcceptedIsFreshSnapshot
<1>1. ASSUME ProofInv, [Next]_vars, NEW r \in Requests, Ends(r, "accepted")
      PROVE  \E b \in DOMAIN blocks :
               /\ blocks[b].node >= since[r]
               /\ Shows(req'[r].values, StateOf(b), req[r].prog)
  <2>1. Callback(r)
    BY <1>1, OnlyCallbackEnds
  <2>2. PICK q \in RequestState :
          /\ End(r, q)
          /\ q.pc = "accepted" => Shows(q.values, StateOf(req[r].block), req[r].prog)
    BY <1>1, <2>1, CallbackEnds
  <2>3. req'[r] = q /\ q.pc = "accepted"
    BY <1>1, <2>2, Known DEF End, Ends
  <2>4. /\ req[r].block \in 1..Len(blocks) /\ blocks[req[r].block].node = req[r].index
        /\ since[r] <= req[r].index
    BY <1>1, Known DEF Ends, BlockInv, Serving
  <2>5. /\ DOMAIN blocks = 1..Len(blocks)
        /\ blocks[req[r].block].node >= since[r]
    BY <1>1, <2>4, Known, KnownRollup, ProofConstants
  <2> QED BY <2>2, <2>3, <2>4, <2>5
<1>2. ProofInv /\ [Next]_vars =>
        [\A r \in Requests : Ends(r, "accepted") =>
           \E b \in DOMAIN blocks :
             /\ blocks[b].node >= since[r]
             /\ Shows(req'[r].values, StateOf(b), req[r].prog)]_vars
  BY <1>1
<1> QED BY <1>2, ProofInvariance, PTL DEF Spec, AcceptedIsFreshSnapshot

-----------------------------------------------------------------------------
(* What a client refuses *)

\* a request of which no call failed: all that is known of it comes from the
\* block it goes by
Unhurt(q, seq) ==
  /\ q.pc \in {"asking", "logs", "block"} =>
       \A i \in 1..Len(q.prog) : q.slots[i] = <<>> /\ q.words[i] = <<>>
  /\ q.pc = "locating" /\ Backward(q.prog) =>
       LET storage == seq[q.block].storage IN
       SlotsAgree(q.slots, storage, q.prog) /\ WordsAgree(q.words, storage, q.prog)
  /\ q.pc = "served" => SlotsAgree(q.slots, seq[q.block].storage, q.prog)

Undisturbed == \A r \in Requests : ~ failed[r] => Unhurt(req[r], blocks)

\* A step that changes one request.
LEMMA OneUnhurt ==
  ASSUME ProofInv, Undisturbed, NEW r \in Requests, NEW q,
         req' = [req EXCEPT ![r] = q], blocks' = blocks,
         \A p \in Requests : p # r => failed'[p] = failed[p],
         ~ failed'[r] => Unhurt(q, blocks)
  PROVE  Undisturbed'
<1>1. req'[r] = q /\ \A p \in Requests : p # r => req'[p] = req[p]
  BY Known
<1>2. ASSUME NEW p \in Requests, ~ failed'[p]
      PROVE  Unhurt(req'[p], blocks')
  <2>1. CASE p = r
    BY <1>1, <1>2, <2>1
  <2>2. CASE p # r
    <3>1. ~ failed[p] /\ req'[p] = req[p]
      BY <1>1, <1>2, <2>2
    <3> QED BY <3>1 DEF Undisturbed
  <2> QED BY <2>1, <2>2
<1> QED BY <1>2 DEF Undisturbed

LEMMA EndUnhurt ==
  ASSUME ProofInv, Undisturbed, NEW r \in Requests, NEW q,
         q.pc \in {"failed", "accepted", "reverted"}, End(r, q), blocks' = blocks
  PROVE  Undisturbed'
<1>1. req' = [req EXCEPT ![r] = q] /\ failed' = [failed EXCEPT ![r] = FALSE]
  BY DEF End
<1>2. failed \in [Requests -> BOOLEAN]
  BY DEF ProofInv, TypeOK
<1>3. \A p \in Requests : p # r => failed'[p] = failed[p]
  BY <1>1, <1>2
<1>4. Unhurt(q, blocks)
  BY DEF Unhurt
<1> QED BY <1>1, <1>3, <1>4, OneUnhurt

LEMMA FailUnhurt ==
  ASSUME ProofInv, Undisturbed, NEW r \in Requests, Fail(r), blocks' = blocks
  PROVE  Undisturbed'
<1> DEFINE q == [Idle EXCEPT !.pc = "failed"]
<1>1. End(r, q) /\ q.pc = "failed"
  BY IdleTypes DEF Fail
<1> HIDE DEF q
<1> QED BY <1>1, EndUnhurt

\* A step that goes on: a call that failed disturbs the request.
LEMMA GoesOnUnhurt ==
  ASSUME ProofInv, Undisturbed, NEW r \in Requests, NEW q,
         req' = [req EXCEPT ![r] = q], blocks' = blocks,
         \/ NoFault(r) /\ (~ failed[r] => Unhurt(q, blocks))
         \/ Fault(r)
  PROVE  Undisturbed'
<1>1. CASE NoFault(r) /\ (~ failed[r] => Unhurt(q, blocks))
  <2>1. failed' = failed
    BY <1>1 DEF NoFault
  <2> QED BY <1>1, <2>1, OneUnhurt
<1>2. CASE Fault(r)
  <2>1. failed' = [failed EXCEPT ![r] = TRUE] /\ failed \in [Requests -> BOOLEAN]
    BY <1>2 DEF Fault, ProofInv, TypeOK
  <2>2. failed'[r] /\ \A p \in Requests : p # r => failed'[p] = failed[p]
    BY <2>1
  <2> QED BY <2>2, OneUnhurt
<1> QED BY <1>1, <1>2

\* Nothing is known of a request before its block is.
LEMMA FirstUnhurt ==
  ASSUME ProofInv, NEW r \in Requests, req[r].pc \in {"asking", "logs", "block"},
         Unhurt(req[r], blocks), NEW q,
         q.pc \in {"logs", "block", "locating"}, q.prog = req[r].prog,
         q.slots = req[r].slots, q.words = req[r].words
  PROVE  Unhurt(q, blocks)
<1>1. Len(req[r].slots) = Len(req[r].prog) /\ Len(req[r].words) = Len(req[r].prog)
  BY Known DEF CommandsInv, Waiting
<1>2. \A i \in 1..Len(req[r].prog) : req[r].slots[i] = <<>> /\ req[r].words[i] = <<>>
  BY DEF Unhurt
<1>3. \A storage : /\ SlotsAgree(req[r].slots, storage, req[r].prog)
                   /\ WordsAgree(req[r].words, storage, req[r].prog)
  BY <1>1, <1>2, NothingKnownAgrees
<1> QED BY <1>2, <1>3 DEF Unhurt

LEMMA AskLatestUnhurt ==
  ASSUME ProofInv, Undisturbed, NEW r \in Requests, AskLatest(r)
  PROVE  Undisturbed'
<1>1. req[r].pc = "asking" /\ blocks' = blocks /\ (~ failed[r] => Unhurt(req[r], blocks))
  BY DEF AskLatest, rollup, Undisturbed
<1>2. CASE Fail(r)
  BY <1>1, <1>2, FailUnhurt
<1>3. CASE NoFault(r) /\ req' = [req EXCEPT ![r].pc = "logs", ![r].index = Latest]
  <2> DEFINE q == [req[r] EXCEPT !.pc = "logs", !.index = Latest]
  <2>1. req' = [req EXCEPT ![r] = q]
    BY <1>3, Known
  <2>2. /\ q.pc = "logs" /\ q.prog = req[r].prog
        /\ q.slots = req[r].slots /\ q.words = req[r].words
    BY Known DEF RequestState
  <2> HIDE DEF q
  <2>3. ~ failed[r] => Unhurt(q, blocks)
    BY <1>1, <2>2, FirstUnhurt
  <2> QED BY <1>1, <1>3, <2>1, <2>3, GoesOnUnhurt
<1>4. CASE /\ NoFault(r)
           /\ req' = [req EXCEPT ![r].pc = "locating", ![r].index = Latest,
                                 ![r].block = cache.block, ![r].root = cache.root]
  <2> DEFINE q == [req[r] EXCEPT !.pc = "locating", !.index = Latest,
                                 !.block = cache.block, !.root = cache.root]
  <2>1. req' = [req EXCEPT ![r] = q]
    BY <1>4, Known
  <2>2. /\ q.pc = "locating" /\ q.prog = req[r].prog
        /\ q.slots = req[r].slots /\ q.words = req[r].words
    BY Known DEF RequestState
  <2> HIDE DEF q
  <2>3. ~ failed[r] => Unhurt(q, blocks)
    BY <1>1, <2>2, FirstUnhurt
  <2> QED BY <1>1, <1>4, <2>1, <2>3, GoesOnUnhurt
<1> QED BY <1>2, <1>3, <1>4 DEF AskLatest

LEMMA FetchLogsUnhurt ==
  ASSUME ProofInv, Undisturbed, NEW r \in Requests, FetchLogs(r)
  PROVE  Undisturbed'
<1>1. req[r].pc = "logs" /\ blocks' = blocks /\ (~ failed[r] => Unhurt(req[r], blocks))
  BY DEF FetchLogs, rollup, Undisturbed
<1>2. CASE Fail(r)
  BY <1>1, <1>2, FailUnhurt
<1>3. CASE NoFault(r) /\ req' = [req EXCEPT ![r].pc = "block", ![r].root = nodes[req[r].index]]
  <2> DEFINE q == [req[r] EXCEPT !.pc = "block", !.root = nodes[req[r].index]]
  <2>1. req' = [req EXCEPT ![r] = q]
    BY <1>3, Known
  <2>2. /\ q.pc = "block" /\ q.prog = req[r].prog
        /\ q.slots = req[r].slots /\ q.words = req[r].words
    BY Known DEF RequestState
  <2> HIDE DEF q
  <2>3. ~ failed[r] => Unhurt(q, blocks)
    BY <1>1, <2>2, FirstUnhurt
  <2> QED BY <1>1, <1>3, <2>1, <2>3, GoesOnUnhurt
<1> QED BY <1>2, <1>3 DEF FetchLogs

LEMMA FetchBlockUnhurt ==
  ASSUME ProofInv, Undisturbed, NEW r \in Requests, FetchBlock(r)
  PROVE  Undisturbed'
<1>1. req[r].pc = "block" /\ blocks' = blocks /\ (~ failed[r] => Unhurt(req[r], blocks))
  BY DEF FetchBlock, rollup, Undisturbed
<1>2. CASE Fail(r)
  BY <1>1, <1>2, FailUnhurt
<1>3. CASE NoFault(r) /\ req' = [req EXCEPT ![r].pc = "locating", ![r].block = req[r].root]
  <2> DEFINE q == [req[r] EXCEPT !.pc = "locating", !.block = req[r].root]
  <2>1. req' = [req EXCEPT ![r] = q]
    BY <1>3, Known
  <2>2. /\ q.pc = "locating" /\ q.prog = req[r].prog
        /\ q.slots = req[r].slots /\ q.words = req[r].words
    BY Known DEF RequestState
  <2> HIDE DEF q
  <2>3. ~ failed[r] => Unhurt(q, blocks)
    BY <1>1, <2>2, FirstUnhurt
  <2> QED BY <1>1, <1>3, <2>1, <2>3, GoesOnUnhurt
<1> QED BY <1>2, <1>3 DEF FetchBlock

LEMMA ReadValueUnhurt ==
  ASSUME ProofInv, Undisturbed, NEW r \in Requests, NEW j, ReadValue(r, j)
  PROVE  Undisturbed'
<1> DEFINE storage == StateOf(req[r].block)
<1>1. /\ req[r].pc = "locating" /\ j \in 1..Len(req[r].prog) /\ blocks' = blocks
      /\ ~ req[r].prog[j].dynamic /\ req[r].slots[j] # <<>>
  BY DEF ReadValue, Located, rollup
<1>2. PICK got \in Fetched(r, req[r].slots[j][1]) :
        /\ Charge(r, got.fault)
        /\ req' = [req EXCEPT ![r].words[j] = <<got.word>>]
  BY DEF ReadValue
<1>3. \/ NoFault(r) /\ got.word = At(storage, req[r].slots[j][1])
      \/ Fault(r)
  BY <1>2 DEF Fetched, Charge
<1> DEFINE words == [req[r].words EXCEPT ![j] = <<got.word>>]
           q == [req[r] EXCEPT !.words = words]
<1>4. req' = [req EXCEPT ![r] = q]
  BY <1>2, Known
<1>5. req[r].words \in Seq(Seq(Words)) /\ req[r].prog \in Seq(Command)
  BY Known DEF RequestState
<1> HIDE DEF words
<1>6. /\ q.pc = "locating" /\ q.block = req[r].block /\ q.prog = req[r].prog
      /\ q.slots = req[r].slots /\ q.words = words
  BY <1>1, Known DEF RequestState
<1> HIDE DEF q, storage
<1>7. ASSUME got.word = At(storage, req[r].slots[j][1]), ~ failed[r]
      PROVE  Unhurt(q, blocks)
  <2> SUFFICES ASSUME Backward(req[r].prog)
               PROVE  /\ SlotsAgree(req[r].slots, storage, req[r].prog)
                      /\ WordsAgree(words, storage, req[r].prog)
    BY <1>6 DEF Unhurt, storage, StateOf
  <2>1. SlotsAgree(req[r].slots, storage, req[r].prog) /\ WordsAgree(req[r].words, storage, req[r].prog)
    BY <1>1, <1>7 DEF Undisturbed, Unhurt, storage, StateOf
  <2>2. words = [req[r].words EXCEPT ![j] = <<At(storage, req[r].slots[j][1])>>]
    BY <1>7 DEF words
  <2>3. WordsAgree(words, storage, req[r].prog)
    BY <1>1, <1>5, <2>1, <2>2, ReadAgrees
  <2> QED BY <2>1, <2>3
<1> QED BY <1>1, <1>3, <1>4, <1>7, GoesOnUnhurt

LEMMA LocateUnhurt ==
  ASSUME ProofInv, Undisturbed, NEW r \in Requests, NEW i, Locate(r, i)
  PROVE  Undisturbed'
<1> DEFINE storage == StateOf(req[r].block)
           command == req[r].prog[i]
           slot == SlotOf(command, [j \in RefsOf(command) |-> req[r].words[j][1]])
           found == IF command.dynamic THEN SlotsFor(slot, At(storage, slot)) ELSE <<slot>>
<1>1. /\ req[r].pc = "locating" /\ i \in 1..Len(req[r].prog) /\ blocks' = blocks
      /\ \A j \in RefsOf(command) : j < i /\ req[r].words[j] # <<>>
  BY DEF Locate, Read, rollup
<1>2. PICK new : /\ req' = [req EXCEPT ![r].slots[i] = new]
                 /\ (NoFault(r) /\ new = found) \/ Fault(r)
  <2>1. CASE ~ command.dynamic /\ NoFault(r) /\ req' = [req EXCEPT ![r].slots[i] = <<slot>>]
    <3>1. <<slot>> = found
      BY <2>1
    <3> QED BY <2>1, <3>1
  <2>2. CASE /\ command.dynamic
             /\ \E got \in Fetched(r, slot) :
                  /\ Charge(r, got.fault)
                  /\ req' = [req EXCEPT ![r].slots[i] = SlotsFor(slot, got.word)]
    <3>1. PICK got \in Fetched(r, slot) :
                  /\ Charge(r, got.fault)
                  /\ req' = [req EXCEPT ![r].slots[i] = SlotsFor(slot, got.word)]
      BY <2>2
    <3>2. \/ NoFault(r) /\ got.word = At(storage, slot)
          \/ Fault(r)
      BY <3>1 DEF Fetched, Charge
    <3> HIDE DEF slot, storage, command
    <3>3. NoFault(r) => SlotsFor(slot, got.word) = found \/ Fault(r)
      BY <2>2, <3>2
    <3> QED BY <3>1, <3>2, <3>3
  <2> QED BY <2>1, <2>2 DEF Locate
<1> DEFINE slots == [req[r].slots EXCEPT ![i] = new]
           q == [req[r] EXCEPT !.slots = slots]
<1>3. req' = [req EXCEPT ![r] = q]
  BY <1>2, Known
<1>4. req[r].slots \in Seq(Seq(Slot)) /\ req[r].prog \in Seq(Command)
  BY Known DEF RequestState
<1> HIDE DEF slots
<1>5. /\ q.pc = "locating" /\ q.block = req[r].block /\ q.prog = req[r].prog
      /\ q.slots = slots /\ q.words = req[r].words
  BY <1>1, Known DEF RequestState
<1> HIDE DEF q, storage
<1>6. ASSUME new = found, ~ failed[r]
      PROVE  Unhurt(q, blocks)
  <2> SUFFICES ASSUME Backward(req[r].prog)
               PROVE  /\ SlotsAgree(slots, storage, req[r].prog)
                      /\ WordsAgree(req[r].words, storage, req[r].prog)
    BY <1>5 DEF Unhurt, storage, StateOf
  <2>1. SlotsAgree(req[r].slots, storage, req[r].prog) /\ WordsAgree(req[r].words, storage, req[r].prog)
    BY <1>1, <1>6 DEF Undisturbed, Unhurt, storage, StateOf
  <2>2. SlotsAgree([req[r].slots EXCEPT ![i] = found], storage, req[r].prog)
    BY <1>1, <1>4, <2>1, LocateAgrees
  <2>3. slots = [req[r].slots EXCEPT ![i] = found]
    BY <1>6 DEF slots
  <2> HIDE DEF found, slot, command
  <2> QED BY <2>1, <2>2, <2>3
<1> QED BY <1>1, <1>2, <1>3, <1>6, GoesOnUnhurt

LEMMA ProveUnhurt ==
  ASSUME ProofInv, Undisturbed, NEW r \in Requests, Prove(r)
  PROVE  Undisturbed'
<1>1. /\ req[r].pc = "locating" /\ blocks' = blocks
      /\ \A i \in 1..Len(req[r].prog) : req[r].slots[i] # <<>>
  BY DEF Prove, Located, rollup
<1>2. CASE Fail(r)
  BY <1>1, <1>2, FailUnhurt
<1>3. CASE NoFault(r) /\ req' = [req EXCEPT ![r].pc = "served", ![r].words = <<>>]
  <2> DEFINE q == [req[r] EXCEPT !.pc = "served", !.words = <<>>]
  <2>1. req' = [req EXCEPT ![r] = q]
    BY <1>3, Known
  <2>2. /\ q.pc = "served" /\ q.block = req[r].block /\ q.prog = req[r].prog
        /\ q.slots = req[r].slots
    BY Known DEF RequestState
  <2> HIDE DEF q
  <2>3. Backward(req[r].prog)
    BY <1>1, Known DEF CommandsInv, Waiting, Backward
  <2>4. ~ failed[r] => Unhurt(q, blocks)
    BY <1>1, <2>2, <2>3 DEF Undisturbed, Unhurt
  <2> QED BY <1>1, <1>3, <2>1, <2>4, GoesOnUnhurt
<1> QED BY <1>2, <1>3 DEF Prove

LEMMA ArriveUnhurt ==
  ASSUME ProofInv, Undisturbed, NEW r \in Requests, Arrive(r)
  PROVE  Undisturbed'
<1>1. PICK p \in Programs : req' = [req EXCEPT ![r] =
        [Idle EXCEPT !.pc = "asking", !.prog = p,
                     !.slots = [i \in 1..Len(p) |-> <<>>],
                     !.words = [i \in 1..Len(p) |-> <<>>]]]
  BY DEF Arrive
<1> DEFINE slots == [i \in 1..Len(p) |-> <<>>]
           q == [Idle EXCEPT !.pc = "asking", !.prog = p, !.slots = slots, !.words = slots]
<1>2. req' = [req EXCEPT ![r] = q] /\ blocks' = blocks /\ failed' = failed
  BY <1>1 DEF Arrive, rollup
<1>3. \A i \in 1..Len(p) : slots[i] = <<>>
  OBVIOUS
<1> HIDE DEF slots
<1>4. q.pc = "asking" /\ q.prog = p /\ q.slots = slots /\ q.words = slots
  BY DEF Idle
<1> HIDE DEF q
<1>5. Unhurt(q, blocks)
  BY <1>3, <1>4 DEF Unhurt
<1> QED BY <1>2, <1>5, OneUnhurt

LEMMA CreateNodeUnhurt == ProofInv /\ Undisturbed /\ CreateNode => Undisturbed'
<1> SUFFICES ASSUME ProofInv, Undisturbed, CreateNode PROVE Undisturbed'
  OBVIOUS
<1>1. /\ req' = req /\ failed' = failed
      /\ \E content : blocks' = Append(blocks, [node |-> Latest + 1, storage |-> content])
  BY DEF CreateNode
<1>2. \A b \in 1..Len(blocks) : blocks'[b] = blocks[b]
  BY <1>1, KnownRollup
<1>3. ASSUME NEW r \in Requests, Unhurt(req[r], blocks)
      PROVE  Unhurt(req[r], blocks')
  <2>1. req[r].pc \in Serving => blocks'[req[r].block] = blocks[req[r].block]
    BY <1>2, Known DEF BlockInv, Serving
  <2> QED BY <1>3, <2>1 DEF Unhurt, Serving
<1> QED BY <1>1, <1>3 DEF Undisturbed

LEMMA UndisturbedInvariance == Spec => [](ProofInv /\ Undisturbed)
<1>1. Init => Undisturbed
  BY IdleTypes DEF Init, Undisturbed, Unhurt
<1>2. ASSUME ProofInv, Undisturbed, [Next]_vars
      PROVE  Undisturbed'
  <2>1. CASE CreateNode
    BY <1>2, <2>1, CreateNodeUnhurt
  <2>2. CASE RemoveNode \/ Age \/ UNCHANGED vars
    BY <1>2, <2>2 DEF RemoveNode, Age, vars, Undisturbed
  <2>3. ASSUME NEW r \in Requests, Arrive(r)
        PROVE  Undisturbed'
    BY <1>2, <2>3, ArriveUnhurt
  <2>4. ASSUME NEW r \in Requests, GatewayStep(r)
        PROVE  Undisturbed'
    <3>1. ASSUME NEW i, LocateFails(r, i)
          PROVE  Undisturbed'
      BY <1>2, <3>1, FailUnhurt DEF LocateFails, rollup
    <3> QED BY <1>2, <2>4, <3>1, AskLatestUnhurt, FetchLogsUnhurt, FetchBlockUnhurt,
               ReadValueUnhurt, LocateUnhurt, ProveUnhurt DEF GatewayStep
  <2>5. ASSUME NEW r \in Requests, Callback(r)
        PROVE  Undisturbed'
    <3>1. PICK q \in RequestState : End(r, q) /\ q.pc \in {"accepted", "reverted"}
      BY <1>2, <2>5, CallbackEnds
    <3>2. blocks' = blocks
      BY <2>5 DEF Callback, rollup
    <3> QED BY <1>2, <3>1, <3>2, EndUnhurt
  <2> QED BY <1>2, <2>1, <2>2, <2>3, <2>4, <2>5 DEF Next
<1> QED BY <1>1, <1>2, ProofInit, ProofStep, PTL DEF Spec

\* A client refuses an answer only when an RPC call of the request failed, or
\* the contract was not there or empty at the block, or a value has several
\* data words or ends in one that loses too many leading zeros: for every other
\* program and contract the gateway asks proofs for the slots that the verifier
\* consumes, in its order, although the commands find them concurrently
\* (slots.ts:124-164, EVMProofHelper.sol:33-48, 130-229, MerkleTrie.sol:106-129).
THEOREM RefusalsHaveCause == Spec => OnlyFaultsRevert
<1> DEFINE Caused(r) ==
             \/ failed[r] \/ LosesTooMuch(r) \/ ~ HasTrie(StateOf(req[r].block))
             \/ \E i \in DOMAIN req[r].prog :
                  Len(Reading(StateOf(req[r].block), req[r].prog)[i]) > 1
<1>1. ASSUME ProofInv, Undisturbed, [Next]_vars, NEW r \in Requests, Ends(r, "reverted")
      PROVE  Caused(r)
  <2> SUFFICES ASSUME ~ failed[r], HasTrie(StateOf(req[r].block)) PROVE Caused(r)
    OBVIOUS
  <2> DEFINE storage == StateOf(req[r].block)
  <2>1. Callback(r) /\ req[r].pc = "served"
    BY <1>1, OnlyCallbackEnds DEF Ends
  <2>2. /\ req[r].prog \in Seq(Command) /\ Based(req[r].prog) /\ StaticRefs(req[r].prog)
        /\ req[r].slots \in Seq(Seq(Slot)) /\ \A i \in 1..Len(req[r].prog) : req[r].slots[i] # <<>>
    <3>1. req[r].prog \in Seq(Command) /\ Based(req[r].prog) /\ ServedInv(req[r])
      BY <1>1, Known
    <3>2. DOMAIN req[r].prog = 1..Len(req[r].prog)
      BY <3>1
    <3>3. StaticRefs(req[r].prog)
      BY <2>1, <3>1, <3>2 DEF ServedInv, StaticRefs
    <3> QED BY <1>1, <2>1, <3>1, <3>3, Known DEF ServedInv, RequestState
  <2>3. IsContent(storage) /\ HasTrie(storage)
    BY <1>1, <2>1, Known, KnownRollup DEF BlockInv, Serving
  <2>4. SlotsAgree(req[r].slots, storage, req[r].prog)
    <3>1. Backward(req[r].prog)
      BY <2>2, StaticRefsBackward
    <3> QED BY <1>1, <2>1, <3>1 DEF Undisturbed, Unhurt, StateOf
  <2>5. PICK lenient \in BOOLEAN :
          LET got == Verified(storage, req[r].prog, Witness(req[r].slots), lenient) IN
          End(r, [Idle EXCEPT !.pc = IF got.ok THEN "accepted" ELSE "reverted",
                              !.values = got.values])
    BY <2>1 DEF Callback
  <2> HIDE DEF storage
  <2> DEFINE got == Verified(storage, req[r].prog, Witness(req[r].slots), lenient)
             pc == IF got.ok THEN "accepted" ELSE "reverted"
             q == [Idle EXCEPT !.pc = pc, !.values = got.values]
  <2>6. End(r, q)
    BY <2>5
  <2> HIDE DEF got
  <2>7. req'[r].pc = pc
    <3>1. q.pc = pc
      BY DEF Idle
    <3> HIDE DEF q, pc
    <3> QED BY <1>1, <2>6, <3>1, Known DEF End
  <2>8. ~ got.ok
    BY <1>1, <2>7 DEF Ends
  <2>9. PICK i \in DOMAIN req[r].prog :
          LET exact == Reading(storage, req[r].prog)[i] IN
          req[r].prog[i].dynamic /\ (Len(exact) > 1 \/ exact[Len(exact)] \in TooShort)
    BY <2>2, <2>3, <2>4, <2>8, RefusedForValue DEF got
  <2> QED BY <2>9 DEF LosesTooMuch, storage
<1>2. ProofInv /\ Undisturbed /\ [Next]_vars =>
        [\A r \in Requests : Ends(r, "reverted") => Caused(r)]_vars
  <2> HIDE DEF Caused
  <2> QED BY <1>1
<1> QED BY <1>2, UndisturbedInvariance, PTL DEF Spec, OnlyFaultsRevert

=============================================================================
