----------------------------- MODULE ProofGateway -----------------------------
(***************************************************************************)
(* The proof gateway for a rollup (gateway/cmd/arbitrum.ts): requests of   *)
(* the handler getStorageSlots (gateway/src/handlers/slots.ts), served by  *)
(* ArbProofService from the block of the rollup's latest node, which       *)
(* InMemoryBlockCache keeps, and the client's callback, which checks the   *)
(* proofs (EVMFetchTarget, ArbitrumVerifier, EVMProofHelper).              *)
(*                                                                         *)
(* Every await of the code ends an action: requests, and the commands of a *)
(* request, interleave at their RPC calls.  A block and its send root are  *)
(* both written as the position of the block in blocks; the genesis node 0 *)
(* has no event.  A reorganisation of L1 may put another node, of another  *)
(* block, at a number that was the latest; ArbitrumVerifier would notice,  *)
(* but its comparison with the rollup is commented out.                    *)
(***************************************************************************)
EXTENDS StorageProof, FiniteSets

CONSTANTS
  Requests,    \* requests the gateway may receive
  Programs,    \* what a request may ask for
  Contents,    \* what the storage of the target contract can be
  MaxNodes,    \* bound on nodes ever created
  MaxFaults    \* bound on RPC calls that fail

ASSUME ProofAssumption ==
  /\ Programs \subseteq Seq(Command) /\ \A p \in Programs : p # <<>> /\ Based(p)
  /\ \A content \in Contents :
       DOMAIN content \subseteq Slot /\ \A s \in DOMAIN content : content[s] \in Words
  /\ MaxNodes \in Nat /\ MaxFaults \in Nat

VARIABLES
  blocks,    \* blocks that nodes asserted: of which node, and the contract there
  nodes,     \* nodes[n]: the block of node n
  visible,   \* the events of nodes from visible on are in the last L1 blocks
  cache,     \* InMemoryBlockCache
  req,       \* progress of each request
  faults,
  \* history, read by the properties only:
  since,     \* since[r]: the least number of a latest node since r arrived
  failed     \* failed[r]: an RPC call of r failed

vars == <<blocks, nodes, visible, cache, req, faults, since, failed>>
rollup == <<blocks, nodes, visible>>

Latest == Len(nodes)
Indices == 0..MaxNodes     \* of nodes, and of blocks
NoBlock == 0     \* an empty block {} or send root ''

Idle == [pc |-> "idle", index |-> 0, block |-> NoBlock, root |-> NoBlock,
         prog |-> <<>>, slots |-> <<>>, words |-> <<>>, values |-> <<>>]

Init ==
  /\ blocks = <<>> /\ nodes = <<>>
  /\ visible = 1
  /\ cache = [index |-> 0, block |-> NoBlock, root |-> NoBlock]
  /\ req = [r \in Requests |-> Idle]
  /\ faults = 0
  /\ since = [r \in Requests |-> 0]
  /\ failed = [r \in Requests |-> FALSE]

-----------------------------------------------------------------------------
(* The rollup *)

\* a node is created, of a new block
CreateNode ==
  /\ Len(blocks) < MaxNodes
  /\ \E content \in Contents : blocks' = Append(blocks, [node |-> Latest + 1, storage |-> content])
  /\ nodes' = Append(nodes, Len(blocks) + 1)
  /\ UNCHANGED <<visible, cache, req, faults, since, failed>>

\* L1 is reorganised and the last node, a recent one, is not created after all
RemoveNode ==
  /\ Latest >= visible
  /\ nodes' = SubSeq(nodes, 1, Latest - 1)
  /\ since' = [r \in Requests |-> IF since[r] = Latest THEN Latest - 1 ELSE since[r]]
  /\ UNCHANGED <<blocks, visible, cache, req, faults, failed>>

\* L1 blocks pass: the events seen so far are no longer in the last 100000
Age ==
  /\ visible <= Latest
  /\ visible' = Latest + 1
  /\ UNCHANGED <<blocks, nodes, cache, req, faults, since, failed>>

-----------------------------------------------------------------------------
(* getProvableBlock *)

\* an RPC call of r settles, or fails
NoFault(r) == UNCHANGED <<faults, since, failed>>
Mishap == faults < MaxFaults /\ faults' = faults + 1
Fault(r) == Mishap /\ failed' = [failed EXCEPT ![r] = TRUE] /\ UNCHANGED since

\* a request ends, and with it its history
End(r, outcome) ==
  /\ req' = [req EXCEPT ![r] = outcome]
  /\ since' = [since EXCEPT ![r] = 0] /\ failed' = [failed EXCEPT ![r] = FALSE]
Fail(r) == End(r, [Idle EXCEPT !.pc = "failed"])

Arrive(r) ==
  /\ req[r].pc = "idle"
  /\ \E p \in Programs : req' = [req EXCEPT ![r] =
       [Idle EXCEPT !.pc = "asking", !.prog = p,
                    !.slots = [i \in 1..Len(p) |-> <<>>],
                    !.words = [i \in 1..Len(p) |-> <<>>]]]
  /\ since' = [since EXCEPT ![r] = Latest]
  /\ UNCHANGED <<rollup, cache, faults, failed>>

\* Mutant of Hit: whatever is in the cache is served
HitAnything(index) == cache.index # 0 /\ index # 0

\* InMemoryBlockCache.getBlock
Hit(index) == cache.index = index

\* the answer to latestNodeCreated, and the look into the cache; an empty
\* block cannot be encoded
AskLatest(r) ==
  /\ req[r].pc = "asking"
  /\ \/ /\ ~ Hit(Latest) /\ NoFault(r)
        /\ req' = [req EXCEPT ![r].pc = "logs", ![r].index = Latest]
     \/ /\ Hit(Latest) /\ cache.block # NoBlock /\ NoFault(r)
        /\ req' = [req EXCEPT ![r].pc = "locating", ![r].index = Latest,
                              ![r].block = cache.block, ![r].root = cache.root]
     \/ Hit(Latest) /\ cache.block = NoBlock /\ Fail(r) /\ UNCHANGED faults
     \/ Mishap /\ Fail(r)
  /\ UNCHANGED <<rollup, cache>>

\* getBlockHashAndSendRoot: the event of the node, in the last L1 blocks only
FetchLogs(r) ==
  /\ req[r].pc = "logs"
  /\ \/ /\ req[r].index \in visible..Latest /\ NoFault(r)
        /\ req' = [req EXCEPT ![r].pc = "block", ![r].root = nodes[req[r].index]]
     \/ req[r].index \notin visible..Latest /\ Fail(r) /\ UNCHANGED faults
     \/ Mishap /\ Fail(r)
  /\ UNCHANGED <<rollup, cache>>

\* Mutant of FetchBlock: the index is the latest one when the block arrives
FetchBlockOfLatest(r) ==
  /\ req[r].pc = "block"
  /\ NoFault(r)
  /\ cache' = [index |-> Latest, block |-> req[r].root, root |-> req[r].root]
  /\ req' = [req EXCEPT ![r].pc = "locating", ![r].block = req[r].root]
  /\ UNCHANGED rollup

\* Mutant of FetchBlock: the block is stored for the node after its own
FetchBlockForNext(r) ==
  /\ req[r].pc = "block"
  /\ NoFault(r)
  /\ cache' = [index |-> req[r].index + 1, block |-> req[r].root, root |-> req[r].root]
  /\ req' = [req EXCEPT ![r].pc = "locating", ![r].block = req[r].root]
  /\ UNCHANGED rollup

\* the L2 block of the event arrives and setBlock replaces what is cached
FetchBlock(r) ==
  /\ req[r].pc = "block"
  /\ \/ /\ NoFault(r)
        /\ cache' = [index |-> req[r].index, block |-> req[r].root, root |-> req[r].root]
        /\ req' = [req EXCEPT ![r].pc = "locating", ![r].block = req[r].root]
     \/ Mishap /\ Fail(r) /\ UNCHANGED cache
  /\ UNCHANGED rollup

-----------------------------------------------------------------------------
(* createProofs: the commands of a request run concurrently.               *)

StateOf(block) == blocks[block].storage

\* EVMProofHelper.getStorageAt: a failed call reads as zero
Fetched(r, slot) ==
  {[word |-> At(StateOf(req[r].block), slot), fault |-> FALSE],
   [word |-> Zero, fault |-> TRUE]}

Charge(r, fault) == IF fault THEN Fault(r) ELSE NoFault(r)

Located(r, i) == req[r].slots[i] # <<>>   \* the slots of command i are known
Read(r, i) == req[r].words[i] # <<>>      \* its value was read

\* value() of a static command is read once, when a later path refers to it
ReadValue(r, j) ==
  /\ req[r].pc = "locating" /\ j \in 1..Len(req[r].prog)
  /\ ~ req[r].prog[j].dynamic /\ Located(r, j) /\ ~ Read(r, j)
  /\ \E i \in (j + 1)..Len(req[r].prog) : j \in RefsOf(req[r].prog[i])
  /\ \E got \in Fetched(r, req[r].slots[j][1]) :
       /\ Charge(r, got.fault)
       /\ req' = [req EXCEPT ![r].words[j] = <<got.word>>]
  /\ UNCHANGED <<rollup, cache>>

\* getValueFromPath, when the values its path refers to are there; it reads
\* the header of a dynamic value
Locate(r, i) ==
  /\ req[r].pc = "locating" /\ i \in 1..Len(req[r].prog) /\ ~ Located(r, i)
  /\ LET command == req[r].prog[i]
         slot == SlotOf(command, [j \in RefsOf(command) |-> req[r].words[j][1]]) IN
     /\ \A j \in RefsOf(command) : j < i /\ Read(r, j)
     /\ \/ /\ ~ command.dynamic /\ NoFault(r)
           /\ req' = [req EXCEPT ![r].slots[i] = <<slot>>]
        \/ /\ command.dynamic
           /\ \E got \in Fetched(r, slot) :
                /\ Charge(r, got.fault)
                /\ req' = [req EXCEPT ![r].slots[i] = SlotsFor(slot, got.word)]
  /\ UNCHANGED <<rollup, cache>>

\* Mutant of LocateFails: with the live array of requests in place of its
\* copy, a command that refers to itself waits for itself
LocateWaits(r, i) ==
  /\ req[r].pc = "locating" /\ i \in 1..Len(req[r].prog) /\ ~ Located(r, i)
  /\ \E j \in RefsOf(req[r].prog[i]) : req[r].prog[j].dynamic /\ Located(r, j)
  /\ Fail(r)
  /\ UNCHANGED <<rollup, cache, faults>>

\* a path that refers to itself or further on, or to a dynamic value, whose
\* bytes value() does not give, fails the request
LocateFails(r, i) ==
  /\ req[r].pc = "locating" /\ i \in 1..Len(req[r].prog) /\ ~ Located(r, i)
  /\ \E j \in RefsOf(req[r].prog[i]) :
       j >= i \/ (req[r].prog[j].dynamic /\ Located(r, j))
  /\ Fail(r)
  /\ UNCHANGED <<rollup, cache, faults>>

\* getProofs, once all slots are known
Prove(r) ==
  /\ req[r].pc = "locating"
  /\ \A i \in 1..Len(req[r].prog) : Located(r, i)
  /\ \/ NoFault(r) /\ req' = [req EXCEPT ![r].pc = "served", ![r].words = <<>>]
     \/ Mishap /\ Fail(r)
  /\ UNCHANGED <<rollup, cache>>

-----------------------------------------------------------------------------
(* getStorageSlotsCallback: the client hands the proofs to the verifier    *)

Callback(r) ==
  /\ req[r].pc = "served"
  /\ \E lenient \in BOOLEAN :
       LET got == Verified(StateOf(req[r].block), req[r].prog,
                           Witness(req[r].slots), lenient) IN
       End(r, [Idle EXCEPT !.pc = IF got.ok THEN "accepted" ELSE "reverted",
                           !.values = got.values])
  /\ UNCHANGED <<rollup, cache, faults>>

GatewayStep(r) ==
  \/ AskLatest(r) \/ FetchLogs(r) \/ FetchBlock(r) \/ Prove(r)
  \/ \E i \in 1..Len(req[r].prog) : ReadValue(r, i) \/ Locate(r, i) \/ LocateFails(r, i)

Next ==
  \/ CreateNode \/ RemoveNode \/ Age
  \/ \E r \in Requests : Arrive(r) \/ GatewayStep(r) \/ Callback(r)

Spec == Init /\ [][Next]_vars

(***************************************************************************)
(* Each RPC call of the gateway settles, and its continuation is run.      *)
(***************************************************************************)
FairSpec == Spec /\ \A r \in Requests : WF_vars(GatewayStep(r))

-----------------------------------------------------------------------------
(* Properties *)

RequestState ==
  [pc : {"idle", "asking", "logs", "block", "locating", "served", "failed",
         "accepted", "reverted"},
   index : Indices, block : Indices, root : Indices, prog : Programs \cup {<<>>},
   slots : Seq(Seq(Slot)), words : Seq(Seq(Words)), values : Seq(Seq(Words))]

TypeOK ==
  /\ blocks \in Seq([node : Indices, storage : Contents])
  /\ nodes \in Seq(1..Len(blocks)) /\ Latest <= Len(blocks) /\ Len(blocks) <= MaxNodes
  /\ visible \in 1..(MaxNodes + 1)
  /\ cache \in [index : Indices, block : Indices, root : Indices]
  /\ req \in [Requests -> RequestState]
  /\ faults \in 0..MaxFaults
  /\ since \in [Requests -> Indices]
  /\ failed \in [Requests -> BOOLEAN]

\* The block and the send root of an answer belong together, and a node with
\* the number in the answer asserted them, although a slow request may
\* overwrite the cache while others read it, and the rollup may change under
\* both (ArbProof.ts:138-153, InMemoryBlockCache.ts:33-43).
ServedPartsMatch ==
  \A r \in Requests : req[r].pc \in {"locating", "served"} =>
    req[r].root = req[r].block /\ blocks[req[r].block].node = req[r].index

Ends(r, pc) == req[r].pc = "served" /\ req'[r].pc = pc

\* What a client accepts is what its program reads in one state of the
\* contract, up to leading zeros of its words, and that state is the one of a
\* node, present or removed, with a number no less than the latest had at some
\* moment since the request arrived: commands that run apart never mix two
\* states, failed reads never pass for zeros, and the cache never serves an
\* older number.  It may serve the state of a removed node whose number is in
\* use again, as nothing compares the answer with the rollup
\* (ArbProof.ts:94-153, ArbitrumVerifier.sol:56-71).
AcceptedIsFreshSnapshot ==
  [][\A r \in Requests : Ends(r, "accepted") =>
       \E b \in DOMAIN blocks :
         /\ blocks[b].node >= since[r]
         /\ Shows(req'[r].values, StateOf(b), req[r].prog)]_vars

\* the last word of a value has so many leading zeros that slice refuses it
LosesTooMuch(r) ==
  \E i \in DOMAIN req[r].prog :
    LET exact == Reading(StateOf(req[r].block), req[r].prog)[i] IN
    req[r].prog[i].dynamic /\ exact[Len(exact)] \in TooShort

\* A client refuses an answer only when an RPC call of the request failed, or
\* the contract was not there or empty at the block, or a long value has more
\* than one data word (see LongValuesVerify) or loses too many leading zeros:
\* otherwise the gateway asks proofs for the slots that the verifier consumes,
\* in its order (slots.ts:124-164, EVMProofHelper.sol:33-48, 130-229,
\* MerkleTrie.sol:106-129).
OnlyFaultsRevert ==
  [][\A r \in Requests : Ends(r, "reverted") =>
       \/ failed[r] \/ LosesTooMuch(r) \/ ~ HasTrie(StateOf(req[r].block))
       \/ \E i \in DOMAIN req[r].prog :
            Len(Reading(StateOf(req[r].block), req[r].prog)[i]) > 1]_vars

\* Every request is answered, with proofs or an error: no command waits for
\* ever for another, and a node without an event is an error (slots.ts:65-73,
\* ArbProof.ts:170-172).
EveryRequestEnds ==
  \A r \in Requests :
    req[r].pc = "asking" ~> req[r].pc \in {"served", "failed", "accepted", "reverted"}

-----------------------------------------------------------------------------
(* A statement of the documentation that the code does not keep *)

\* Strings of any length can be proved (ArbProof.ts:27, "capable of proofing
\* long types such as mappings or string by using all included slots").
LongValuesVerify ==
  [][\A r \in Requests : Ends(r, "reverted") =>
       failed[r] \/ LosesTooMuch(r) \/ ~ HasTrie(StateOf(req[r].block))]_vars

=============================================================================
