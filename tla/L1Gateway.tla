------------------------------ MODULE L1Gateway ------------------------------
(***************************************************************************)
(* The proof gateway for a chain that needs no rollup (gateway/cmd/        *)
(* ethereum.ts): getStorageSlots served by L1ProofService from the head    *)
(* of the chain, and the client's callback through EVMFetchTarget and      *)
(* L1Verifier, which takes the state root from the answer itself.          *)
(*                                                                         *)
(* The service remembers a block by its number only and asks for storage,  *)
(* for proofs and, last, for the header in separate calls; a               *)
(* reorganisation of the chain may put another block at the number between *)
(* any two of them.  This module has the chain and the requests; who       *)
(* changes storage and who asks is left to the modules that extend it.     *)
(***************************************************************************)
EXTENDS StorageProof, FiniteSets

CONSTANTS
  Requests,    \* reads the gateway may serve
  Targets,     \* contracts whose storage is read
  MaxBlocks,   \* bound on the height of the chain
  MaxMishaps   \* bound on reorganisations and RPC calls that fail

ASSUME L1GatewayAssumption ==
  MaxBlocks \in Nat \ {0} /\ MaxMishaps \in Nat

VARIABLES
  chain,     \* chain[n]: the storage of each target after block n
  read,      \* progress of each request
  mishaps,
  \* history, read by the properties only:
  current,   \* current[r]: states that were at the head while r was served
  failed,    \* failed[r]: an RPC call of r failed
  shaken     \* shaken[r]: the chain was reorganised while r was served

gatewayVars == <<chain, read, mishaps, current, failed, shaken>>

Height == Len(chain)
HeadState == chain[Height]

Idle == [pc |-> "idle", block |-> 0, target |-> "none", prog |-> <<>>,
         slots |-> <<>>, words |-> <<>>, proof |-> <<>>, root |-> <<>>,
         values |-> <<>>]

GatewayInit(genesis) ==
  /\ chain = <<genesis>>
  /\ read = [r \in Requests |-> Idle]
  /\ mishaps = 0
  /\ current = [r \in Requests |-> {}]
  /\ failed = [r \in Requests |-> FALSE]
  /\ shaken = [r \in Requests |-> FALSE]

-----------------------------------------------------------------------------
(* The chain *)

Active(r) == read[r].pc \in {"asking", "locating", "header", "served"}

BecomesHead(state) ==
  current' = [r \in Requests |-> IF Active(r) THEN current[r] \cup {state} ELSE current[r]]

\* a block whose transactions lead to state
Mine(state) ==
  /\ Height < MaxBlocks
  /\ chain' = Append(chain, state)
  /\ BecomesHead(state)
  /\ UNCHANGED <<read, mishaps, failed, shaken>>

Mishap == mishaps < MaxMishaps /\ mishaps' = mishaps + 1

\* the head is replaced by a block without its transactions
Reorg ==
  /\ Height > 1 /\ Mishap
  /\ chain' = [chain EXCEPT ![Height] = chain[Height - 1]]
  /\ BecomesHead(chain[Height - 1])
  /\ shaken' = [r \in Requests |-> shaken[r] \/ Active(r)]
  /\ UNCHANGED <<read, failed>>

-----------------------------------------------------------------------------
(* The service *)

NoFault(r) == UNCHANGED <<mishaps, failed>>
Fault(r) == Mishap /\ failed' = [failed EXCEPT ![r] = TRUE]

\* a request ends, and with it its history
Forget(r) ==
  /\ current' = [current EXCEPT ![r] = {}]
  /\ failed' = [failed EXCEPT ![r] = FALSE] /\ shaken' = [shaken EXCEPT ![r] = FALSE]

\* an RPC call fails and the request with it
Fail(r) ==
  /\ Mishap
  /\ read' = [read EXCEPT ![r] = [Idle EXCEPT !.pc = "failed", !.target = read[r].target]]
  /\ Forget(r)

\* fetch reverts with the request, and the client posts it
Arrive(r, target, prog) ==
  /\ read[r].pc = "idle"
  /\ read' = [read EXCEPT ![r] =
       [Idle EXCEPT !.pc = "asking", !.target = target, !.prog = prog,
                    !.slots = [i \in 1..Len(prog) |-> <<>>],
                    !.words = [i \in 1..Len(prog) |-> <<>>]]]
  /\ current' = [current EXCEPT ![r] = {HeadState}]
  /\ UNCHANGED <<chain, mishaps, failed, shaken>>

\* Mutant of GetBlock: the block before the head, taken to be safer
GetBlockBefore(r) ==
  /\ read[r].pc = "asking"
  /\ NoFault(r)
  /\ read' = [read EXCEPT ![r].pc = "locating", ![r].block = IF Height > 1 THEN Height - 1 ELSE 1]
  /\ UNCHANGED <<chain, current, shaken>>

\* Mutant of GetBlock: the number of the block to come
GetBlockAfter(r) ==
  /\ read[r].pc = "asking"
  /\ NoFault(r)
  /\ read' = [read EXCEPT ![r].pc = "locating", ![r].block = Height + 1]
  /\ UNCHANGED <<chain, current, shaken>>

\* getProvableBlock: the number of the head
GetBlock(r) ==
  /\ read[r].pc = "asking"
  /\ \/ /\ NoFault(r) /\ UNCHANGED <<current, shaken>>
        /\ read' = [read EXCEPT ![r].pc = "locating", ![r].block = Height]
     \/ Fail(r)
  /\ UNCHANGED chain

StorageOf(r, state) == state[read[r].target]

\* getStorageAt: a failed call reads as zero
Fetched(r, slot) ==
  {[word |-> At(StorageOf(r, chain[read[r].block]), slot), fault |-> FALSE],
   [word |-> Zero, fault |-> TRUE]}

Charge(r, fault) == IF fault THEN Fault(r) ELSE NoFault(r)

Located(r, i) == read[r].slots[i] # <<>>

\* the first value() of a static command that a later path refers to
ReadValue(r, j) ==
  /\ read[r].pc = "locating" /\ j \in 1..Len(read[r].prog)
  /\ ~ read[r].prog[j].dynamic /\ Located(r, j) /\ read[r].words[j] = <<>>
  /\ \E i \in (j + 1)..Len(read[r].prog) : j \in RefsOf(read[r].prog[i])
  /\ \E got \in Fetched(r, read[r].slots[j][1]) :
       /\ Charge(r, got.fault)
       /\ read' = [read EXCEPT ![r].words[j] = <<got.word>>]
  /\ UNCHANGED <<chain, current, shaken>>

\* Mutant of Locate: a command waits for the values of all those before it
LocateInOrder(r, i) ==
  /\ read[r].pc = "locating" /\ i \in 1..Len(read[r].prog) /\ ~ Located(r, i)
  /\ \A j \in 1..(i - 1) : read[r].words[j] # <<>>
  /\ NoFault(r)
  /\ read' = [read EXCEPT ![r].slots[i] =
       <<SlotOf(read[r].prog[i], [j \in RefsOf(read[r].prog[i]) |-> read[r].words[j][1]])>>]
  /\ UNCHANGED <<chain, current, shaken>>

\* getValueFromPath, for programs that refer back to static commands only
Locate(r, i) ==
  /\ read[r].pc = "locating" /\ i \in 1..Len(read[r].prog) /\ ~ Located(r, i)
  /\ LET command == read[r].prog[i]
         slot == SlotOf(command, [j \in RefsOf(command) |-> read[r].words[j][1]]) IN
     /\ \A j \in RefsOf(command) : j < i /\ read[r].words[j] # <<>>
     /\ \/ /\ ~ command.dynamic /\ NoFault(r)
           /\ read' = [read EXCEPT ![r].slots[i] = <<slot>>]
        \/ /\ command.dynamic
           /\ \E got \in Fetched(r, slot) :
                /\ Charge(r, got.fault)
                /\ read' = [read EXCEPT ![r].slots[i] = SlotsFor(slot, got.word)]
  /\ UNCHANGED <<chain, current, shaken>>

\* getProofs, its first call: the proofs at the number of the block
Prove(r) ==
  /\ read[r].pc = "locating"
  /\ \A i \in 1..Len(read[r].prog) : Located(r, i)
  /\ \/ /\ NoFault(r) /\ UNCHANGED <<current, shaken>>
        /\ read' = [read EXCEPT ![r].pc = "header", ![r].proof = <<chain[read[r].block]>>]
     \/ Fail(r)
  /\ UNCHANGED chain

\* Mutant of GetHeader: the header of the newest block
GetHeaderOfHead(r) ==
  /\ read[r].pc = "header"
  /\ NoFault(r)
  /\ read' = [read EXCEPT ![r].pc = "served", ![r].root = <<HeadState>>]
  /\ UNCHANGED <<chain, current, shaken>>

\* getProofs, its second call: the header at the number of the block
GetHeader(r) ==
  /\ read[r].pc = "header"
  /\ \/ /\ NoFault(r) /\ UNCHANGED <<current, shaken>>
        /\ read' = [read EXCEPT ![r].pc = "served", ![r].root = <<chain[read[r].block]>>]
     \/ Fail(r)
  /\ UNCHANGED chain

-----------------------------------------------------------------------------
(* getStorageSlotsCallback and L1Verifier *)

\* the proof of the account is one of the state with the root, or refused;
\* Verified refuses one that shows no account, or an empty one
Verdict(r, lenient) ==
  IF read[r].proof = read[r].root
  THEN Verified(StorageOf(r, read[r].root[1]), read[r].prog, Witness(read[r].slots), lenient)
  ELSE Refused

Callback(r) ==
  /\ read[r].pc = "served"
  /\ \E lenient \in BOOLEAN :
       read' = [read EXCEPT ![r] =
         [@ EXCEPT !.pc = IF Verdict(r, lenient).ok THEN "accepted" ELSE "reverted",
                   !.values = Verdict(r, lenient).values, !.block = 0,
                   !.slots = <<>>, !.words = <<>>, !.proof = <<>>, !.root = <<>>]]
  /\ Forget(r)
  /\ UNCHANGED <<chain, mishaps>>

GatewayStep(r) ==
  \/ GetBlock(r) \/ Prove(r) \/ GetHeader(r)
  \/ \E i \in 1..Len(read[r].prog) : ReadValue(r, i) \/ Locate(r, i)

-----------------------------------------------------------------------------
(* Properties *)

IsState(state) ==
  /\ DOMAIN state = Targets
  /\ \A t \in Targets : DOMAIN state[t] \subseteq Slot
  /\ \A t \in Targets : \A s \in DOMAIN state[t] : state[t][s] \in Words

ReadOK(r) ==
  LET q == read[r] IN
  /\ q.pc \in {"idle", "asking", "locating", "header", "served", "failed", "accepted", "reverted"}
  /\ q.block \in 0..Height /\ q.target \in Targets \cup {"none"}
  /\ q.prog \in Seq(Command)
  /\ q.slots \in Seq(Seq(Slot)) /\ q.words \in Seq(Seq(Words))
  /\ \A state \in {q.proof[i] : i \in DOMAIN q.proof} \cup {q.root[i] : i \in DOMAIN q.root} :
       IsState(state)
  /\ q.values \in Seq(Seq(Words))

GatewayTypeOK ==
  /\ Height \in 1..MaxBlocks /\ \A n \in 1..Height : IsState(chain[n])
  /\ DOMAIN read = Requests /\ \A r \in Requests : ReadOK(r)
  /\ mishaps \in 0..MaxMishaps
  /\ DOMAIN current = Requests
  /\ \A r \in Requests : \A state \in current[r] : IsState(state)
  /\ failed \in [Requests -> BOOLEAN] /\ shaken \in [Requests -> BOOLEAN]

Ends(r, pc) == read[r].pc = "served" /\ read'[r].pc = pc

\* What a client accepts was in the contract, all at once, at a moment between
\* its question and the answer, although storage, proofs and header are asked
\* for in separate calls by number, a failed call reads as zero, and a
\* reorganisation changes what a number names (l1proof.ts:37-80).
AcceptedWasCurrent ==
  [][\A r \in Requests : Ends(r, "accepted") =>
       \E state \in current[r] :
         Shows(read'[r].values, StorageOf(r, state), read[r].prog)]_gatewayVars

\* A client refuses an answer only when a call of the request failed, or the
\* chain was reorganised under it, or the contract was not there or empty, or
\* a value is too long for the gateway: the calls that a request makes by
\* number agree otherwise, however much the chain grows meanwhile
\* (l1proof.ts:64-79, EVMProofHelper.sol:33-48, 177-229, MerkleTrie.sol:106-129).
RevertsHaveCause ==
  [][\A r \in Requests : Ends(r, "reverted") =>
       \/ failed[r] \/ shaken[r]
       \/ \E state \in current[r] : ~ HasTrie(StorageOf(r, state))
       \/ \E state \in current[r], i \in DOMAIN read[r].prog :
            LET exact == Reading(StorageOf(r, state), read[r].prog)[i] IN
            read[r].prog[i].dynamic
              /\ (Len(exact) > 1 \/ exact[Len(exact)] \in TooShort)]_gatewayVars

\* Every request that the gateway starts is answered, with proofs or an error
\* (slots.ts:38-80, l1proof.ts:37-41).
EveryReadEnds ==
  \A r \in Requests : read[r].pc = "asking" ~>
    read[r].pc \in {"served", "failed", "accepted", "reverted"}

=============================================================================
