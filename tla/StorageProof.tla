----------------------------- MODULE StorageProof -----------------------------
(***************************************************************************)
(* Reading the storage of a contract of another chain by proofs.  A        *)
(* program is what EVMFetcher builds: commands, each a path that is hashed *)
(* to a storage slot, for a static value (one word) or a dynamic one (a    *)
(* header word and, when it is long, the words at the hash of its slot).   *)
(* A path may refer to the value of an earlier command.                    *)
(*                                                                         *)
(* Hashing is modelled by what it distinguishes: a slot is its path and,   *)
(* for the words of a long value, their position.  A word is a model       *)
(* value; Long tells how many more words it announces when it is a header. *)
(***************************************************************************)
EXTENDS Integers, Sequences

CONSTANTS
  Words,     \* storage words
  Zero,      \* the word of a slot that was never written
  Long,      \* Long[w]: words that follow the header w, 0 for a short value
  Unpadded,  \* Unpadded[w]: w without its leading zero bytes
  TooShort   \* words with so many of them that slice refuses what is left
             \*   when they end a value

ASSUME StorageAssumption ==
  /\ Zero \in Words /\ Long \in [Words -> Nat] /\ Long[Zero] = 0
  /\ Unpadded \in [Words -> Words] /\ TooShort \subseteq Words

Slot == [path : Seq(Words), part : Nat]

\* arg is a word or the number, from 1, of an earlier command
Operand == [ref : {FALSE}, arg : Words] \cup [ref : {TRUE}, arg : Nat \ {0}]
Command == [dynamic : BOOLEAN, path : Seq(Operand)]

Const(w) == [ref |-> FALSE, arg |-> w]
Ref(j) == [ref |-> TRUE, arg |-> j]
Static(path) == [dynamic |-> FALSE, path |-> path]
Dynamic(path) == [dynamic |-> TRUE, path |-> path]

RefsOf(command) ==
  {command.path[k].arg : k \in {k \in DOMAIN command.path : command.path[k].ref}}

\* EVMFetcher begins every path with the number of a slot, a word of 32 bytes
Based(prog) ==
  \A i \in DOMAIN prog : prog[i].path # <<>> /\ ~ prog[i].path[1].ref

\* a gateway serves no program that refers to a dynamic command or not back
StaticRefs(prog) ==
  \A i \in DOMAIN prog : \A j \in RefsOf(prog[i]) : j < i /\ ~ prog[j].dynamic

\* computeFirstSlot, when words[j] is the value of command j, for a path that
\* is based, so that its first element has 32 bytes, and refers to static
\* commands: of a dynamic one the verifier would hash the bytes of its value,
\* which are not its first word
SlotOf(command, words) ==
  [path |-> [k \in DOMAIN command.path |->
               IF command.path[k].ref THEN words[command.path[k].arg]
               ELSE command.path[k].arg],
   part |-> 0]

DataSlots(slot, n) == [k \in 1..n |-> [slot EXCEPT !.part = k]]

\* storage is given for the slots that were written
At(storage, slot) == IF slot \in DOMAIN storage THEN storage[slot] ELSE Zero

\* zeros are not kept: without another word the contract has no storage trie,
\* as when it is not there at all
HasTrie(storage) == \E slot \in DOMAIN storage : storage[slot] # Zero

(***************************************************************************)
(* What a program reads from a storage: Solidity's layout.                 *)
(***************************************************************************)
\* the first word of each command's value
Headers(storage, prog) ==
  LET word[i \in 1..Len(prog)] ==
        At(storage, [path |-> [k \in DOMAIN prog[i].path |->
                                 IF prog[i].path[k].ref THEN word[prog[i].path[k].arg]
                                 ELSE prog[i].path[k].arg],
                     part |-> 0])
  IN  word

Reading(storage, prog) ==
  LET word == Headers(storage, prog)
      data(i) == DataSlots(SlotOf(prog[i], word), Long[word[i]])
  IN  [i \in 1..Len(prog) |->
        IF prog[i].dynamic /\ Long[word[i]] > 0
        THEN [k \in 1..Long[word[i]] |-> At(storage, data(i)[k])]
        ELSE <<word[i]>>]

(***************************************************************************)
(* What a gateway sends: the proofs of the slots of each command, joined.  *)
(***************************************************************************)
\* Mutant of SlotsFor: the header of a long value is not among the slots
SlotsForData(slot, header) ==
  IF Long[header] = 0 THEN <<slot>> ELSE DataSlots(slot, 1)

\* what getDynamicValue asks proofs for: a long value is given one data slot,
\* the length of the header (32 bytes) being taken for that of the value
SlotsFor(slot, header) ==
  IF Long[header] = 0 THEN <<slot>> ELSE <<slot>> \o DataSlots(slot, 1)

Witness(slots) ==
  LET upto[i \in 0..Len(slots)] == IF i = 0 THEN <<>> ELSE upto[i - 1] \o slots[i]
  IN  upto[Len(slots)]

(***************************************************************************)
(* EVMProofHelper.getStorageValues: the proofs of a witness are consumed   *)
(* in order, one for each slot.  A proof belongs to a slot and shows the   *)
(* word there.  A proof of another slot is refused, except that one that   *)
(* ends where the path of this slot ends too shows that this slot is       *)
(* empty: lenient says whether such proofs do.  A contract that is not     *)
(* there is refused before (AccountNotFound), and of one without a trie    *)
(* the proofs are empty lists, which show nothing.                         *)
(***************************************************************************)
\* Mutant of Shown: the slot of the proof is not compared
ShownAnyway(storage, proof, slot, lenient) ==
  [ok |-> TRUE, word |-> At(storage, proof)]

Shown(storage, proof, slot, lenient) ==
  IF proof = slot THEN [ok |-> HasTrie(storage), word |-> At(storage, slot)]
  ELSE [ok |-> HasTrie(storage) /\ lenient /\ At(storage, slot) = Zero, word |-> Zero]

Refused == [ok |-> FALSE, used |-> 0, words |-> <<>>, values |-> <<>>]
NothingYet == [ok |-> TRUE, used |-> 0, words |-> <<>>, values |-> <<>>]

\* the value of one command, after done for those before it; the words of a
\* long value are joined as the trie has them, without their leading zeros
Check(storage, command, witness, lenient, done) ==
  LET slot == SlotOf(command, done.words)
      at(k, s) == Shown(storage, witness[done.used + k], s, lenient)
      head == at(1, slot)
      n == IF command.dynamic THEN Long[head.word] ELSE 0
      data == DataSlots(slot, n)
  IN  IF \/ ~ done.ok \/ done.used >= Len(witness)
         \/ ~ head.ok \/ done.used + 1 + n > Len(witness)
         \/ \E k \in 1..n : ~ at(k + 1, data[k]).ok
         \/ n > 0 /\ at(n + 1, data[n]).word \in TooShort
      THEN Refused
      ELSE [ok |-> TRUE, used |-> done.used + 1 + n,
            words |-> Append(done.words, head.word),
            values |-> Append(done.values,
              IF n = 0 THEN <<head.word>> ELSE [k \in 1..n |-> Unpadded[at(k + 1, data[k]).word]])]

\* what is known after each command
Checks(storage, prog, witness, lenient) ==
  LET done[i \in 0..Len(prog)] ==
        IF i = 0 THEN NothingYet
        ELSE Check(storage, prog[i], witness, lenient, done[i - 1])
  IN  done

\* getStorageValues, of a program that has commands: getStorageRoot refuses a
\* contract that is not there, whose storage has no trie
Verified(storage, prog, witness, lenient) ==
  IF HasTrie(storage) THEN Checks(storage, prog, witness, lenient)[Len(prog)] ELSE Refused

\* values are what prog reads in the storage of target, but for lost zeros
Shows(values, storage, prog) ==
  LET exact == Reading(storage, prog) IN
  /\ Len(values) = Len(exact)
  /\ \A i \in DOMAIN exact : values[i] \in
       {exact[i], [k \in DOMAIN exact[i] |-> Unpadded[exact[i][k]]]}

=============================================================================
