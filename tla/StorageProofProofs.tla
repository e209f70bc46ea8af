-------------------------- MODULE StorageProofProofs --------------------------
(***************************************************************************)
(* What the verifier of StorageProof accepts is what the program reads,    *)
(* for every storage and list of proofs and every program that a gateway   *)
(* serves, one whose paths are based and refer back to static commands.    *)
(* The two recursions, of the reading and of the verifier, are taken apart *)
(* by induction over sets of numbers.                                      *)
(***************************************************************************)
EXTENDS StorageProof, SequenceTheorems, WellFoundedInduction, TLAPS

\* Induction for one set: it holds all numbers if 0 and with each its successor.
LEMMA SetInduction ==
  ASSUME NEW S, 0 \in S, \A n \in Nat : n \in S => n + 1 \in S
  PROVE  \A n \in Nat : n \in S
<1> SUFFICES ASSUME NEW m \in Nat, m \notin S PROVE FALSE
  OBVIOUS
<1> DEFINE T == {n \in Nat : n \notin S}
<1>1. T \subseteq Nat /\ T # {}
  OBVIOUS
<1> HIDE DEF T
<1>2. PICK i \in T : \A j \in T : ~ (<<j, i>> \in OpToRel(<, Nat))
  BY <1>1, WFMin, NatLessThanWellFounded
<1>3. i \in Nat /\ i \notin S
  BY DEF T
<1>4. i - 1 \in Nat /\ i - 1 < i
  BY <1>3
<1>5. i - 1 \notin T
  BY <1>1, <1>2, <1>3, <1>4 DEF OpToRel
<1>6. i - 1 \in S
  BY <1>4, <1>5 DEF T
<1> QED BY <1>3, <1>4, <1>6

IsContent(storage) == \A s \in DOMAIN storage : storage[s] \in Words

\* the commands refer to earlier ones only
Backward(prog) == \A i \in 1..Len(prog) : \A j \in RefsOf(prog[i]) : j < i

LEMMA StaticRefsBackward ==
  ASSUME NEW prog \in Seq(Command), StaticRefs(prog)
  PROVE  Backward(prog)
BY DEF StaticRefs, Backward

LEMMA AtType ==
  ASSUME NEW storage, IsContent(storage), NEW slot
  PROVE  At(storage, slot) \in Words
BY StorageAssumption DEF IsContent, At

\* An operand is a word, or refers to a command.
LEMMA OperandTypes ==
  ASSUME NEW command \in Command, NEW k \in DOMAIN command.path
  PROVE  /\ command.path \in Seq(Operand)
         /\ command.path[k].ref \in BOOLEAN
         /\ ~ command.path[k].ref => command.path[k].arg \in Words
         /\ command.path[k].ref => /\ command.path[k].arg \in Nat \ {0}
                                   /\ command.path[k].arg \in RefsOf(command)
<1>1. command.path \in Seq(Operand) /\ command.path[k] \in Operand
  BY DEF Command
<1> QED BY <1>1 DEF Operand, RefsOf

\* A slot depends on the values the command refers to, and on nothing else.
LEMMA SlotOfSame ==
  ASSUME NEW command, NEW v, NEW w, \A j \in RefsOf(command) : v[j] = w[j]
  PROVE  SlotOf(command, v) = SlotOf(command, w)
<1>1. \A k \in DOMAIN command.path :
        command.path[k].ref => command.path[k].arg \in RefsOf(command)
  BY DEF RefsOf
<1> QED BY <1>1 DEF SlotOf

LEMMA SlotOfType ==
  ASSUME NEW command \in Command, NEW w, \A j \in RefsOf(command) : w[j] \in Words
  PROVE  SlotOf(command, w) \in Slot
<1> DEFINE path == [k \in DOMAIN command.path |->
                      IF command.path[k].ref THEN w[command.path[k].arg]
                      ELSE command.path[k].arg]
<1>1. command.path \in Seq(Operand) /\ DOMAIN command.path = 1..Len(command.path)
  BY DEF Command
<1>2. \A k \in 1..Len(command.path) : path[k] \in Words
  BY <1>1, OperandTypes
<1>3. path \in [1..Len(command.path) -> Words]
  <2>1. path = [k \in 1..Len(command.path) |-> path[k]]
    BY <1>1
  <2> HIDE DEF path
  <2> QED BY <1>2, <2>1
<1>4. Len(command.path) \in Nat
  BY <1>1
<1>5. path \in Seq(Words)
  <2> HIDE DEF path
  <2> QED BY <1>3, <1>4
<1> QED BY <1>5 DEF SlotOf, Slot

-----------------------------------------------------------------------------
(* What a program reads *)

\* The first words of a program without forward references are those of the
\* slots that they themselves determine.
LEMMA HeadersUnfold ==
  ASSUME NEW storage, NEW prog \in Seq(Command), Backward(prog)
  PROVE  Headers(storage, prog) =
           [i \in 1..Len(prog) |->
              At(storage, SlotOf(prog[i], Headers(storage, prog)))]
<1> DEFINE Is(g, n) == g = [i \in 1..n |-> At(storage, SlotOf(prog[i], g))]
           S == {n \in Nat : n <= Len(prog) => \E g : Is(g, n)}
<1>1. 0 \in S
  <2>1. Is(<<>>, 0)
    OBVIOUS
  <2> QED BY <2>1
<1>2. ASSUME NEW n \in Nat, n \in S
      PROVE  n + 1 \in S
  <2> SUFFICES ASSUME n + 1 <= Len(prog) PROVE \E h : Is(h, n + 1)
    OBVIOUS
  <2>1. PICK g : Is(g, n)
    BY <1>2
  <2> DEFINE h == [i \in 1..(n + 1) |->
                     IF i <= n THEN g[i] ELSE At(storage, SlotOf(prog[n + 1], g))]
  <2>2. ASSUME NEW i \in 1..(n + 1)
        PROVE  h[i] = At(storage, SlotOf(prog[i], h))
    <3>1. \A j \in RefsOf(prog[i]) : j \in 1..n /\ h[j] = g[j]
      <4>1. prog[i] \in Command
        OBVIOUS
      <4>2. \A j \in RefsOf(prog[i]) : j \in Nat \ {0}
        BY <4>1, OperandTypes DEF RefsOf
      <4>3. i \in 1..Len(prog)
        OBVIOUS
      <4>4. \A j \in RefsOf(prog[i]) : j \in 1..n
        <5> SUFFICES ASSUME NEW j \in RefsOf(prog[i]) PROVE j \in 1..n
          OBVIOUS
        <5>1. j < i
          BY <4>3 DEF Backward
        <5>2. j \in Nat /\ j # 0
          BY <4>2
        <5> QED BY <5>1, <5>2
      <4>5. \A j \in 1..n : h[j] = g[j]
        OBVIOUS
      <4> HIDE DEF h
      <4> QED BY <4>4, <4>5
    <3>2. SlotOf(prog[i], h) = SlotOf(prog[i], g)
      <4> HIDE DEF h
      <4> QED BY <3>1, SlotOfSame
    <3>3. CASE i <= n
      BY <2>1, <3>2, <3>3
    <3>4. CASE i = n + 1
      BY <3>2, <3>4
    <3> QED BY <3>3, <3>4
  <2>3. Is(h, n + 1)
    BY <2>2
  <2> QED BY <2>3
<1>3. \E g : Is(g, Len(prog))
  <2> HIDE DEF S
  <2>1. \A n \in Nat : n \in S
    BY <1>1, <1>2, SetInduction
  <2> QED BY <2>1 DEF S
<1>4. Headers(storage, prog) = CHOOSE g : Is(g, Len(prog))
  BY DEF Headers, SlotOf
<1> QED BY <1>3, <1>4

\* The value of a command in a program's reading.
Exactly(storage, command, words) ==
  LET slot == SlotOf(command, words)
      n == IF command.dynamic THEN Long[At(storage, slot)] ELSE 0
  IN  IF n = 0 THEN <<At(storage, slot)>>
      ELSE [k \in 1..n |-> At(storage, DataSlots(slot, n)[k])]

LEMMA ReadingValues ==
  ASSUME NEW storage, NEW prog \in Seq(Command), Backward(prog), IsContent(storage)
  PROVE  /\ DOMAIN Reading(storage, prog) = 1..Len(prog)
         /\ Len(Reading(storage, prog)) = Len(prog)
         /\ \A i \in 1..Len(prog) :
              Reading(storage, prog)[i] =
                Exactly(storage, prog[i], Headers(storage, prog))
<1> DEFINE word == Headers(storage, prog)
<1>1. ASSUME NEW i \in 1..Len(prog)
      PROVE  /\ word[i] = At(storage, SlotOf(prog[i], word))
             /\ Long[word[i]] \in Nat
             /\ prog[i].dynamic \in BOOLEAN
  <2>1. word[i] = At(storage, SlotOf(prog[i], word))
    BY HeadersUnfold
  <2>2. word[i] \in Words
    BY <2>1, AtType
  <2>3. prog[i] \in Command
    OBVIOUS
  <2> QED BY <2>1, <2>2, <2>3, StorageAssumption DEF Command
<1> DEFINE exact(i) ==
             IF prog[i].dynamic /\ Long[word[i]] > 0
             THEN [k \in 1..Long[word[i]] |->
                     At(storage, DataSlots(SlotOf(prog[i], word), Long[word[i]])[k])]
             ELSE <<word[i]>>
<1>2. Reading(storage, prog) = [i \in 1..Len(prog) |-> exact(i)]
  BY DEF Reading
<1>3. ASSUME NEW i \in 1..Len(prog)
      PROVE  exact(i) = Exactly(storage, prog[i], word)
  <2> HIDE DEF word
  <2>1. CASE prog[i].dynamic /\ Long[word[i]] > 0
    <3> DEFINE slot == SlotOf(prog[i], word)
               parts(n) == [k \in 1..n |-> At(storage, DataSlots(slot, n)[k])]
    <3>1. At(storage, slot) = word[i]
      BY <1>1
    <3>2. Long[word[i]] # 0
      BY <1>1, <2>1
    <3>3. Exactly(storage, prog[i], word) = parts(Long[At(storage, slot)])
      BY <2>1, <3>1, <3>2 DEF Exactly
    <3>4. exact(i) = parts(Long[word[i]])
      BY <2>1
    <3> HIDE DEF slot, parts, exact
    <3> QED BY <3>1, <3>3, <3>4
  <2>2. CASE ~ prog[i].dynamic
    BY <1>1, <2>2 DEF Exactly
  <2>3. CASE prog[i].dynamic /\ Long[word[i]] = 0
    BY <1>1, <2>3 DEF Exactly
  <2> QED BY <1>1, <2>1, <2>2, <2>3
<1>4. Len(prog) \in Nat
  OBVIOUS
<1> HIDE DEF exact, word
<1>5. DOMAIN Reading(storage, prog) = 1..Len(prog)
  BY <1>2
<1>6. Len(Reading(storage, prog)) = Len(prog)
  BY <1>2, <1>4
<1>7. \A i \in 1..Len(prog) :
        Reading(storage, prog)[i] = Exactly(storage, prog[i], Headers(storage, prog))
  BY <1>2, <1>3 DEF word
<1> QED BY <1>5, <1>6, <1>7

-----------------------------------------------------------------------------
(* What the verifier accepts *)

LEMMA ChecksUnfold ==
  ASSUME NEW storage, NEW prog, Len(prog) \in Nat, NEW witness, NEW lenient
  PROVE  LET done == Checks(storage, prog, witness, lenient) IN
         done = [i \in 0..Len(prog) |->
                   IF i = 0 THEN NothingYet
                   ELSE Check(storage, prog[i], witness, lenient, done[i - 1])]
<1> DEFINE Go(i, d) == Check(storage, prog[i], witness, lenient, d)
           Is(g, n) == g = [i \in 0..n |-> IF i = 0 THEN NothingYet ELSE Go(i, g[i - 1])]
           S == {n \in Nat : \E g : Is(g, n)}
<1>1. Checks(storage, prog, witness, lenient) = CHOOSE g : Is(g, Len(prog))
  BY DEF Checks
<1> HIDE DEF Go
<1>2. 0 \in S
  <2>1. Is([i \in 0..0 |-> NothingYet], 0)
    OBVIOUS
  <2> QED BY <2>1
<1>3. ASSUME NEW n \in Nat, n \in S
      PROVE  n + 1 \in S
  <2>1. PICK g : Is(g, n)
    BY <1>3
  <2> DEFINE h == [i \in 0..(n + 1) |-> IF i <= n THEN g[i] ELSE Go(n + 1, g[n])]
  <2>2. ASSUME NEW i \in 0..(n + 1)
        PROVE  h[i] = IF i = 0 THEN NothingYet ELSE Go(i, h[i - 1])
    <3>1. CASE i = 0
      BY <2>1, <3>1
    <3>2. CASE i # 0 /\ i <= n
      <4>1. g[i] = Go(i, g[i - 1])
        BY <2>1, <3>2
      <4>2. h[i] = g[i] /\ h[i - 1] = g[i - 1]
        BY <3>2
      <4> QED BY <3>2, <4>1, <4>2
    <3>3. CASE i = n + 1
      BY <3>3
    <3> QED BY <3>1, <3>2, <3>3
  <2>3. Is(h, n + 1)
    <3>1. h = [i \in 0..(n + 1) |-> h[i]]
      OBVIOUS
    <3> HIDE DEF h
    <3> QED BY <2>2, <3>1
  <2> HIDE DEF h
  <2>4. \E f : Is(f, n + 1)
    BY <2>3
  <2> HIDE DEF Is
  <2> QED BY <2>4
<1>4. \E g : Is(g, Len(prog))
  <2> HIDE DEF S
  <2>1. \A n \in Nat : n \in S
    BY <1>2, <1>3, SetInduction
  <2> QED BY <2>1 DEF S
<1> QED BY <1>1, <1>4 DEF Go

\* A proof that is accepted shows the word of the slot that was asked for.
LEMMA ShownSound ==
  ASSUME NEW storage, NEW proof, NEW slot, NEW lenient,
         Shown(storage, proof, slot, lenient).ok
  PROVE  Shown(storage, proof, slot, lenient).word = At(storage, slot)
BY DEF Shown

\* A value joined from the words of the trie.
Joined(storage, command, words) ==
  LET exact == Exactly(storage, command, words) IN
  [k \in DOMAIN exact |-> Unpadded[exact[k]]]

\* What is accepted of a command is its value, or the words of it joined.
LEMMA CheckEffect ==
  ASSUME NEW storage, IsContent(storage), NEW command \in Command,
         NEW witness, NEW lenient, NEW done,
         Check(storage, command, witness, lenient, done).ok
  PROVE  LET next == Check(storage, command, witness, lenient, done) IN
         /\ done.ok
         /\ next.words = Append(done.words, At(storage, SlotOf(command, done.words)))
         /\ \E value \in {Exactly(storage, command, done.words),
                          Joined(storage, command, done.words)} :
              /\ next.values = Append(done.values, value)
              /\ ~ command.dynamic => value = Exactly(storage, command, done.words)
<1> DEFINE slot == SlotOf(command, done.words)
           at(k, s) == Shown(storage, witness[done.used + k], s, lenient)
           head == at(1, slot)
           n == IF command.dynamic THEN Long[head.word] ELSE 0
           slots == DataSlots(slot, n)
           value == IF n = 0 THEN <<head.word>>
                    ELSE [k \in 1..n |-> Unpadded[at(k + 1, slots[k]).word]]
           refused == \/ ~ done.ok \/ done.used >= Len(witness)
                      \/ ~ head.ok \/ done.used + 1 + n > Len(witness)
                      \/ \E k \in 1..n : ~ at(k + 1, slots[k]).ok
                      \/ n > 0 /\ at(n + 1, slots[n]).word \in TooShort
           good == [ok |-> TRUE, used |-> done.used + 1 + n,
                    words |-> Append(done.words, head.word),
                    values |-> Append(done.values, value)]
<1>1. Check(storage, command, witness, lenient, done)
        = IF refused THEN Refused ELSE good
  BY DEF Check
<1>2. ~ refused
  <2> HIDE DEF refused, good
  <2> QED BY <1>1 DEF Refused
<1>3. head.word = At(storage, slot)
  BY <1>2, ShownSound
<1>4. \A k \in 1..n : at(k + 1, slots[k]).word = At(storage, slots[k])
  <2>1. \A k \in 1..n : at(k + 1, slots[k]).ok
    BY <1>2
  <2> HIDE DEF n, slots
  <2> QED BY <2>1, ShownSound
<1>5. Check(storage, command, witness, lenient, done) = good
  BY <1>1, <1>2
<1>6. n = IF command.dynamic THEN Long[At(storage, slot)] ELSE 0
  BY <1>3
<1>7. value \in {Exactly(storage, command, done.words),
                 Joined(storage, command, done.words)}
  <2>1. CASE n = 0
    BY <1>3, <1>6, <2>1 DEF Exactly
  <2>2. CASE n # 0
    <3>1. Exactly(storage, command, done.words)
            = [k \in 1..n |-> At(storage, slots[k])]
      BY <1>6, <2>2 DEF Exactly
    <3>2. value = [k \in 1..n |-> Unpadded[At(storage, slots[k])]]
      BY <1>4, <2>2
    <3> HIDE DEF value, n, slots
    <3> QED BY <3>1, <3>2 DEF Joined
  <2> QED BY <2>1, <2>2
<1>8. ~ command.dynamic => value = Exactly(storage, command, done.words)
  BY <1>3, <1>6 DEF Exactly
<1> HIDE DEF value
<1> QED BY <1>2, <1>3, <1>5, <1>7, <1>8

LEMMA CheckRefuses ==
  ASSUME NEW storage, NEW command, NEW witness, NEW lenient, NEW done,
         ~ Check(storage, command, witness, lenient, done).ok
  PROVE  Check(storage, command, witness, lenient, done) = Refused
BY DEF Check

LEMMA EmptyValues ==
  /\ NothingYet.ok /\ NothingYet.words = <<>> /\ NothingYet.values = <<>>
  /\ ~ Refused.ok /\ Refused.values = <<>>
  /\ <<>> \in Seq(Words) /\ <<>> \in Seq(Seq(Words)) /\ Len(<<>>) = 0
BY DEF Refused, NothingYet

LEMMA ValueTypes ==
  ASSUME NEW storage, IsContent(storage), NEW command \in Command, NEW words
  PROVE  /\ Exactly(storage, command, words) \in Seq(Words)
         /\ Joined(storage, command, words) \in Seq(Words)
<1> DEFINE slot == SlotOf(command, words)
           n == IF command.dynamic THEN Long[At(storage, slot)] ELSE 0
           exact == Exactly(storage, command, words)
<1>1. n \in Nat
  BY AtType, StorageAssumption DEF Command
<1>2. exact \in Seq(Words)
  <2>1. CASE n = 0
    BY <2>1, AtType DEF Exactly
  <2>2. CASE n # 0
    <3>1. exact = [k \in 1..n |-> At(storage, DataSlots(slot, n)[k])]
      BY <2>2 DEF Exactly
    <3>2. exact \in [1..n -> Words]
      <4> HIDE DEF n, exact
      <4> QED BY <3>1, AtType
    <3> HIDE DEF n, exact
    <3> QED BY <1>1, <3>2
  <2> QED BY <2>1, <2>2
<1>3. Joined(storage, command, words) = [k \in DOMAIN exact |-> Unpadded[exact[k]]]
  BY DEF Joined
<1> HIDE DEF exact
<1>4. DOMAIN exact = 1..Len(exact) /\ Len(exact) \in Nat
  BY <1>2
<1>5. Joined(storage, command, words) \in [1..Len(exact) -> Words]
  BY <1>2, <1>3, <1>4, StorageAssumption
<1>6. Joined(storage, command, words) \in Seq(Words)
  BY <1>4, <1>5
<1> QED BY <1>2, <1>6 DEF exact

\* The values are sequences of words, accepted or not.
LEMMA VerifiedTypes ==
  ASSUME NEW storage, IsContent(storage), NEW prog \in Seq(Command),
         NEW witness, NEW lenient
  PROVE  Verified(storage, prog, witness, lenient).values \in Seq(Seq(Words))
<1> DEFINE done == Checks(storage, prog, witness, lenient)
           S == {n \in Nat : n <= Len(prog) => done[n].values \in Seq(Seq(Words))}
<1>1. Len(prog) \in Nat
  OBVIOUS
<1>2. \A i \in 0..Len(prog) :
        done[i] = IF i = 0 THEN NothingYet
                  ELSE Check(storage, prog[i], witness, lenient, done[i - 1])
  BY <1>1, ChecksUnfold
<1> HIDE DEF done
<1>3. 0 \in S
  <2>1. done[0] = NothingYet
    BY <1>1, <1>2
  <2> QED BY <2>1, EmptyValues
<1>4. ASSUME NEW n \in Nat, n \in S
      PROVE  n + 1 \in S
  <2> SUFFICES ASSUME n + 1 <= Len(prog)
               PROVE  done[n + 1].values \in Seq(Seq(Words))
    OBVIOUS
  <2> DEFINE c == prog[n + 1]
             d == done[n]
  <2>1. done[n + 1] = Check(storage, c, witness, lenient, d)
    BY <1>1, <1>2
  <2>2. d.values \in Seq(Seq(Words)) /\ c \in Command
    BY <1>4
  <2> HIDE DEF c, d
  <2>3. CASE ~ done[n + 1].ok
    BY <2>1, <2>3, CheckRefuses, EmptyValues
  <2>4. CASE done[n + 1].ok
    <3>1. PICK value \in {Exactly(storage, c, d.words), Joined(storage, c, d.words)} :
            done[n + 1].values = Append(d.values, value)
      BY <2>1, <2>2, <2>4, CheckEffect
    <3>2. value \in Seq(Words)
      BY <2>2, ValueTypes
    <3> QED BY <2>2, <3>1, <3>2
  <2> QED BY <2>3, <2>4
<1>5. Len(prog) \in S
  <2> HIDE DEF S
  <2> QED BY <1>1, <1>3, <1>4, SetInduction
<1>6. Refused.values \in Seq(Seq(Words))
  BY EmptyValues DEF Refused
<1> QED BY <1>1, <1>5, <1>6 DEF Verified, done

\* What is accepted of a program whose paths are based and refer back to static
\* commands only is its reading, up to the zeros that joining loses, whatever
\* proofs the verifier is given; a static value loses none
\* (EVMProofHelper.sol:33-48, 90-229).
THEOREM VerifiedSound ==
  ASSUME NEW storage, IsContent(storage),
         NEW prog \in Seq(Command), Based(prog), StaticRefs(prog),
         NEW witness, NEW lenient, Verified(storage, prog, witness, lenient).ok
  PROVE  LET got == Verified(storage, prog, witness, lenient).values
             exact == Reading(storage, prog) IN
         /\ Len(got) = Len(exact) /\ DOMAIN exact = 1..Len(prog)
         /\ \A i \in DOMAIN exact :
              /\ got[i] \in {exact[i], [k \in DOMAIN exact[i] |-> Unpadded[exact[i][k]]]}
              /\ ~ prog[i].dynamic => got[i] = exact[i]
<1> DEFINE done == Checks(storage, prog, witness, lenient)
           word == Headers(storage, prog)
           Right(d, n) ==
             /\ d.words \in Seq(Words) /\ Len(d.words) = n
             /\ d.values \in Seq(Seq(Words)) /\ Len(d.values) = n
             /\ \A i \in 1..n : d.words[i] = word[i]
             /\ \A i \in 1..n : d.values[i] \in {Exactly(storage, prog[i], word),
                                                 Joined(storage, prog[i], word)}
             /\ \A i \in 1..n : ~ prog[i].dynamic =>
                  d.values[i] = Exactly(storage, prog[i], word)
           S == {n \in Nat : n <= Len(prog) => (done[n].ok => Right(done[n], n))}
<1>0. Backward(prog)
  BY StaticRefsBackward
<1>1. Len(prog) \in Nat
  OBVIOUS
<1>2. \A i \in 0..Len(prog) :
        done[i] = IF i = 0 THEN NothingYet
                  ELSE Check(storage, prog[i], witness, lenient, done[i - 1])
  BY <1>1, ChecksUnfold
<1>3. \A i \in 1..Len(prog) : word[i] = At(storage, SlotOf(prog[i], word))
  BY <1>0, HeadersUnfold
<1> HIDE DEF done, word
<1>4. 0 \in S
  <2>1. done[0] = NothingYet
    BY <1>1, <1>2
  <2>2. Right(NothingYet, 0)
    BY EmptyValues
  <2> QED BY <2>1, <2>2
<1>5. ASSUME NEW n \in Nat, n \in S
      PROVE  n + 1 \in S
  <2> SUFFICES ASSUME n + 1 <= Len(prog), done[n + 1].ok
               PROVE  Right(done[n + 1], n + 1)
    OBVIOUS
  <2> DEFINE c == prog[n + 1]
             d == done[n]
  <2>1. done[n + 1] = Check(storage, c, witness, lenient, d) /\ c \in Command
    BY <1>1, <1>2
  <2> HIDE DEF c, d
  <2>2. /\ d.ok
        /\ done[n + 1].words = Append(d.words, At(storage, SlotOf(c, d.words)))
    BY <2>1, CheckEffect
  <2>3. PICK value \in {Exactly(storage, c, d.words), Joined(storage, c, d.words)} :
          /\ done[n + 1].values = Append(d.values, value)
          /\ ~ c.dynamic => value = Exactly(storage, c, d.words)
    BY <2>1, CheckEffect
  <2>4. Right(d, n)
    BY <1>5, <2>2 DEF d
  <2>5. \A j \in RefsOf(c) : j \in 1..n
    <3> SUFFICES ASSUME NEW j \in RefsOf(c) PROVE j \in 1..n
      OBVIOUS
    <3>1. j \in Nat \ {0}
      BY <2>1, OperandTypes DEF RefsOf
    <3>2. j < n + 1
      BY <1>0, <1>1 DEF Backward, c
    <3> QED BY <3>1, <3>2
  <2>6. SlotOf(c, d.words) = SlotOf(c, word)
    BY <2>4, <2>5, SlotOfSame
  <2>7. /\ Exactly(storage, c, d.words) = Exactly(storage, c, word)
        /\ Joined(storage, c, d.words) = Joined(storage, c, word)
    BY <2>6 DEF Exactly, Joined
  <2>8. value \in Seq(Words) /\ At(storage, SlotOf(c, word)) \in Words
    BY <2>1, ValueTypes, AtType
  <2>9. /\ done[n + 1].words \in Seq(Words) /\ Len(done[n + 1].words) = n + 1
        /\ \A i \in 1..(n + 1) : done[n + 1].words[i] = word[i]
    <3>1. At(storage, SlotOf(c, word)) = word[n + 1]
      BY <1>1, <1>3 DEF c
    <3> QED BY <2>2, <2>4, <2>6, <2>8, <3>1
  <2>10. /\ done[n + 1].values \in Seq(Seq(Words)) /\ Len(done[n + 1].values) = n + 1
         /\ \A i \in 1..(n + 1) : done[n + 1].values[i] =
              IF i <= n THEN d.values[i] ELSE value
    BY <2>3, <2>4, <2>8
  <2>11. \A i \in 1..(n + 1) :
           done[n + 1].values[i] \in {Exactly(storage, prog[i], word),
                                      Joined(storage, prog[i], word)}
    <3> SUFFICES ASSUME NEW i \in 1..(n + 1)
                 PROVE  done[n + 1].values[i] \in {Exactly(storage, prog[i], word),
                                                   Joined(storage, prog[i], word)}
      OBVIOUS
    <3>1. CASE i <= n
      <4>1. done[n + 1].values[i] = d.values[i] /\ i \in 1..n
        BY <2>10, <3>1
      <4>2. d.values[i] \in {Exactly(storage, prog[i], word),
                             Joined(storage, prog[i], word)}
        BY <2>4, <4>1
      <4> QED BY <4>1, <4>2
    <3>2. CASE i = n + 1
      BY <2>3, <2>7, <2>10, <3>2 DEF c
    <3> QED BY <3>1, <3>2
  <2>12. ASSUME NEW i \in 1..(n + 1), ~ prog[i].dynamic
         PROVE  done[n + 1].values[i] = Exactly(storage, prog[i], word)
    <3>1. CASE i <= n
      <4>1. done[n + 1].values[i] = d.values[i] /\ i \in 1..n
        BY <2>10, <3>1
      <4> QED BY <2>4, <2>12, <4>1
    <3>2. CASE i = n + 1
      BY <2>3, <2>7, <2>10, <2>12, <3>2 DEF c
    <3> QED BY <3>1, <3>2
  <2> QED BY <2>9, <2>10, <2>11, <2>12
<1>6. Len(prog) \in S
  <2> HIDE DEF S
  <2> QED BY <1>1, <1>4, <1>5, SetInduction
<1>10. HasTrie(storage)
  BY DEF Verified, Refused
<1>7. Right(done[Len(prog)], Len(prog))
  <2>1. done[Len(prog)].ok
    BY <1>10 DEF Verified, done
  <2> QED BY <1>1, <1>6, <2>1
<1>8. /\ DOMAIN Reading(storage, prog) = 1..Len(prog)
      /\ Len(Reading(storage, prog)) = Len(prog)
      /\ \A i \in 1..Len(prog) :
           Reading(storage, prog)[i] = Exactly(storage, prog[i], word)
  BY <1>0, ReadingValues DEF word
<1>9. Verified(storage, prog, witness, lenient) = done[Len(prog)]
  BY <1>10 DEF Verified, done
<1> HIDE DEF S
<1> QED BY <1>7, <1>8, <1>9 DEF Joined

-----------------------------------------------------------------------------
(* What the gateway asks proofs for *)

LEMMA WitnessUnfold ==
  ASSUME NEW slots, Len(slots) \in Nat
  PROVE  \E upto :
           /\ upto = [i \in 0..Len(slots) |-> IF i = 0 THEN <<>> ELSE upto[i - 1] \o slots[i]]
           /\ Witness(slots) = upto[Len(slots)]
<1> DEFINE Go(i, d) == d \o slots[i]
           Is(g, n) == g = [i \in 0..n |-> IF i = 0 THEN <<>> ELSE Go(i, g[i - 1])]
           S == {n \in Nat : \E g : Is(g, n)}
<1>1. Witness(slots) = (CHOOSE g : Is(g, Len(slots)))[Len(slots)]
  BY DEF Witness
<1> HIDE DEF Go
<1>2. 0 \in S
  <2>1. Is([i \in 0..0 |-> <<>>], 0)
    OBVIOUS
  <2> QED BY <2>1
<1>3. ASSUME NEW n \in Nat, n \in S
      PROVE  n + 1 \in S
  <2>1. PICK g : Is(g, n)
    BY <1>3
  <2> DEFINE h == [i \in 0..(n + 1) |-> IF i <= n THEN g[i] ELSE Go(n + 1, g[n])]
  <2>2. ASSUME NEW i \in 0..(n + 1)
        PROVE  h[i] = IF i = 0 THEN <<>> ELSE Go(i, h[i - 1])
    <3>1. CASE i = 0
      BY <2>1, <3>1
    <3>2. CASE i # 0 /\ i <= n
      <4>1. g[i] = Go(i, g[i - 1])
        BY <2>1, <3>2
      <4>2. h[i] = g[i] /\ h[i - 1] = g[i - 1]
        BY <3>2
      <4> QED BY <3>2, <4>1, <4>2
    <3>3. CASE i = n + 1
      BY <3>3
    <3> QED BY <3>1, <3>2, <3>3
  <2>3. Is(h, n + 1)
    <3>1. h = [i \in 0..(n + 1) |-> h[i]]
      OBVIOUS
    <3> HIDE DEF h
    <3> QED BY <2>2, <3>1
  <2> HIDE DEF h
  <2>4. \E f : Is(f, n + 1)
    BY <2>3
  <2> HIDE DEF Is
  <2> QED BY <2>4
<1>4. \E g : Is(g, Len(slots))
  <2> HIDE DEF S
  <2>1. \A n \in Nat : n \in S
    BY <1>2, <1>3, SetInduction
  <2> QED BY <2>1 DEF S
<1> QED BY <1>1, <1>4 DEF Go

\* The proofs of command i come behind those of the commands before it.
LEMMA WitnessParts ==
  ASSUME NEW slots \in Seq(Seq(Slot))
  PROVE  /\ Len(Witness(slots)) \in Nat
         /\ \E at \in [0..Len(slots) -> Nat] :
              /\ at[0] = 0
              /\ \A i \in 1..Len(slots) :
                   /\ at[i] = at[i - 1] + Len(slots[i]) /\ at[i] <= Len(Witness(slots))
                   /\ \A k \in 1..Len(slots[i]) : Witness(slots)[at[i - 1] + k] = slots[i][k]
<1> DEFINE N == Len(slots)
<1>1. N \in Nat
  BY LenProperties
<1>2. PICK upto :
        /\ upto = [i \in 0..N |-> IF i = 0 THEN <<>> ELSE upto[i - 1] \o slots[i]]
        /\ Witness(slots) = upto[N]
  BY <1>1, WitnessUnfold
<1>3. upto[0] = <<>> /\ \A i \in 1..N : upto[i] = upto[i - 1] \o slots[i]
  <2>1. \A i \in 0..N : upto[i] = IF i = 0 THEN <<>> ELSE upto[i - 1] \o slots[i]
    BY <1>2
  <2>2. 0 \in 0..N /\ \A i \in 1..N : i \in 0..N /\ i # 0
    BY <1>1
  <2> HIDE DEF N
  <2> QED BY <2>1, <2>2
<1>4. \A i \in 1..N : slots[i] \in Seq(Slot)
  BY ElementOfSeq
<1> HIDE DEF N
<1>5. ASSUME NEW n \in Nat, n + 1 <= N, upto[n] \in Seq(Slot)
      PROVE  /\ upto[n + 1] \in Seq(Slot) /\ Len(upto[n + 1]) = Len(upto[n]) + Len(slots[n + 1])
             /\ \A k \in 1..(Len(upto[n]) + Len(slots[n + 1])) :
                  upto[n + 1][k] = IF k <= Len(upto[n]) THEN upto[n][k]
                                   ELSE slots[n + 1][k - Len(upto[n])]
             /\ Len(upto[n]) \in Nat /\ Len(slots[n + 1]) \in Nat
  <2> DEFINE a == upto[n]
             b == slots[n + 1]
  <2>1. a \in Seq(Slot) /\ b \in Seq(Slot) /\ upto[n + 1] = a \o b
    <3>1. n + 1 \in 1..N /\ (n + 1) - 1 = n
      BY <1>1, <1>5
    <3> QED BY <1>3, <1>4, <1>5, <3>1
  <2> HIDE DEF a, b
  <2>2. /\ upto[n + 1] \in Seq(Slot) /\ Len(upto[n + 1]) = Len(a) + Len(b)
        /\ \A k \in 1..(Len(a) + Len(b)) :
             upto[n + 1][k] = IF k <= Len(a) THEN a[k] ELSE b[k - Len(a)]
        /\ Len(a) \in Nat /\ Len(b) \in Nat
    BY <2>1, ConcatProperties, LenProperties
  <2> QED BY <2>2 DEF a, b
<1>6. \A n \in Nat : n <= N => upto[n] \in Seq(Slot)
  <2> DEFINE S == {n \in Nat : n <= N => upto[n] \in Seq(Slot)}
  <2>1. 0 \in S
    <3>1. upto[0] \in Seq(Slot)
      <4>1. <<>> \in Seq(Slot)
        OBVIOUS
      <4> QED BY <1>3, <4>1
    <3> QED BY <3>1
  <2>2. ASSUME NEW n \in Nat, n \in S
        PROVE  n + 1 \in S
    <3>1. n + 1 <= N => upto[n + 1] \in Seq(Slot)
      <4> SUFFICES ASSUME n + 1 <= N PROVE upto[n + 1] \in Seq(Slot)
        OBVIOUS
      <4>1. upto[n] \in Seq(Slot)
        BY <1>1, <2>2
      <4> QED BY <1>5, <4>1
    <3> QED BY <3>1
  <2> HIDE DEF S
  <2>3. \A n \in Nat : n \in S
    BY <2>1, <2>2, SetInduction
  <2> QED BY <2>3 DEF S
<1> DEFINE at == [n \in 0..N |-> Len(upto[n])]
           len(n) == Len(slots[n])
<1>7. \A n \in Nat : n <= N => at[n] \in Nat /\ at[n] = Len(upto[n])
  <2>1. \A n \in Nat : n <= N => Len(upto[n]) \in Nat
    BY <1>6, LenProperties
  <2> QED BY <1>1, <2>1
<1>8. at[0] = 0 /\ at \in [0..N -> Nat]
  <2>1. at[0] = Len(upto[0]) /\ Len(<<>>) = 0
    BY <1>1
  <2>2. \A n \in 0..N : Len(upto[n]) \in Nat
    BY <1>1, <1>6, LenProperties
  <2> QED BY <1>3, <2>1, <2>2
<1> HIDE DEF at, len
<1>9. ASSUME NEW n \in Nat, n + 1 <= N
      PROVE  /\ at[n] \in Nat /\ len(n + 1) \in Nat /\ at[n + 1] = at[n] + len(n + 1)
             /\ \A k \in 1..(at[n] + len(n + 1)) :
                  upto[n + 1][k] = IF k <= at[n] THEN upto[n][k] ELSE slots[n + 1][k - at[n]]
  <2>1. n <= N /\ n + 1 \in Nat
    BY <1>1, <1>9
  <2>2. upto[n] \in Seq(Slot) /\ at[n] = Len(upto[n]) /\ at[n + 1] = Len(upto[n + 1]) /\ at[n] \in Nat
    BY <1>6, <1>7, <1>9, <2>1
  <2>3. /\ Len(upto[n + 1]) = Len(upto[n]) + Len(slots[n + 1])
        /\ \A k \in 1..(Len(upto[n]) + Len(slots[n + 1])) :
             upto[n + 1][k] = IF k <= Len(upto[n]) THEN upto[n][k]
                              ELSE slots[n + 1][k - Len(upto[n])]
        /\ Len(slots[n + 1]) \in Nat
    BY <1>5, <1>9, <2>2
  <2> QED BY <2>2, <2>3, Zenon DEF len
<1>10. ASSUME NEW i \in Nat, i <= N
       PROVE  \A m \in Nat : m <= N /\ i <= m =>
                at[i] <= at[m] /\ \A k \in 1..at[i] : upto[m][k] = upto[i][k]
  <2> DEFINE Extends(m) == at[i] <= at[m] /\ \A k \in 1..at[i] : upto[m][k] = upto[i][k]
             S == {m \in Nat : m <= N /\ i <= m => Extends(m)}
  <2>1. at[i] \in Nat
    BY <1>7, <1>10
  <2>2. 0 \in S
    <3>1. i <= 0 => i = 0
      OBVIOUS
    <3>2. Extends(i)
      BY <2>1
    <3> HIDE DEF Extends
    <3> QED BY <3>1, <3>2
  <2>3. ASSUME NEW m \in Nat, m \in S
        PROVE  m + 1 \in S
    <3> SUFFICES ASSUME m + 1 <= N, i <= m + 1 PROVE Extends(m + 1)
      OBVIOUS
    <3>1. CASE i = m + 1
      BY <2>1, <3>1
    <3>2. CASE i # m + 1
      <4>1. i <= m /\ m <= N
        BY <1>1, <3>2
      <4>2. at[i] <= at[m] /\ \A k \in 1..at[i] : upto[m][k] = upto[i][k]
        BY <2>3, <4>1
      <4>3. /\ at[m] \in Nat /\ len(m + 1) \in Nat /\ at[m + 1] = at[m] + len(m + 1)
            /\ \A k \in 1..(at[m] + len(m + 1)) :
                 upto[m + 1][k] = IF k <= at[m] THEN upto[m][k] ELSE slots[m + 1][k - at[m]]
        BY <1>9
      <4>4. at[i] <= at[m + 1]
        BY <2>1, <4>2, <4>3
      <4>5. ASSUME NEW k \in 1..at[i]
            PROVE  upto[m + 1][k] = upto[i][k]
        <5>1. k \in 1..(at[m] + len(m + 1)) /\ k <= at[m]
          BY <2>1, <4>2, <4>3
        <5>2. upto[m + 1][k] = upto[m][k]
          BY <4>3, <5>1
        <5> QED BY <4>2, <5>2
      <4> QED BY <4>4, <4>5
    <3> QED BY <3>1, <3>2
  <2> HIDE DEF S
  <2>4. \A m \in Nat : m \in S
    BY <2>2, <2>3, SetInduction
  <2> QED BY <2>4 DEF S
<1>11. ASSUME NEW i \in 1..N
       PROVE  /\ at[i] = at[i - 1] + Len(slots[i]) /\ at[i] <= Len(Witness(slots))
              /\ \A k \in 1..Len(slots[i]) : Witness(slots)[at[i - 1] + k] = slots[i][k]
  <2> DEFINE n == i - 1
  <2>1. n \in Nat /\ n + 1 = i /\ n + 1 <= N /\ i \in Nat /\ i <= N /\ N <= N
    BY <1>1
  <2> HIDE DEF n
  <2>2. /\ at[n] \in Nat /\ len(i) \in Nat /\ at[i] = at[n] + len(i)
        /\ \A k \in 1..(at[n] + len(i)) :
             upto[i][k] = IF k <= at[n] THEN upto[n][k] ELSE slots[i][k - at[n]]
    BY <1>9, <2>1
  <2>3. at[i] <= at[N] /\ \A k \in 1..at[i] : upto[N][k] = upto[i][k]
    BY <1>1, <1>10, <2>1
  <2>4. at[N] = Len(Witness(slots))
    BY <1>1, <1>2, <1>7, <2>1
  <2>5. ASSUME NEW k \in 1..len(i)
        PROVE  Witness(slots)[at[n] + k] = slots[i][k]
    <3> DEFINE j == at[n] + k
    <3>1. j \in 1..(at[n] + len(i)) /\ ~ (j <= at[n]) /\ j - at[n] = k
      BY <2>2
    <3> HIDE DEF j
    <3>2. upto[i][j] = slots[i][k]
      BY <2>2, <3>1
    <3>3. upto[N][j] = upto[i][j]
      BY <2>2, <2>3, <3>1
    <3> QED BY <1>2, <3>2, <3>3 DEF j
  <2> QED BY <2>2, <2>3, <2>4, <2>5, Zenon DEF len, n
<1>12. Len(Witness(slots)) \in Nat
  <2>1. N <= N
    BY <1>1
  <2> QED BY <1>1, <1>2, <1>7, <2>1
<1> QED BY <1>8, <1>11, <1>12 DEF N

\* the slots that a gateway asks proofs for, for one command
Asked(storage, command, words) ==
  LET slot == SlotOf(command, words) IN
  IF command.dynamic THEN SlotsFor(slot, At(storage, slot)) ELSE <<slot>>

\* the value can be proved: it has one data word at most, and keeps enough of it
Provable(storage, command, words) ==
  LET exact == Exactly(storage, command, words) IN
  command.dynamic => ~ (Len(exact) > 1) /\ exact[Len(exact)] \notin TooShort

LEMMA AskedParts ==
  ASSUME NEW storage, IsContent(storage), NEW command \in Command, NEW words,
         Provable(storage, command, words)
  PROVE  LET slot == SlotOf(command, words)
             n == IF command.dynamic THEN Long[At(storage, slot)] ELSE 0
             asked == Asked(storage, command, words) IN
         /\ n \in {0, 1} /\ Len(asked) = 1 + n /\ asked[1] = slot
         /\ n = 1 => /\ asked[2] = DataSlots(slot, 1)[1]
                     /\ At(storage, DataSlots(slot, 1)[1]) \notin TooShort
<1> DEFINE slot == SlotOf(command, words)
           header == At(storage, slot)
           n == IF command.dynamic THEN Long[header] ELSE 0
           exact == Exactly(storage, command, words)
           asked == Asked(storage, command, words)
<1>1. Long[header] \in Nat /\ n \in Nat
  BY AtType, StorageAssumption DEF Command
<1>2. n # 0 => exact = [k \in 1..n |-> At(storage, DataSlots(slot, n)[k])]
  BY DEF Exactly
<1>3. asked = IF command.dynamic THEN SlotsFor(slot, header) ELSE <<slot>>
  BY DEF Asked
<1> HIDE DEF slot, asked, exact
<1>4. CASE n = 0
  <2>1. asked = <<slot>>
    BY <1>3, <1>4 DEF SlotsFor
  <2> HIDE DEF n
  <2> QED BY <1>4, <2>1 DEF slot, asked, n, header
<1>5. CASE n # 0
  <2>1. command.dynamic /\ n = Long[header] /\ Long[header] # 0
    BY <1>5
  <2>2. asked = <<slot>> \o DataSlots(slot, 1)
    BY <1>3, <2>1 DEF SlotsFor
  <2> HIDE DEF n, header
  <2>3. Len(exact) = n /\ \A k \in 1..n : exact[k] = At(storage, DataSlots(slot, n)[k])
    BY <1>1, <1>2, <1>5
  <2>4. ~ (Len(exact) > 1) /\ exact[Len(exact)] \notin TooShort
    BY <2>1 DEF Provable, exact
  <2>5. n = 1
    BY <1>1, <1>5, <2>3, <2>4
  <2>6. At(storage, DataSlots(slot, 1)[1]) \notin TooShort
    BY <2>3, <2>4, <2>5
  <2> DEFINE data == DataSlots(slot, 1)
             first == <<slot>>
  <2>7. Len(data) = 1 /\ data \in Seq({data[1]})
    <3>1. data \in [1..1 -> {data[1]}]
      BY DEF DataSlots
    <3> DEFINE X == {data[1]}
    <3> HIDE DEF data, X
    <3>2. data \in [1..1 -> X]
      BY <3>1 DEF X
    <3>3. PICK m \in Nat : data \in [1..m -> X]
      BY <3>2
    <3>4. data \in Seq(X)
      BY <3>3
    <3>5. DOMAIN data = 1..Len(data) /\ Len(data) \in Nat
      BY <3>4, LenProperties
    <3>6. 1 \in DOMAIN data /\ 2 \notin DOMAIN data
      BY <3>2
    <3>7. \A len \in Nat : 1 \in 1..len /\ 2 \notin 1..len => len = 1
      OBVIOUS
    <3>8. Len(data) = 1
      BY <3>5, <3>6, <3>7
    <3> QED BY <3>4, <3>8 DEF X
  <2>8. Len(first) = 1 /\ first \in Seq({slot}) /\ first[1] = slot
    OBVIOUS
  <2> HIDE DEF data, first
  <2>9. /\ Len(first \o data) = Len(first) + Len(data)
        /\ \A k \in 1..(Len(first) + Len(data)) :
             (first \o data)[k] = IF k <= Len(first) THEN first[k] ELSE data[k - Len(first)]
    <3>1. first \in Seq({slot, data[1]}) /\ data \in Seq({slot, data[1]})
      BY <2>7, <2>8
    <3> QED BY <3>1, ConcatProperties
  <2>10. Len(first \o data) = 2 /\ (first \o data)[1] = slot /\ (first \o data)[2] = data[1]
    BY <2>7, <2>8, <2>9
  <2>11. asked = first \o data
    BY <2>2 DEF first, data
  <2>12. Len(asked) = 2 /\ asked[1] = slot /\ asked[2] = DataSlots(slot, 1)[1]
    BY <2>10, <2>11 DEF data
  <2> QED BY <2>5, <2>6, <2>12 DEF n, header, slot, asked
<1> QED BY <1>4, <1>5

\* A proof of the slot itself shows its word.
LEMMA ShownItself ==
  ASSUME NEW storage, HasTrie(storage), NEW slot, NEW lenient
  PROVE  Shown(storage, slot, slot, lenient) = [ok |-> TRUE, word |-> At(storage, slot)]
BY DEF Shown

LEMMA WordAppended ==
  ASSUME NEW w \in Seq(Words), NEW x \in Words, NEW n \in Nat, n = Len(w)
  PROVE  /\ Append(w, x) \in Seq(Words) /\ Len(Append(w, x)) = n + 1
         /\ \A k \in 1..n : Append(w, x)[k] = w[k]
         /\ Append(w, x)[n + 1] = x
BY AppendProperties

\* The proofs of the slots that a command consumes are accepted.
LEMMA CheckAccepts ==
  ASSUME NEW storage, IsContent(storage), HasTrie(storage), NEW command \in Command,
         NEW witness, Len(witness) \in Nat, NEW lenient, NEW done, done.ok, done.used \in Nat,
         NEW slot, slot = SlotOf(command, done.words),
         NEW n \in {0, 1}, n = IF command.dynamic THEN Long[At(storage, slot)] ELSE 0,
         done.used + 1 + n <= Len(witness), witness[done.used + 1] = slot,
         n = 1 => /\ witness[done.used + 2] = DataSlots(slot, 1)[1]
                  /\ At(storage, DataSlots(slot, 1)[1]) \notin TooShort
  PROVE  LET next == Check(storage, command, witness, lenient, done) IN
         /\ next.ok /\ next.used = done.used + 1 + n
         /\ next.words = Append(done.words, At(storage, slot))
<1> DEFINE at(k, s) == Shown(storage, witness[done.used + k], s, lenient)
           head == at(1, slot)
           m == IF command.dynamic THEN Long[head.word] ELSE 0
           data == DataSlots(slot, m)
           refused == \/ ~ done.ok \/ done.used >= Len(witness)
                      \/ ~ head.ok \/ done.used + 1 + m > Len(witness)
                      \/ \E k \in 1..m : ~ at(k + 1, data[k]).ok
                      \/ m > 0 /\ at(m + 1, data[m]).word \in TooShort
           value == IF m = 0 THEN <<head.word>>
                    ELSE [k \in 1..m |-> Unpadded[at(k + 1, data[k]).word]]
           good == [ok |-> TRUE, used |-> done.used + 1 + m,
                    words |-> Append(done.words, head.word),
                    values |-> Append(done.values, value)]
<1>1. Check(storage, command, witness, lenient, done) = IF refused THEN Refused ELSE good
  BY DEF Check
<1>2. head.ok /\ head.word = At(storage, slot)
  BY ShownItself
<1>3. m = n
  BY <1>2
<1>4. n = 1 => LET last == DataSlots(slot, 1)[1] IN
               at(2, last).ok /\ at(2, last).word = At(storage, last)
  BY ShownItself
<1>5. ~ refused
  <2> HIDE DEF head, m, at
  <2>1. ~ (done.used >= Len(witness)) /\ ~ (done.used + 1 + m > Len(witness))
    BY <1>3
  <2>2. ASSUME m # 0
        PROVE  /\ \A k \in 1..m : at(k + 1, data[k]).ok
               /\ at(m + 1, data[m]).word \notin TooShort
    <3>1. m = 1 /\ n = 1 /\ m + 1 = 2 /\ \A k \in 1..m : k = 1 /\ k + 1 = 2
      BY <1>3, <2>2
    <3>2. at(2, DataSlots(slot, 1)[1]).ok
          /\ at(2, DataSlots(slot, 1)[1]).word = At(storage, DataSlots(slot, 1)[1])
      BY <1>4, <3>1
    <3> QED BY <3>1, <3>2
  <2>3. m = 0 => ~ (m > 0) /\ \A k \in 1..m : FALSE
    OBVIOUS
  <2> HIDE DEF data
  <2> QED BY <1>2, <2>1, <2>2, <2>3
<1> HIDE DEF head, m, value, refused
<1> QED BY <1>1, <1>2, <1>3, <1>5

\* the data words that the header of a command announces
Announced(storage, command, words) ==
  IF command.dynamic THEN Long[At(storage, SlotOf(command, words))] ELSE 0

\* The same, as the next of the checks.
LEMMA NextAccepts ==
  ASSUME NEW storage, IsContent(storage), HasTrie(storage), NEW command \in Command,
         NEW witness, Len(witness) \in Nat, NEW lenient, NEW done, done.ok, done.used \in Nat
  PROVE  LET slot == SlotOf(command, done.words)
             n == Announced(storage, command, done.words)
             next == Check(storage, command, witness, lenient, done) IN
         /\ n \in {0, 1}
         /\ done.used + 1 + n <= Len(witness) /\ witness[done.used + 1] = slot
         /\ n = 1 => /\ witness[done.used + 2] = DataSlots(slot, 1)[1]
                     /\ At(storage, DataSlots(slot, 1)[1]) \notin TooShort
         => /\ next.ok /\ next.used = done.used + 1 + n
            /\ next.words = Append(done.words, At(storage, slot))
BY CheckAccepts DEF Announced

\* Proofs of the slots that a gateway asks for are accepted, in the order of
\* the commands, for every storage that is not empty and every program whose
\* paths are based and refer back to static commands only, if no dynamic value
\* is too long or too short for the verifier
\* (slots.ts:124-164, EVMProofHelper.sol:130-229, MerkleTrie.sol:106-129).
THEOREM HonestVerified ==
  ASSUME NEW storage, IsContent(storage), HasTrie(storage),
         NEW prog \in Seq(Command), Based(prog), StaticRefs(prog),
         NEW slots \in Seq(Seq(Slot)), Len(slots) = Len(prog), NEW lenient,
         \A i \in 1..Len(prog) : slots[i] = Asked(storage, prog[i], Headers(storage, prog)),
         \A i \in 1..Len(prog) : Provable(storage, prog[i], Headers(storage, prog))
  PROVE  Verified(storage, prog, Witness(slots), lenient).ok
<1> DEFINE witness == Witness(slots)
           word == Headers(storage, prog)
           done == Checks(storage, prog, witness, lenient)
<1>0. Backward(prog)
  BY StaticRefsBackward
<1>1. Len(prog) \in Nat
  BY LenProperties
<1>2. PICK at \in [0..Len(prog) -> Nat] :
        /\ at[0] = 0
        /\ \A i \in 1..Len(prog) :
             /\ at[i] = at[i - 1] + Len(slots[i]) /\ at[i] <= Len(witness)
             /\ \A k \in 1..Len(slots[i]) : witness[at[i - 1] + k] = slots[i][k]
  BY WitnessParts
<1>3. \A i \in 0..Len(prog) :
        done[i] = IF i = 0 THEN NothingYet
                  ELSE Check(storage, prog[i], witness, lenient, done[i - 1])
  BY <1>1, ChecksUnfold
<1>4. \A i \in 1..Len(prog) : word[i] = At(storage, SlotOf(prog[i], word))
  BY <1>0, HeadersUnfold
<1>5. \A i \in 1..Len(prog) : slots[i] = Asked(storage, prog[i], word)
  OBVIOUS
<1>6. \A i \in 1..Len(prog) : Provable(storage, prog[i], word)
  OBVIOUS
<1>7. Len(witness) \in Nat
  BY WitnessParts
<1> HIDE DEF witness, word, done
<1> DEFINE Right(d, n) ==
             /\ d.ok /\ d.used = at[n]
             /\ d.words \in Seq(Words) /\ Len(d.words) = n
             /\ \A i \in 1..n : d.words[i] = word[i]
           S == {n \in Nat : n <= Len(prog) => Right(done[n], n)}
<1>8. 0 \in S
  <2>1. done[0] = NothingYet
    BY <1>1, <1>3
  <2>2. Right(NothingYet, 0)
    BY <1>2, EmptyValues DEF NothingYet
  <2> QED BY <2>1, <2>2
<1>9. ASSUME NEW n \in Nat, n \in S
      PROVE  n + 1 \in S
  <2> SUFFICES ASSUME n + 1 <= Len(prog) PROVE Right(done[n + 1], n + 1)
    OBVIOUS
  <2> DEFINE i == n + 1
             c == prog[i]
             d == done[n]
             slot == SlotOf(c, word)
             m == IF c.dynamic THEN Long[At(storage, slot)] ELSE 0
             asked == slots[i]
  <2>1. i \in 1..Len(prog) /\ i \in 0..Len(prog) /\ i # 0 /\ i - 1 = n /\ n \in 0..Len(prog)
    BY <1>1
  <2>2. c \in Command /\ Right(d, n)
    BY <1>1, <1>9, <2>1
  <2>3. done[i] = Check(storage, c, witness, lenient, d)
    BY <1>3, <2>1
  <2>4. /\ m \in {0, 1} /\ Len(asked) = 1 + m /\ asked[1] = slot
        /\ m = 1 => /\ asked[2] = DataSlots(slot, 1)[1]
                    /\ At(storage, DataSlots(slot, 1)[1]) \notin TooShort
    <3>1. asked = Asked(storage, c, word) /\ Provable(storage, c, word)
      BY <1>5, <1>6, <2>1
    <3> HIDE DEF asked, c
    <3> QED BY <2>2, <3>1, AskedParts
  <2>5. /\ at[i] = at[n] + Len(asked) /\ at[i] <= Len(witness)
        /\ \A k \in 1..Len(asked) : witness[at[n] + k] = asked[k]
        /\ at[n] \in Nat
    BY <1>2, <2>1
  <2>6. \A j \in RefsOf(c) : j \in 1..n
    <3> SUFFICES ASSUME NEW j \in RefsOf(c) PROVE j \in 1..n
      OBVIOUS
    <3>1. j \in Nat \ {0}
      BY <2>2, OperandTypes DEF RefsOf
    <3>2. j < i
      BY <1>0, <2>1 DEF Backward
    <3> QED BY <3>1, <3>2
  <2> HIDE DEF c, asked, i, d
  <2>7. slot = SlotOf(c, d.words)
    BY <2>2, <2>6, SlotOfSame
  <2>8. word[i] = At(storage, slot)
    BY <1>4, <2>1 DEF c
  <2> HIDE DEF slot
  <2>9. m \in {0, 1} /\ m = IF c.dynamic THEN Long[At(storage, slot)] ELSE 0
    BY <2>4
  <2> HIDE DEF m
  <2>10. /\ d.ok /\ d.used \in Nat /\ d.used = at[n] /\ Len(witness) \in Nat
         /\ d.used + 1 + m <= Len(witness) /\ witness[d.used + 1] = slot
         /\ m = 1 => witness[d.used + 2] = DataSlots(slot, 1)[1]
    <3>1. d.ok /\ d.used = at[n] /\ Len(witness) \in Nat
      BY <1>1, <1>7, <2>1, <2>2
    <3>2. at[n] + 1 + m <= Len(witness)
      BY <2>4, <2>5
    <3>3. 1 \in 1..Len(asked) /\ (m = 1 => 2 \in 1..Len(asked))
      BY <2>4
    <3>4. witness[at[n] + 1] = slot /\ (m = 1 => witness[at[n] + 2] = DataSlots(slot, 1)[1])
      BY <2>4, <2>5, <3>3
    <3> QED BY <2>5, <3>1, <3>2, <3>4
  <2>11. /\ done[i].ok /\ done[i].used = d.used + 1 + m
         /\ done[i].words = Append(d.words, At(storage, slot))
    <3> DEFINE next == Check(storage, c, witness, lenient, d)
    <3>1. c \in Command /\ m \in {0, 1} /\ IsContent(storage) /\ HasTrie(storage)
      BY <2>2, <2>9
    <3>2. m = 1 => At(storage, DataSlots(slot, 1)[1]) \notin TooShort
      BY <2>4
    <3>3. /\ next.ok /\ next.used = d.used + 1 + m
          /\ next.words = Append(d.words, At(storage, slot))
      <4> DEFINE s == SlotOf(c, d.words)
                 k == Announced(storage, c, d.words)
      <4>1. /\ k \in {0, 1}
            /\ d.used + 1 + k <= Len(witness) /\ witness[d.used + 1] = s
            /\ k = 1 => /\ witness[d.used + 2] = DataSlots(s, 1)[1]
                        /\ At(storage, DataSlots(s, 1)[1]) \notin TooShort
            => /\ next.ok /\ next.used = d.used + 1 + k
               /\ next.words = Append(d.words, At(storage, s))
        <5>1. Len(witness) \in Nat /\ d.ok /\ d.used \in Nat
          BY <2>10
        <5> HIDE DEF witness, S, Right, word
        <5> QED BY <5>1, <3>1, NextAccepts
      <4>2. s = slot /\ k = m
        BY <2>7, <2>9 DEF Announced
      <4> HIDE DEF s, k, next
      <4> QED BY <2>9, <2>10, <3>2, <4>1, <4>2
    <3> QED BY <2>3, <3>3
  <2>12. done[i].used = at[i]
    BY <2>4, <2>5, <2>10, <2>11
  <2>13. At(storage, slot) \in Words
    BY AtType
  <2>14. /\ done[i].words \in Seq(Words) /\ Len(done[i].words) = n + 1
         /\ \A k \in 1..(n + 1) : done[i].words[k] = word[k]
    <3>1. d.words \in Seq(Words) /\ Len(d.words) = n /\ \A k \in 1..n : d.words[k] = word[k]
      BY <2>2
    <3> DEFINE w == d.words
               x == At(storage, slot)
    <3>2. w \in Seq(Words) /\ Len(w) = n /\ x \in Words /\ word[n + 1] = x
      BY <2>8, <2>13, <3>1 DEF i
    <3>3. \A k \in 1..n : w[k] = word[k]
      BY <3>1
    <3> HIDE DEF w, x
    <3>4. /\ Append(w, x) \in Seq(Words) /\ Len(Append(w, x)) = n + 1
          /\ \A k \in 1..n : Append(w, x)[k] = w[k]
          /\ Append(w, x)[n + 1] = x
      BY <3>2, WordAppended
    <3>5. done[i].words = Append(w, x)
      BY <2>11 DEF w, x
    <3>6. \A k \in 1..(n + 1) : k \in 1..n \/ k = n + 1
      OBVIOUS
    <3>7. \A k \in 1..(n + 1) : Append(w, x)[k] = word[k]
      BY <3>2, <3>3, <3>4, <3>6
    <3> QED BY <3>4, <3>5, <3>7
  <2> QED BY <2>11, <2>12, <2>14 DEF i
<1>10. Len(prog) \in S
  <2> HIDE DEF S
  <2> QED BY <1>1, <1>8, <1>9, SetInduction
<1>11. done[Len(prog)].ok
  BY <1>1, <1>10
<1> QED BY <1>11 DEF Verified, done, witness

-----------------------------------------------------------------------------
(* What a gateway knows of a read whose calls were all answered from one     *)
(* storage                                                                   *)

\* slots[i]: the slots of command i, once they are known
SlotsAgree(slots, storage, prog) ==
  /\ Len(slots) = Len(prog)
  /\ \A i \in 1..Len(prog) : slots[i] \in {<<>>, Asked(storage, prog[i], Headers(storage, prog))}

\* words[i]: its word, once a later command needed it
WordsAgree(words, storage, prog) ==
  /\ Len(words) = Len(prog)
  /\ \A i \in 1..Len(prog) : words[i] \in {<<>>, <<Headers(storage, prog)[i]>>}

LEMMA NothingKnownAgrees ==
  ASSUME NEW storage, NEW prog, NEW slots, NEW words,
         Len(slots) = Len(prog), Len(words) = Len(prog),
         \A i \in 1..Len(prog) : slots[i] = <<>> /\ words[i] = <<>>
  PROVE  SlotsAgree(slots, storage, prog) /\ WordsAgree(words, storage, prog)
BY DEF SlotsAgree, WordsAgree

\* getValueFromPath computes the slots of a command from words read before.
LEMMA LocateAgrees ==
  ASSUME NEW storage, NEW prog \in Seq(Command), NEW slots \in Seq(Seq(Slot)), NEW words,
         SlotsAgree(slots, storage, prog), WordsAgree(words, storage, prog),
         NEW i \in 1..Len(prog),
         \A j \in RefsOf(prog[i]) : j < i /\ words[j] # <<>>,
         NEW slot, slot = SlotOf(prog[i], [j \in RefsOf(prog[i]) |-> words[j][1]]),
         NEW found, found = IF prog[i].dynamic THEN SlotsFor(slot, At(storage, slot)) ELSE <<slot>>
  PROVE  SlotsAgree([slots EXCEPT ![i] = found], storage, prog)
<1> DEFINE word == Headers(storage, prog)
           new == [slots EXCEPT ![i] = found]
           known == [j \in RefsOf(prog[i]) |-> words[j][1]]
<1>1. Len(prog) \in Nat /\ prog[i] \in Command
  BY LenProperties
<1>2. \A j \in RefsOf(prog[i]) : known[j] = word[j]
  <2> SUFFICES ASSUME NEW j \in RefsOf(prog[i]) PROVE words[j][1] = word[j]
    OBVIOUS
  <2>1. j \in Nat \ {0}
    BY <1>1, OperandTypes DEF RefsOf
  <2>2. j \in 1..Len(prog) /\ words[j] # <<>>
    BY <1>1, <2>1
  <2>3. words[j] = <<word[j]>>
    BY <2>2 DEF WordsAgree
  <2> QED BY <2>3
<1> HIDE DEF known, word
<1>3. slot = SlotOf(prog[i], word)
  BY <1>2, SlotOfSame DEF known
<1>4. found = Asked(storage, prog[i], word)
  BY <1>3 DEF Asked
<1>5. Len(slots) = Len(prog) /\ \A j \in 1..Len(prog) : slots[j] \in {<<>>, Asked(storage, prog[j], word)}
  BY DEF SlotsAgree, word
<1>6. Len(new) = Len(prog) /\ \A j \in 1..Len(prog) : new[j] = IF j = i THEN found ELSE slots[j]
  BY <1>1, <1>5
<1> HIDE DEF new
<1>7. \A j \in 1..Len(prog) : new[j] \in {<<>>, Asked(storage, prog[j], word)}
  BY <1>4, <1>5, <1>6
<1> QED BY <1>6, <1>7 DEF SlotsAgree, word, new

\* value() of a static command reads its word.
LEMMA ReadAgrees ==
  ASSUME NEW storage, NEW prog \in Seq(Command), Backward(prog), NEW slots, NEW words,
         words \in Seq(Seq(Words)),
         SlotsAgree(slots, storage, prog), WordsAgree(words, storage, prog),
         NEW j \in 1..Len(prog), ~ prog[j].dynamic, slots[j] # <<>>
  PROVE  WordsAgree([words EXCEPT ![j] = <<At(storage, slots[j][1])>>], storage, prog)
<1> DEFINE word == Headers(storage, prog)
           read == <<At(storage, slots[j][1])>>
           new == [words EXCEPT ![j] = read]
<1>1. Len(prog) \in Nat /\ prog[j] \in Command
  BY LenProperties
<1>2. word[j] = At(storage, SlotOf(prog[j], word))
  BY HeadersUnfold
<1>3. slots[j] = <<SlotOf(prog[j], word)>>
  BY DEF SlotsAgree, Asked
<1> HIDE DEF word
<1>4. read = <<word[j]>>
  BY <1>2, <1>3
<1>5. Len(words) = Len(prog) /\ \A i \in 1..Len(prog) : words[i] \in {<<>>, <<word[i]>>}
  BY DEF WordsAgree, word
<1> HIDE DEF read
<1>6. Len(new) = Len(prog) /\ \A i \in 1..Len(prog) : new[i] = IF i = j THEN read ELSE words[i]
  BY <1>1, <1>5
<1> HIDE DEF new
<1>7. \A i \in 1..Len(prog) : new[i] \in {<<>>, <<word[i]>>}
  BY <1>4, <1>5, <1>6
<1> QED BY <1>6, <1>7 DEF WordsAgree, word, new, read

\* Of a contract that is not empty, proofs of known slots are refused for a
\* value that is too long or too short.
LEMMA RefusedForValue ==
  ASSUME NEW storage, IsContent(storage), HasTrie(storage),
         NEW prog \in Seq(Command), Based(prog), StaticRefs(prog),
         NEW slots \in Seq(Seq(Slot)), SlotsAgree(slots, storage, prog),
         \A i \in 1..Len(prog) : slots[i] # <<>>,
         NEW lenient, ~ Verified(storage, prog, Witness(slots), lenient).ok
  PROVE  \E i \in DOMAIN prog :
           LET exact == Reading(storage, prog)[i] IN
           prog[i].dynamic /\ (Len(exact) > 1 \/ exact[Len(exact)] \in TooShort)
<1> DEFINE word == Headers(storage, prog)
<1>0. Backward(prog)
  BY StaticRefsBackward
<1>1. DOMAIN prog = 1..Len(prog)
  OBVIOUS
<1>2. Len(slots) = Len(prog) /\ \A i \in 1..Len(prog) : slots[i] = Asked(storage, prog[i], word)
  BY DEF SlotsAgree
<1>3. PICK i \in 1..Len(prog) : ~ Provable(storage, prog[i], word)
  BY <1>2, HonestVerified
<1>4. Reading(storage, prog)[i] = Exactly(storage, prog[i], word)
  BY <1>0, ReadingValues
<1> QED BY <1>1, <1>3, <1>4 DEF Provable

=============================================================================
