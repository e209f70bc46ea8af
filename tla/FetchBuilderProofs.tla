-------------------------- MODULE FetchBuilderProofs --------------------------
(***************************************************************************)
(* What FetchBuilder promises for every size of a word, of the operand     *)
(* bits and of the arrays, and for every program: what fetch hands out is  *)
(* read back as what the calls describe, and a request is refused exactly  *)
(* when it does not fit the limits.                                        *)
(*                                                                         *)
(* The invariant relates each command, byte by byte, to the path that was  *)
(* asked for (Matches): the last command is open, those before it are      *)
(* closed by OP_END or by the end of their word, and the constants in the  *)
(* array are as many as the paths name (Counted).                          *)
(***************************************************************************)
EXTENDS FetchBuilder, SequenceTheorems, FiniteSetTheorems, TLAPS

\* the byte of an operation stands for the operand
Encodes(byte, operand, constants) ==
  IF operand.ref
  THEN operand.arg \in 1..Operands /\ byte = OP_BACKREF + (operand.arg - 1)
  ELSE byte + 1 \in 1..Len(constants) /\ byte < Operands /\ constants[byte + 1] = operand.arg

\* a command begins with the flag and the path of an entry
Begins(command, entry, constants) ==
  /\ Len(entry.path) >= 1 /\ Len(entry.path) + 1 <= Len(command) /\ Len(command) <= WordLength
  /\ command[1] = IF entry.dynamic THEN FLAG_DYNAMIC ELSE 0
  /\ \A k \in 1..Len(entry.path) : Encodes(command[k + 1], entry.path[k], constants)

Open(command, entry, constants) ==
  Begins(command, entry, constants) /\ Len(command) = Len(entry.path) + 1

Closed(command, entry, constants) ==
  /\ Begins(command, entry, constants)
  /\ \/ Len(command) = Len(entry.path) + 1 /\ Len(command) = WordLength
     \/ Len(command) = Len(entry.path) + 2 /\ command[Len(command)] = OP_END

\* the commands of q before the last are closed
ClosedBefore(q, program) ==
  /\ Len(q.commands) = Len(program)
  /\ \A i \in 1..Len(program) :
       i < Len(program) => Closed(q.commands[i], program[i], q.constants)

LastOpen(q, program) ==
  program # <<>> =>
    Open(q.commands[Len(program)], program[Len(program)], q.constants)

AllClosed(q, program) ==
  /\ Len(q.commands) = Len(program)
  /\ \A i \in 1..Len(program) : Closed(q.commands[i], program[i], q.constants)

Sized(q) ==
  /\ Len(q.constants) <= MaxConstants /\ Len(q.commands) <= MaxCommands
  /\ \A i \in 1..Len(q.commands) : Len(q.commands[i]) <= WordLength

Typed ==
  /\ request \in RequestType /\ Sized(request)
  /\ wanted \in Seq(Command) /\ astray \in BOOLEAN /\ calls \in 0..MaxCalls

\* a request on its way says what the calls asked for
Matches ==
  /\ request.state = "building" => ClosedBefore(request, wanted) /\ LastOpen(request, wanted)
  /\ request.state = "fetched" => AllClosed(request, wanted)

\* the constants are those of the paths, unless there were too many
Counted ==
  /\ IsFiniteSet(ConstantsOf(wanted))
  /\ request.state \in {"building", "fetched"} =>
       Cardinality(ConstantsOf(wanted)) = Len(request.constants) /\ ~ astray
  /\ request.state = "overwritten" => Cardinality(ConstantsOf(wanted)) > MaxConstants
  /\ request.state = "reverted" => ~ FitsLimits

IInv == Typed /\ Matches /\ Counted

-----------------------------------------------------------------------------
(* The helpers of the library *)

LEMMA Sizes ==
  /\ Operands \in Nat \ {0} /\ WordLength \in Nat /\ WordLength >= 2
  /\ MaxCommands \in Nat /\ MaxCommands >= 1 /\ MaxConstants \in Nat /\ MaxConstants <= Operands
  /\ OP_END \in Byte /\ 0 \in Byte /\ 1 \in Byte /\ OP_END >= 2 * Operands
  /\ \A k \in 0..(2 * Operands) : k \in Byte
BY BuilderAssumption DEF OP_END, Byte

LEMMA Division ==
  ASSUME NEW n \in Nat \ {0}, NEW m \in 0..(n - 1)
  PROVE  m \div n = 0 /\ (n + m) \div n = 1 /\ (n + m) % n = m
OBVIOUS

LEMMA Fields ==
  ASSUME NEW q \in RequestType
  PROVE  /\ q.commands \in Seq(Seq(Byte)) /\ Len(q.commands) \in Nat
         /\ q.constants \in Seq(Words) /\ Len(q.constants) \in Nat
         /\ \A i \in 1..Len(q.commands) : q.commands[i] \in Seq(Byte) /\ Len(q.commands[i]) \in Nat
BY ElementOfSeq, LenProperties DEF RequestType

LEMMA Grown ==
  ASSUME NEW S, NEW s \in Seq(S), NEW e \in S
  PROVE  /\ Append(s, e) \in Seq(S) /\ Len(Append(s, e)) = Len(s) + 1
         /\ \A i \in 1..Len(s) : Append(s, e)[i] = s[i]
         /\ Append(s, e)[Len(s) + 1] = e
BY AppendProperties

LEMMA AddOperationFields ==
  ASSUME NEW q \in RequestType, Len(q.commands) > 0, NEW op \in Byte
  PROVE  LET e == AddOperation(q, op)
             n == Len(q.commands) IN
         /\ e \in RequestType /\ e.constants = q.constants /\ e.state = q.state
         /\ Len(e.commands) = n /\ e.commands[n] = Append(q.commands[n], op)
         /\ \A i \in 1..n : i # n => e.commands[i] = q.commands[i]
<1> DEFINE n == Len(q.commands)
           new == Append(q.commands[n], op)
           commands == [q.commands EXCEPT ![n] = new]
<1>1. n \in 1..Len(q.commands) /\ q.commands[n] \in Seq(Byte) /\ q.commands \in Seq(Seq(Byte))
  BY Fields
<1>2. new \in Seq(Byte)
  BY <1>1
<1> HIDE DEF new
<1>3. /\ commands \in Seq(Seq(Byte)) /\ Len(commands) = n
      /\ \A i \in 1..n : commands[i] = IF i = n THEN new ELSE q.commands[i]
  BY <1>1, <1>2, ExceptSeq
<1>4. AddOperation(q, op) = [q EXCEPT !.commands = commands]
  BY DEF AddOperation, new, RequestType
<1> HIDE DEF commands
<1>5. [q EXCEPT !.commands = commands] \in RequestType
  BY <1>3 DEF RequestType
<1>6. QED BY <1>1, <1>3, <1>4, <1>5 DEF RequestType, new

LEMMA AddConstantFields ==
  ASSUME NEW q \in RequestType, NEW w \in Words
  PROVE  LET e == AddConstant(q, w) IN
         /\ e \in RequestType /\ e.commands = q.commands
         /\ Len(q.constants) < MaxConstants =>
              e.constants = Append(q.constants, w) /\ e.state = q.state
         /\ ~ (Len(q.constants) < MaxConstants) =>
              e.constants = q.constants /\ e.state = "overwritten"
<1>1. Append(q.constants, w) \in Seq(Words)
  BY Fields, Grown
<1>2. QED BY <1>1 DEF AddConstant, RequestType

LEMMA WithCommandFields ==
  ASSUME NEW q \in RequestType, NEW flag \in Byte
  PROVE  LET e == [q EXCEPT !.commands = Append(@, <<flag>>)] IN
         /\ e \in RequestType /\ e.constants = q.constants /\ e.state = q.state
         /\ e.commands = Append(q.commands, <<flag>>)
<1>1. <<flag>> \in Seq(Byte)
  OBVIOUS
<1>2. Append(q.commands, <<flag>>) \in Seq(Seq(Byte))
  BY <1>1, Fields, Grown
<1>3. QED BY <1>2 DEF RequestType

LEMMA TerminatedFields ==
  ASSUME NEW q \in RequestType, Sized(q)
  PROVE  LET e == Terminated(q) IN
         /\ e \in RequestType /\ e.constants = q.constants /\ e.state = q.state /\ Sized(e)
         /\ Len(e.commands) = Len(q.commands)
         /\ \A i \in 1..Len(q.commands) : i # Len(q.commands) => e.commands[i] = q.commands[i]
         /\ Len(q.commands) > 0 =>
              LET last == q.commands[Len(q.commands)] IN
              e.commands[Len(q.commands)] = IF Len(last) < WordLength THEN Append(last, OP_END) ELSE last
<1> DEFINE n == Len(q.commands)
           last == q.commands[n]
           e == AddOperation(q, OP_END)
<1>1. n \in Nat /\ (q.commands # <<>> <=> n > 0)
  BY Fields, EmptySeq DEF RequestType
<1>2. CASE n > 0 /\ Len(last) < WordLength
  <2>1. last \in Seq(Byte) /\ Len(last) \in Nat
    BY <1>1, <1>2, Fields
  <2>2. /\ e \in RequestType /\ e.constants = q.constants /\ e.state = q.state
        /\ Len(e.commands) = n /\ e.commands[n] = Append(last, OP_END)
        /\ \A i \in 1..n : i # n => e.commands[i] = q.commands[i]
    BY <1>2, Sizes, AddOperationFields
  <2>3. Len(Append(last, OP_END)) = Len(last) + 1
    BY <2>1, Sizes, Grown
  <2> HIDE DEF e
  <2>4. Sized(e)
    <3>1. Len(e.constants) <= MaxConstants /\ Len(e.commands) <= MaxCommands
      BY <2>2 DEF Sized
    <3>2. Len(Append(last, OP_END)) <= WordLength
      BY <1>2, <2>1, <2>3, Sizes
    <3>3. ASSUME NEW i \in 1..n
          PROVE  Len(e.commands[i]) <= WordLength
      BY <2>2, <3>2 DEF Sized
    <3>4. QED BY <2>2, <3>1, <3>3 DEF Sized
  <2>5. Terminated(q) = e
    BY <1>1, <1>2 DEF Terminated, e
  <2>6. QED BY <1>1, <1>2, <2>2, <2>4, <2>5
<1>3. CASE ~ (n > 0 /\ Len(last) < WordLength)
  <2>1. Terminated(q) = q
    BY <1>1, <1>3 DEF Terminated
  <2>2. QED BY <1>1, <1>3, <2>1
<1>4. QED BY <1>2, <1>3

-----------------------------------------------------------------------------
(* What a byte, a command, and all commands mean *)

\* an array of constants that is the other, or the other and one more
Extends(longer, constants) ==
  /\ Len(constants) <= Len(longer) /\ Len(longer) \in Nat /\ Len(constants) \in Nat
  /\ \A i \in 1..Len(constants) : longer[i] = constants[i]

LEMMA EncodesMore ==
  ASSUME NEW constants, NEW longer, Extends(longer, constants),
         NEW byte \in Byte, NEW operand \in Operand, Encodes(byte, operand, constants)
  PROVE  Encodes(byte, operand, longer)
BY DEF Encodes, Extends, Byte

\* the operations of one command in the order of the path
LEMMA BeginsMore ==
  ASSUME NEW constants, NEW longer, Extends(longer, constants),
         NEW command \in Seq(Byte), NEW entry \in Command, Begins(command, entry, constants)
  PROVE  Begins(command, entry, longer)
<1>1. \A k \in 1..Len(entry.path) : command[k + 1] \in Byte /\ entry.path[k] \in Operand
  <2>1. Len(command) \in Nat /\ entry.path \in Seq(Operand) /\ Len(entry.path) \in Nat
    BY DEF Command
  <2>2. \A k \in 1..Len(entry.path) : k + 1 \in 1..Len(command)
    BY <2>1 DEF Begins
  <2>3. QED BY <2>1, <2>2, ElementOfSeq
<1>2. QED BY <1>1, EncodesMore DEF Begins

LEMMA ClosedMore ==
  ASSUME NEW constants, NEW longer, Extends(longer, constants),
         NEW command \in Seq(Byte), NEW entry \in Command
  PROVE  /\ Closed(command, entry, constants) => Closed(command, entry, longer)
         /\ Open(command, entry, constants) => Open(command, entry, longer)
BY BeginsMore DEF Closed, Open

\* OP_END, or the end of the word, closes an open command
LEMMA OpenCloses ==
  ASSUME NEW constants, NEW command \in Seq(Byte), NEW entry \in Command,
         Open(command, entry, constants)
  PROVE  Closed(IF Len(command) < WordLength THEN Append(command, OP_END) ELSE command,
                entry, constants)
<1> DEFINE new == Append(command, OP_END)
<1>1. Len(command) \in Nat /\ Len(entry.path) \in Nat /\ WordLength \in Nat
  BY Sizes DEF Command
<1>2. /\ Len(new) = Len(command) + 1 /\ new[Len(command) + 1] = OP_END
      /\ \A k \in 1..Len(command) : new[k] = command[k]
  BY Sizes, Grown
<1> HIDE DEF new
<1>3. CASE Len(command) < WordLength
  <2>1. \A k \in 1..Len(entry.path) : k + 1 \in 1..Len(command)
    BY <1>1 DEF Open
  <2>2. Begins(new, entry, constants)
    BY <1>1, <1>2, <1>3, <2>1 DEF Begins, Open
  <2>3. QED BY <1>1, <1>2, <1>3, <2>2 DEF Closed, Open, new
<1>4. CASE ~ (Len(command) < WordLength)
  BY <1>1, <1>4 DEF Closed, Open, Begins
<1>5. QED BY <1>3, <1>4

\* an operation more, and the path with its operand
LEMMA OpenGrows ==
  ASSUME NEW constants, NEW command \in Seq(Byte), NEW entry \in Command,
         Open(command, entry, constants), Len(command) < WordLength,
         NEW op \in Byte, NEW operand \in Operand, Encodes(op, operand, constants)
  PROVE  Open(Append(command, op), [entry EXCEPT !.path = Append(@, operand)], constants)
<1> DEFINE new == Append(command, op)
           path == Append(entry.path, operand)
           e == [entry EXCEPT !.path = path]
           m == Len(entry.path)
<1>1. /\ Len(command) \in Nat /\ m \in Nat /\ WordLength \in Nat
      /\ entry.path \in Seq(Operand) /\ Len(command) = m + 1 /\ m >= 1
  BY Sizes DEF Command, Open, Begins
<1>2. /\ Len(new) = m + 2 /\ new[m + 2] = op
      /\ \A k \in 1..(m + 1) : new[k] = command[k]
  BY <1>1, Grown
<1>3. Len(path) = m + 1 /\ path[m + 1] = operand /\ \A k \in 1..m : path[k] = entry.path[k]
  BY <1>1, Grown
<1>4. e.path = path /\ e.dynamic = entry.dynamic
  BY DEF Command
<1> HIDE DEF new, path, e
<1>5. ASSUME NEW k \in 1..(m + 1)
      PROVE  Encodes(new[k + 1], path[k], constants)
  <2>1. CASE k = m + 1
    BY <1>1, <1>2, <1>3, <2>1
  <2>2. CASE k \in 1..m
    <3>1. new[k + 1] = command[k + 1] /\ path[k] = entry.path[k]
      BY <1>1, <1>2, <1>3, <2>2
    <3>2. QED BY <2>2, <3>1 DEF Open, Begins
  <2>3. QED BY <1>1, <2>1, <2>2
<1>6. Begins(new, e, constants)
  BY <1>1, <1>2, <1>3, <1>4, <1>5 DEF Begins, Open
<1>7. Open(new, e, constants)
  BY <1>1, <1>2, <1>3, <1>4, <1>6 DEF Open
<1>8. QED BY <1>7 DEF new, e, path

\* a command of one operation
LEMMA OpenFirst ==
  ASSUME NEW constants, NEW dynamic \in BOOLEAN, NEW op \in Byte, NEW operand \in Operand,
         Encodes(op, operand, constants)
  PROVE  Open(Append(<<IF dynamic THEN FLAG_DYNAMIC ELSE 0>>, op),
              [dynamic |-> dynamic, path |-> <<operand>>], constants)
<1> DEFINE flag == IF dynamic THEN FLAG_DYNAMIC ELSE 0
           new == Append(<<flag>>, op)
<1>1. Len(new) = 2 /\ new[1] = flag /\ new[2] = op
  OBVIOUS
<1>2. Len(<<operand>>) = 1 /\ <<operand>>[1] = operand
  OBVIOUS
<1> HIDE DEF new
<1>3. QED BY <1>1, <1>2, Sizes DEF Open, Begins, new

-----------------------------------------------------------------------------
(* Programs and their constants *)

LEMMA Programs ==
  ASSUME NEW program \in Seq(Command)
  PROVE  /\ Len(program) \in Nat /\ DOMAIN program = 1..Len(program)
         /\ program = <<>> <=> Len(program) = 0
         /\ \A i \in 1..Len(program) :
              /\ program[i] \in Command /\ program[i].path \in Seq(Operand)
              /\ Len(program[i].path) \in Nat
              /\ DOMAIN program[i].path = 1..Len(program[i].path)
<1>1. \A i \in 1..Len(program) : program[i] \in Command
  BY ElementOfSeq
<1>2. QED BY <1>1, LenProperties, EmptySeq DEF Command

\* what Ask makes of a program
Extended(program, operand) == [program EXCEPT ![Len(program)].path = Append(@, operand)]

LEMMA ExtendedFields ==
  ASSUME NEW program \in Seq(Command), Len(program) > 0, NEW operand \in Operand
  PROVE  LET e == Extended(program, operand)
             n == Len(program) IN
         /\ e \in Seq(Command) /\ Len(e) = n
         /\ e[n] = [program[n] EXCEPT !.path = Append(@, operand)]
         /\ e[n].path = Append(program[n].path, operand) /\ Len(e[n].path) = Len(program[n].path) + 1
         /\ \A i \in 1..n : i # n => e[i] = program[i]
<1> DEFINE n == Len(program)
           path == Append(program[n].path, operand)
           entry == [program[n] EXCEPT !.path = path]
<1>1. n \in 1..Len(program) /\ program[n] \in Command /\ program[n].path \in Seq(Operand)
  BY Programs
<1>2. path \in Seq(Operand) /\ Len(path) = Len(program[n].path) + 1
  BY <1>1, Grown
<1> HIDE DEF path
<1>3. entry \in Command /\ entry.path = path
  BY <1>1, <1>2 DEF Command
<1> HIDE DEF entry
<1>4. /\ [program EXCEPT ![n] = entry] \in Seq(Command)
      /\ Len([program EXCEPT ![n] = entry]) = n
      /\ \A i \in 1..n : [program EXCEPT ![n] = entry][i] = IF i = n THEN entry ELSE program[i]
  BY <1>1, <1>3, ExceptSeq
<1>5. Extended(program, operand) = [program EXCEPT ![n] = entry]
  BY DEF Extended, entry, path
<1>6. QED BY <1>1, <1>2, <1>3, <1>4, <1>5 DEF entry, path

LEMMA ConstantsMember ==
  ASSUME NEW program \in Seq(Command)
  PROVE  \A x : x \in ConstantsOf(program) <=>
           \E i \in 1..Len(program) : \E k \in 1..Len(program[i].path) :
             x = <<i, k>> /\ ~ program[i].path[k].ref
BY Programs DEF ConstantsOf

LEMMA OperandKinds ==
  /\ \A w \in Words : Const(w) \in Operand /\ ~ Const(w).ref /\ Const(w).arg = w
  /\ \A n \in Nat \ {0} : Ref(n) \in Operand /\ Ref(n).ref /\ Ref(n).arg = n
BY DEF Const, Ref, Operand

\* one constant more in a set of them
LEMMA OneMore ==
  ASSUME NEW S, IsFiniteSet(S), NEW x, x \notin S
  PROVE  IsFiniteSet(S \cup {x}) /\ Cardinality(S \cup {x}) = Cardinality(S) + 1
BY FS_AddElement

LEMMA CountExtended ==
  ASSUME NEW program \in Seq(Command), Len(program) > 0, NEW operand \in Operand,
         IsFiniteSet(ConstantsOf(program))
  PROVE  LET e == Extended(program, operand) IN
         /\ IsFiniteSet(ConstantsOf(e))
         /\ Cardinality(ConstantsOf(e)) =
              IF operand.ref THEN Cardinality(ConstantsOf(program))
              ELSE Cardinality(ConstantsOf(program)) + 1
<1> DEFINE e == Extended(program, operand)
           n == Len(program)
           m == Len(program[n].path)
<1>0. n \in Nat /\ n \in 1..n
  BY Programs
<1>1. /\ e \in Seq(Command) /\ Len(e) = n
      /\ e[n].path = Append(program[n].path, operand) /\ Len(e[n].path) = m + 1
      /\ \A i \in 1..n : i # n => e[i] = program[i]
  BY ExtendedFields
<1>2. program[n].path \in Seq(Operand) /\ m \in Nat
  BY <1>0, Programs
<1>3. e[n].path[m + 1] = operand /\ \A k \in 1..m : e[n].path[k] = program[n].path[k]
  BY <1>1, <1>2, Grown
<1> HIDE DEF e
<1>4. \A x : x \in ConstantsOf(e) <=> x \in ConstantsOf(program) \/ (x = <<n, m + 1>> /\ ~ operand.ref)
  <2>1. \A i \in 1..n, k \in Nat :
          k \in 1..Len(e[i].path) /\ ~ e[i].path[k].ref <=>
            \/ k \in 1..Len(program[i].path) /\ ~ program[i].path[k].ref
            \/ i = n /\ k = m + 1 /\ ~ operand.ref
    <3>1. \A i \in 1..n : i # n => e[i] = program[i] /\ ~ (i = n)
      BY <1>1
    <3>2. ASSUME NEW k \in Nat
          PROVE  k \in 1..Len(e[n].path) /\ ~ e[n].path[k].ref <=>
                   \/ k \in 1..m /\ ~ program[n].path[k].ref
                   \/ k = m + 1 /\ ~ operand.ref
      <4>1. k \in 1..(m + 1) <=> k \in 1..m \/ k = m + 1
        BY <1>2
      <4>2. ~ (k \in 1..m /\ k = m + 1)
        BY <1>2
      <4>3. QED BY <1>1, <1>3, <4>1, <4>2
    <3>3. QED BY <3>1, <3>2
  <2>2. ASSUME NEW x
        PROVE  x \in ConstantsOf(e) <=> x \in ConstantsOf(program) \/ (x = <<n, m + 1>> /\ ~ operand.ref)
    <3>1. x \in ConstantsOf(e) <=>
            \E i \in 1..n : \E k \in Nat :
              x = <<i, k>> /\ k \in 1..Len(e[i].path) /\ ~ e[i].path[k].ref
      <4>1. x \in ConstantsOf(e) <=>
              \E i \in 1..Len(e) : \E k \in 1..Len(e[i].path) :
                x = <<i, k>> /\ ~ e[i].path[k].ref
        BY <1>1, ConstantsMember
      <4>2. Len(e) = n
        BY <1>1
      <4>3. QED BY <4>1, <4>2
    <3>2. x \in ConstantsOf(program) <=>
            \E i \in 1..n : \E k \in Nat :
              x = <<i, k>> /\ k \in 1..Len(program[i].path) /\ ~ program[i].path[k].ref
      BY ConstantsMember
    <3>3. x = <<n, m + 1>> /\ ~ operand.ref <=>
            \E i \in 1..n : \E k \in Nat : x = <<i, k>> /\ i = n /\ k = m + 1 /\ ~ operand.ref
      BY <1>0, <1>2
    <3>4. QED BY <2>1, <3>1, <3>2, <3>3
  <2>3. QED BY <2>2
<1>5. <<n, m + 1>> \notin ConstantsOf(program)
  BY <1>2, ConstantsMember
<1>6. CASE operand.ref
  <2>1. ConstantsOf(e) = ConstantsOf(program)
    BY <1>4, <1>6
  <2>2. QED BY <1>6, <2>1 DEF e
<1>7. CASE ~ operand.ref
  <2>1. ConstantsOf(e) = ConstantsOf(program) \cup {<<n, m + 1>>}
    BY <1>4, <1>7
  <2>2. QED BY <1>5, <1>7, <2>1, OneMore DEF e
<1>8. QED BY <1>6, <1>7

LEMMA CountAppended ==
  ASSUME NEW program \in Seq(Command), NEW dynamic \in BOOLEAN, NEW w \in Words,
         IsFiniteSet(ConstantsOf(program))
  PROVE  LET e == Append(program, [dynamic |-> dynamic, path |-> <<Const(w)>>]) IN
         /\ e \in Seq(Command) /\ Len(e) = Len(program) + 1
         /\ e[Len(program) + 1] = [dynamic |-> dynamic, path |-> <<Const(w)>>]
         /\ \A i \in 1..Len(program) : e[i] = program[i]
         /\ IsFiniteSet(ConstantsOf(e))
         /\ Cardinality(ConstantsOf(e)) = Cardinality(ConstantsOf(program)) + 1
<1> DEFINE n == Len(program)
           entry == [dynamic |-> dynamic, path |-> <<Const(w)>>]
           e == Append(program, entry)
<1>1. Const(w) \in Operand /\ ~ Const(w).ref
  BY OperandKinds
<1>2. <<Const(w)>> \in Seq(Operand) /\ Len(<<Const(w)>>) = 1 /\ <<Const(w)>>[1] = Const(w)
  BY <1>1
<1>3. entry \in Command /\ Len(entry.path) = 1 /\ entry.path[1] = Const(w)
  BY <1>2 DEF Command
<1> HIDE DEF entry
<1>4. /\ e \in Seq(Command) /\ Len(e) = n + 1 /\ e[n + 1] = entry /\ n \in Nat
      /\ \A i \in 1..n : e[i] = program[i]
  BY <1>3, Programs, Grown
<1> HIDE DEF e
<1>5. \A x : x \in ConstantsOf(e) <=> x \in ConstantsOf(program) \/ x = <<n + 1, 1>>
  <2>1. \A i \in 1..(n + 1), k \in Nat :
          k \in 1..Len(e[i].path) /\ ~ e[i].path[k].ref <=>
            \/ i \in 1..n /\ k \in 1..Len(program[i].path) /\ ~ program[i].path[k].ref
            \/ i = n + 1 /\ k = 1
    BY <1>1, <1>3, <1>4
  <2>2. ASSUME NEW x
        PROVE  x \in ConstantsOf(e) <=> x \in ConstantsOf(program) \/ x = <<n + 1, 1>>
    <3>1. x \in ConstantsOf(e) <=>
            \E i \in 1..(n + 1) : \E k \in Nat :
              x = <<i, k>> /\ k \in 1..Len(e[i].path) /\ ~ e[i].path[k].ref
      BY <1>4, ConstantsMember
    <3>2. x \in ConstantsOf(program) <=>
            \E i \in 1..(n + 1) : \E k \in Nat :
              /\ x = <<i, k>>
              /\ i \in 1..n /\ k \in 1..Len(program[i].path) /\ ~ program[i].path[k].ref
      BY <1>4, ConstantsMember
    <3>3. x = <<n + 1, 1>> <=>
            \E i \in 1..(n + 1) : \E k \in Nat : x = <<i, k>> /\ i = n + 1 /\ k = 1
      BY <1>4
    <3>4. QED BY <2>1, <3>1, <3>2, <3>3
  <2>3. QED BY <2>2
<1>6. <<n + 1, 1>> \notin ConstantsOf(program)
  BY <1>4, ConstantsMember
<1>7. ConstantsOf(e) = ConstantsOf(program) \cup {<<n + 1, 1>>}
  BY <1>5
<1>8. QED BY <1>4, <1>6, <1>7, OneMore DEF e, entry

-----------------------------------------------------------------------------
(* Arguments and refusals *)

LEMMA AddArgumentFields ==
  ASSUME NEW q \in RequestType, Len(q.commands) > 0, NEW w \in Words,
         Len(q.constants) <= MaxConstants
  PROVE  LET e == AddArgument(q, w)
             n == Len(q.commands) IN
         /\ e \in RequestType /\ Len(q.constants) \in Byte
         /\ Len(e.commands) = n /\ e.commands[n] = Append(q.commands[n], Len(q.constants))
         /\ \A i \in 1..n : i # n => e.commands[i] = q.commands[i]
         /\ Len(q.constants) < MaxConstants =>
              /\ e.state = q.state /\ Len(e.constants) = Len(q.constants) + 1
              /\ Extends(e.constants, q.constants)
              /\ Encodes(Len(q.constants), Const(w), e.constants)
         /\ ~ (Len(q.constants) < MaxConstants) =>
              e.constants = q.constants /\ e.state = "overwritten"
<1> DEFINE half == AddConstant(q, w)
           op == Len(q.constants)
           e == AddOperation(half, op)
<1>1. op \in Nat /\ q.constants \in Seq(Words) /\ op \in Byte
  BY Fields, Sizes
<1>2. /\ half \in RequestType /\ half.commands = q.commands
      /\ op < MaxConstants => half.constants = Append(q.constants, w) /\ half.state = q.state
      /\ ~ (op < MaxConstants) => half.constants = q.constants /\ half.state = "overwritten"
  BY AddConstantFields
<1> HIDE DEF half
<1>3. Len(half.commands) > 0
  BY <1>2
<1>4. /\ e \in RequestType /\ e.constants = half.constants /\ e.state = half.state
      /\ Len(e.commands) = Len(half.commands)
      /\ e.commands[Len(half.commands)] = Append(half.commands[Len(half.commands)], op)
      /\ \A i \in 1..Len(half.commands) : i # Len(half.commands) => e.commands[i] = half.commands[i]
  <2> HIDE DEF op
  <2>1. half \in RequestType /\ op \in Byte
    BY <1>1, <1>2
  <2>2. QED BY <1>3, <2>1, AddOperationFields
<1>5. /\ e \in RequestType /\ e.constants = half.constants /\ e.state = half.state
      /\ Len(e.commands) = Len(q.commands)
      /\ e.commands[Len(q.commands)] = Append(q.commands[Len(q.commands)], op)
      /\ \A i \in 1..Len(q.commands) : i # Len(q.commands) => e.commands[i] = q.commands[i]
  <2> HIDE DEF e, op
  <2>1. half.commands = q.commands
    BY <1>2
  <2>2. QED BY <1>4, <2>1
<1>6. AddArgument(q, w) = e
  BY DEF AddArgument, half
<1> HIDE DEF e
<1>7. CASE op < MaxConstants
  <2>1. e.constants = Append(q.constants, w)
    BY <1>2, <1>5, <1>7
  <2>2. /\ Len(e.constants) = op + 1 /\ e.constants[op + 1] = w
        /\ \A i \in 1..op : e.constants[i] = q.constants[i]
    BY <1>1, <2>1, Grown
  <2>3. Extends(e.constants, q.constants)
    BY <1>1, <2>2 DEF Extends
  <2>4. Encodes(op, Const(w), e.constants)
    BY <1>1, <1>7, <2>2, Sizes, OperandKinds DEF Encodes
  <2>5. QED BY <1>1, <1>2, <1>5, <1>6, <1>7, <2>2, <2>3, <2>4
<1>8. CASE ~ (op < MaxConstants)
  BY <1>1, <1>2, <1>5, <1>6, <1>8
<1>9. QED BY <1>7, <1>8

LEMMA RevertedFields ==
  ASSUME NEW q \in RequestType
  PROVE  /\ Reverted(q) \in RequestType /\ Reverted(q).state = "reverted"
         /\ Sized(q) => Sized(Reverted(q))
<1>1. /\ Reverted(q) \in RequestType /\ Reverted(q).state = "reverted"
      /\ Reverted(q).commands = q.commands /\ Reverted(q).constants = q.constants
  BY DEF RequestType, Reverted
<1>2. QED BY <1>1 DEF Sized

\* one byte more in the last command
LEMMA SizedMore ==
  ASSUME NEW q \in RequestType, Sized(q), Len(q.commands) > 0,
         Len(q.commands[Len(q.commands)]) < WordLength,
         NEW e \in RequestType, NEW op \in Byte, Len(e.constants) <= MaxConstants,
         Len(e.commands) = Len(q.commands),
         e.commands[Len(q.commands)] = Append(q.commands[Len(q.commands)], op),
         \A i \in 1..Len(q.commands) : i # Len(q.commands) => e.commands[i] = q.commands[i]
  PROVE  Sized(e)
<1> DEFINE n == Len(q.commands)
           last == q.commands[n]
<1>1. n \in Nat /\ n \in 1..n /\ last \in Seq(Byte) /\ Len(last) \in Nat
  BY Fields
<1>2. Len(Append(last, op)) = Len(last) + 1
  BY <1>1, Grown
<1>3. Len(e.commands[n]) <= WordLength
  BY <1>1, <1>2, Sizes
<1>4. ASSUME NEW i \in 1..n
      PROVE  Len(e.commands[i]) <= WordLength
  BY <1>3 DEF Sized
<1>5. QED BY <1>4 DEF Sized

\* commands that are closed stay so under more constants
LEMMA ClosedBeforeMore ==
  ASSUME NEW q \in RequestType, NEW e \in RequestType, NEW program \in Seq(Command),
         NEW more \in Seq(Command), ClosedBefore(q, program), Extends(e.constants, q.constants),
         Len(e.commands) = Len(q.commands), Len(more) = Len(program),
         \A i \in 1..Len(program) : i # Len(program) =>
           e.commands[i] = q.commands[i] /\ more[i] = program[i]
  PROVE  ClosedBefore(e, more)
<1>1. ASSUME NEW i \in 1..Len(program), i < Len(program)
      PROVE  Closed(e.commands[i], more[i], e.constants)
  <2>1. e.commands[i] = q.commands[i] /\ more[i] = program[i]
    BY <1>1
  <2>2. q.commands[i] \in Seq(Byte) /\ program[i] \in Command
    BY Fields, Programs DEF ClosedBefore
  <2>3. Closed(q.commands[i], program[i], q.constants)
    BY <1>1 DEF ClosedBefore
  <2>4. QED BY <2>1, <2>2, <2>3, ClosedMore
<1>2. QED BY <1>1 DEF ClosedBefore

LEMMA SameConstants ==
  ASSUME NEW q \in RequestType
  PROVE  Extends(q.constants, q.constants)
BY Fields DEF Extends

-----------------------------------------------------------------------------
(* The calls *)

\* element and ref, when there is room: an operation that stands for the operand
LEMMA OperandAdded ==
  ASSUME Typed, Matches, request.state = "building", Count > 0, HasRoom(request),
         NEW e \in RequestType, NEW op \in Byte, NEW operand \in Operand,
         Encodes(op, operand, e.constants), Extends(e.constants, request.constants),
         Len(e.commands) = Count, e.commands[Count] = Append(request.commands[Count], op),
         \A i \in 1..Count : i # Count => e.commands[i] = request.commands[i]
  PROVE  LET more == Extended(wanted, operand) IN
         more \in Seq(Command) /\ ClosedBefore(e, more) /\ LastOpen(e, more)
<1> DEFINE n == Len(wanted)
           more == Extended(wanted, operand)
           last == request.commands[n]
<1>1. /\ n = Count /\ n \in Nat /\ n \in 1..n /\ request \in RequestType
      /\ ClosedBefore(request, wanted) /\ wanted \in Seq(Command) /\ wanted # <<>>
      /\ Open(last, wanted[n], request.constants)
  BY Programs DEF Matches, Typed, ClosedBefore, LastOpen, Count
<1>2. /\ more \in Seq(Command) /\ Len(more) = n
      /\ more[n] = [wanted[n] EXCEPT !.path = Append(@, operand)]
      /\ \A i \in 1..n : i # n => more[i] = wanted[i]
  BY <1>1, ExtendedFields
<1>3. last \in Seq(Byte) /\ wanted[n] \in Command
  BY <1>1, Fields, Programs DEF Count
<1> HIDE DEF more
<1>4. ClosedBefore(e, more)
  BY <1>1, <1>2, ClosedBeforeMore DEF Count
<1>5. Open(last, wanted[n], e.constants) /\ Len(last) < WordLength
  BY <1>1, <1>3, ClosedMore DEF HasRoom, Count
<1>6. Open(Append(last, op), more[n], e.constants)
  BY <1>2, <1>3, <1>5, OpenGrows
<1>7. LastOpen(e, more)
  BY <1>1, <1>2, <1>6 DEF LastOpen
<1>8. QED BY <1>2, <1>4, <1>7 DEF more

LEMMA CallsTyped ==
  ASSUME Typed, NEW state, Call(state)
  PROVE  calls' \in 0..MaxCalls /\ request.state = state
BY BuilderAssumption DEF Typed, Call

\* a path that has filled its word cannot be extended
LEMMA FullIsTooLong ==
  ASSUME Typed, Matches, request.state = "building", Count > 0, ~ HasRoom(request),
         NEW operand \in Operand, wanted' = Extended(wanted, operand)
  PROVE  ~ FitsLimits' /\ wanted' \in Seq(Command)
<1> DEFINE n == Len(wanted)
           last == request.commands[n]
<1>1. /\ n = Count /\ n \in Nat /\ n \in 1..n /\ request \in RequestType
      /\ wanted \in Seq(Command) /\ Len(last) = Len(wanted[n].path) + 1
  BY Programs DEF Matches, Typed, ClosedBefore, LastOpen, Count, Open
<1>2. ~ (Len(last) < WordLength)
  BY <1>1 DEF HasRoom, Count
<1>3. /\ wanted' \in Seq(Command) /\ Len(wanted') = n
      /\ Len(wanted'[n].path) = Len(wanted[n].path) + 1
  BY <1>1, ExtendedFields
<1>4. Len(wanted[n].path) \in Nat
  BY <1>1, Programs
<1>5. ~ (Len(wanted'[n].path) < WordLength) /\ n \in DOMAIN wanted'
  BY <1>1, <1>2, <1>3, <1>4, Sizes, Programs
<1>6. QED BY <1>3, <1>5 DEF FitsLimits

LEMMA ElementInv ==
  ASSUME IInv, NEW w \in Words, Element(w)
  PROVE  IInv'
<1> DEFINE e == AddArgument(request, w)
           c == Len(request.constants)
<1> USE DEF IInv
<1>1. /\ request.state = "building" /\ Count > 0 /\ calls' \in 0..MaxCalls
      /\ astray' = astray /\ wanted' = Extended(wanted, Const(w)) /\ Const(w) \in Operand
      /\ ~ Const(w).ref
  BY CallsTyped, OperandKinds DEF Element, Ask, Extended
<1>2. /\ wanted \in Seq(Command) /\ Len(wanted) = Count /\ Len(wanted) > 0
      /\ request \in RequestType /\ Sized(request) /\ c \in Nat
  BY <1>1, Fields DEF Matches, Typed, ClosedBefore, Count
<1>3. /\ IsFiniteSet(ConstantsOf(wanted'))
      /\ Cardinality(ConstantsOf(wanted')) = c + 1 /\ ~ astray
  BY <1>1, <1>2, CountExtended DEF Counted
<1>4. CASE ~ HasRoom(request)
  <2>1. request' = Reverted(request)
    BY <1>4 DEF Element
  <2>2. request' \in RequestType /\ Sized(request') /\ request'.state = "reverted"
    BY <1>2, <2>1, RevertedFields
  <2>3. ~ FitsLimits' /\ wanted' \in Seq(Command)
    BY <1>1, <1>4, FullIsTooLong
  <2>4. QED BY <1>1, <1>3, <2>2, <2>3 DEF Typed, Matches, Counted
<1>5. CASE HasRoom(request)
  <2>1. request' = e
    BY <1>5 DEF Element
  <2>2. /\ e \in RequestType /\ c \in Byte
        /\ Len(e.commands) = Count /\ e.commands[Count] = Append(request.commands[Count], c)
        /\ \A i \in 1..Count : i # Count => e.commands[i] = request.commands[i]
        /\ c < MaxConstants =>
             /\ e.state = "building" /\ Len(e.constants) = c + 1
             /\ Extends(e.constants, request.constants) /\ Encodes(c, Const(w), e.constants)
        /\ ~ (c < MaxConstants) => e.constants = request.constants /\ e.state = "overwritten"
    BY <1>1, <1>2, AddArgumentFields DEF Sized, Count
  <2> HIDE DEF e
  <2>3. Len(e.constants) <= MaxConstants
    BY <1>2, <2>2, Sizes DEF Sized
  <2>4. Sized(e)
    BY <1>1, <1>2, <1>5, <2>2, <2>3, SizedMore DEF Count, HasRoom
  <2>5. CASE c < MaxConstants
    <3>1. wanted' \in Seq(Command) /\ ClosedBefore(e, wanted') /\ LastOpen(e, wanted')
      BY <1>1, <1>5, <2>2, <2>5, OperandAdded
    <3>2. QED BY <1>1, <1>3, <2>1, <2>2, <2>4, <2>5, <3>1 DEF Typed, Matches, Counted
  <2>6. CASE ~ (c < MaxConstants)
    <3>1. wanted' \in Seq(Command)
      BY <1>1, <1>2, ExtendedFields
    <3>2. c + 1 > MaxConstants
      BY <1>2, <2>6, Sizes
    <3>3. QED BY <1>1, <1>3, <2>1, <2>2, <2>4, <2>6, <3>1, <3>2 DEF Typed, Matches, Counted
  <2>7. QED BY <2>5, <2>6
<1>6. QED BY <1>4, <1>5

LEMMA RefInv ==
  ASSUME IInv, NEW idx \in 0..(Operands + 1), RefTo(idx)
  PROVE  IInv'
<1> DEFINE op == OP_BACKREF + idx
           e == AddOperation(request, op)
<1> USE DEF IInv
<1>1. request.state = "building" /\ Count > 0 /\ calls' \in 0..MaxCalls
  BY CallsTyped DEF RefTo
<1>2. idx \in Nat /\ idx + 1 \in Nat \ {0}
  BY Sizes
<1>3. /\ Ref(idx + 1) \in Operand /\ Ref(idx + 1).ref /\ Ref(idx + 1).arg = idx + 1
  BY <1>2, OperandKinds
<1>4. wanted' = Extended(wanted, Ref(idx + 1))
  BY DEF RefTo, Ask, Extended
<1>5. astray' = (astray \/ idx > Count \/ idx >= Operands)
  BY Zenon DEF RefTo
<1>6. /\ request.state = "building" /\ Count > 0 /\ calls' \in 0..MaxCalls
      /\ wanted' = Extended(wanted, Ref(idx + 1)) /\ Ref(idx + 1) \in Operand
      /\ Ref(idx + 1).ref /\ Ref(idx + 1).arg = idx + 1 /\ idx \in Nat
  BY <1>1, <1>2, <1>3, <1>4
<1>7. /\ wanted \in Seq(Command) /\ Len(wanted) = Count /\ Len(wanted) > 0
      /\ request \in RequestType /\ Sized(request) /\ Count \in Nat
  BY <1>6, Fields DEF Matches, Typed, ClosedBefore, Count
<1>8. /\ IsFiniteSet(ConstantsOf(wanted')) /\ wanted' \in Seq(Command)
      /\ Cardinality(ConstantsOf(wanted')) = Len(request.constants) /\ ~ astray
  BY <1>6, <1>7, CountExtended, ExtendedFields DEF Counted, Typed
<1>9. CASE ~ (HasRoom(request) /\ idx <= Count /\ idx < Operands)
  <2>1. request' = Reverted(request)
    BY <1>9 DEF RefTo
  <2>2. request' \in RequestType /\ Sized(request') /\ request'.state = "reverted"
    BY <1>7, <2>1, RevertedFields
  <2>3. ~ FitsLimits'
    <3>1. CASE ~ HasRoom(request)
      BY <1>6, <3>1, FullIsTooLong
    <3>2. CASE HasRoom(request)
      <4>1. idx > Count \/ idx >= Operands
        BY <1>6, <1>7, <1>9, <3>2, Sizes
      <4>2. astray'
        BY <1>5, <4>1, Zenon
      <4>3. QED BY <4>2 DEF FitsLimits
    <3>3. QED BY <3>1, <3>2
  <2>4. astray' \in BOOLEAN
    BY <1>5, Zenon
  <2>5. QED BY <1>6, <1>8, <2>2, <2>3, <2>4 DEF Typed, Matches, Counted
<1>10. CASE HasRoom(request) /\ idx <= Count /\ idx < Operands
  <2>1. request' = e /\ op \in Byte
    BY <1>6, <1>10, Sizes DEF RefTo, OP_BACKREF
  <2>2. /\ e \in RequestType /\ e.constants = request.constants /\ e.state = "building"
        /\ Len(e.commands) = Count /\ e.commands[Count] = Append(request.commands[Count], op)
        /\ \A i \in 1..Count : i # Count => e.commands[i] = request.commands[i]
    BY <1>6, <1>7, <2>1, AddOperationFields DEF Count
  <2>3. Encodes(op, Ref(idx + 1), e.constants)
    BY <1>6, <1>10, Sizes DEF Encodes
  <2> HIDE DEF e, op
  <2>4. Sized(e)
    BY <1>6, <1>7, <1>10, <2>1, <2>2, SizedMore DEF Count, HasRoom, Sized
  <2>5. ClosedBefore(e, wanted') /\ LastOpen(e, wanted')
    BY <1>6, <1>7, <1>10, <2>1, <2>2, <2>3, SameConstants, OperandAdded
  <2>6. ~ astray' /\ astray' \in BOOLEAN
    <3>1. ~ (idx > Count) /\ ~ (idx >= Operands)
      BY <1>6, <1>7, <1>10, Sizes
    <3>2. QED BY <1>5, <1>8, <3>1, Zenon
  <2>7. QED BY <1>6, <1>8, <2>1, <2>2, <2>4, <2>5, <2>6 DEF Typed, Matches, Counted
<1>11. QED BY <1>9, <1>10

\* what comes after OP_END, or after a full word, is no operation of the path
LEMMA TerminatedCloses ==
  ASSUME NEW q \in RequestType, Sized(q), NEW program \in Seq(Command),
         ClosedBefore(q, program), LastOpen(q, program)
  PROVE  AllClosed(Terminated(q), program)
<1> DEFINE n == Len(program)
           last == q.commands[n]
           e == Terminated(q)
<1>1. n \in Nat /\ Len(q.commands) = n /\ (program # <<>> <=> n > 0)
  BY Programs DEF ClosedBefore
<1>2. /\ Len(e.commands) = n /\ e.constants = q.constants
      /\ \A i \in 1..n : i # n => e.commands[i] = q.commands[i]
      /\ n > 0 => e.commands[n] = IF Len(last) < WordLength THEN Append(last, OP_END) ELSE last
  BY <1>1, TerminatedFields
<1> HIDE DEF e
<1>3. ASSUME n > 0
      PROVE  Closed(e.commands[n], program[n], q.constants)
  <2>1. last \in Seq(Byte) /\ program[n] \in Command
    BY <1>1, <1>3, Fields, Programs
  <2>2. Open(last, program[n], q.constants)
    BY <1>1, <1>3 DEF LastOpen
  <2>3. Closed(IF Len(last) < WordLength THEN Append(last, OP_END) ELSE last,
               program[n], q.constants)
    BY <2>1, <2>2, OpenCloses
  <2>4. e.commands[n] = IF Len(last) < WordLength THEN Append(last, OP_END) ELSE last
    BY <1>2, <1>3
  <2>5. QED BY <2>3, <2>4
<1>4. ASSUME NEW i \in 1..n
      PROVE  Closed(e.commands[i], program[i], e.constants)
  <2>1. CASE i = n
    BY <1>1, <1>2, <1>3, <2>1
  <2>2. CASE i # n
    <3>1. i < n /\ e.commands[i] = q.commands[i]
      BY <1>1, <1>2, <2>2
    <3>2. QED BY <1>2, <3>1 DEF ClosedBefore
  <2>3. QED BY <2>1, <2>2
<1>5. QED BY <1>1, <1>2, <1>4 DEF AllClosed, e

\* a command more, of the constant w, behind commands that are closed
LEMMA CommandAdded ==
  ASSUME NEW q \in RequestType, Sized(q), Len(q.commands) + 1 <= MaxCommands,
         NEW program \in Seq(Command), AllClosed(q, program),
         NEW dynamic \in BOOLEAN, NEW w \in Words
  PROVE  LET flag == IF dynamic THEN FLAG_DYNAMIC ELSE 0
             e == AddArgument([q EXCEPT !.commands = Append(@, <<flag>>)], w)
             more == Append(program, [dynamic |-> dynamic, path |-> <<Const(w)>>])
             c == Len(q.constants) IN
         /\ e \in RequestType /\ Sized(e)
         /\ c < MaxConstants =>
              /\ e.state = q.state /\ Len(e.constants) = c + 1
              /\ ClosedBefore(e, more) /\ LastOpen(e, more)
         /\ ~ (c < MaxConstants) => e.state = "overwritten"
<1> DEFINE n == Len(program)
           flag == IF dynamic THEN FLAG_DYNAMIC ELSE 0
           half == [q EXCEPT !.commands = Append(@, <<flag>>)]
           e == AddArgument(half, w)
           entry == [dynamic |-> dynamic, path |-> <<Const(w)>>]
           more == Append(program, entry)
           c == Len(q.constants)
<1>1. n \in Nat /\ Len(q.commands) = n /\ c \in Nat
  BY Fields, Programs DEF AllClosed
<1>2. flag \in Byte
  BY Sizes DEF FLAG_DYNAMIC
<1> HIDE DEF flag
<1>3. /\ half \in RequestType /\ half.constants = q.constants /\ half.state = q.state
      /\ half.commands = Append(q.commands, <<flag>>)
  BY <1>2, WithCommandFields
<1> HIDE DEF half
<1>4. /\ Len(half.commands) = n + 1 /\ half.commands[n + 1] = <<flag>>
      /\ \A i \in 1..n : half.commands[i] = q.commands[i]
  <2>1. <<flag>> \in Seq(Byte) /\ q.commands \in Seq(Seq(Byte))
    BY <1>2, Fields
  <2>2. QED BY <1>1, <1>3, <2>1, Grown
<1>5. /\ e \in RequestType /\ c \in Byte
      /\ Len(e.commands) = n + 1 /\ e.commands[n + 1] = Append(<<flag>>, c)
      /\ \A i \in 1..(n + 1) : i # n + 1 => e.commands[i] = half.commands[i]
      /\ c < MaxConstants =>
           /\ e.state = half.state /\ Len(e.constants) = c + 1
           /\ Extends(e.constants, q.constants) /\ Encodes(c, Const(w), e.constants)
      /\ ~ (c < MaxConstants) => e.constants = q.constants /\ e.state = "overwritten"
  <2>1. Len(half.commands) > 0 /\ Len(half.constants) <= MaxConstants
    BY <1>1, <1>3, <1>4 DEF Sized
  <2>2. /\ e \in RequestType /\ Len(half.constants) \in Byte
        /\ Len(e.commands) = Len(half.commands)
        /\ e.commands[Len(half.commands)]
             = Append(half.commands[Len(half.commands)], Len(half.constants))
        /\ \A i \in 1..Len(half.commands) : i # Len(half.commands) => e.commands[i] = half.commands[i]
        /\ Len(half.constants) < MaxConstants =>
             /\ e.state = half.state /\ Len(e.constants) = Len(half.constants) + 1
             /\ Extends(e.constants, half.constants)
             /\ Encodes(Len(half.constants), Const(w), e.constants)
        /\ ~ (Len(half.constants) < MaxConstants) =>
             e.constants = half.constants /\ e.state = "overwritten"
    BY <1>3, <2>1, AddArgumentFields
  <2> HIDE DEF e
  <2>3. QED BY <1>3, <1>4, <2>2
<1> HIDE DEF e
<1>6. \A i \in 1..n : e.commands[i] = q.commands[i]
  BY <1>1, <1>4, <1>5
<1>7. Sized(e)
  <2>1. Len(Append(<<flag>>, c)) = 2
    BY <1>2, <1>5
  <2>2. ASSUME NEW i \in 1..(n + 1)
        PROVE  Len(e.commands[i]) <= WordLength
    <3>1. CASE i = n + 1
      BY <1>5, <2>1, <3>1, Sizes
    <3>2. CASE i \in 1..n
      BY <1>1, <1>6, <3>2 DEF Sized
    <3>3. QED BY <1>1, <3>1, <3>2
  <2>3. Len(e.constants) <= MaxConstants
    BY <1>1, <1>5, Sizes DEF Sized
  <2>4. Len(e.commands) <= MaxCommands
    BY <1>1, <1>5
  <2>5. QED BY <1>5, <2>2, <2>3, <2>4 DEF Sized
<1>8. ASSUME c < MaxConstants
      PROVE  ClosedBefore(e, more) /\ LastOpen(e, more)
  <2>1. entry \in Command
    <3>1. Const(w) \in Operand
      BY OperandKinds
    <3>2. <<Const(w)>> \in Seq(Operand)
      BY <3>1
    <3>3. QED BY <3>2 DEF Command
  <2>2. Open(Append(<<flag>>, c), entry, e.constants)
    <3>1. Const(w) \in Operand
      BY OperandKinds
    <3>2. QED BY <1>5, <1>8, <3>1, OpenFirst DEF flag
  <2> HIDE DEF entry
  <2>3. /\ Len(more) = n + 1 /\ more[n + 1] = entry
        /\ \A i \in 1..n : more[i] = program[i]
    BY <2>1, Grown
  <2> HIDE DEF more
  <2>4. ASSUME NEW i \in 1..(n + 1), i < n + 1
        PROVE  Closed(e.commands[i], more[i], e.constants)
    <3>1. i \in 1..n
      BY <1>1, <2>4
    <3>2. q.commands[i] \in Seq(Byte) /\ program[i] \in Command
      BY <1>1, <3>1, Fields, Programs
    <3>3. Closed(q.commands[i], program[i], q.constants)
      BY <3>1 DEF AllClosed
    <3>4. Extends(e.constants, q.constants)
      BY <1>5, <1>8
    <3>5. Closed(q.commands[i], program[i], e.constants)
      BY <3>2, <3>3, <3>4, ClosedMore
    <3>6. QED BY <1>6, <2>3, <3>1, <3>5
  <2>5. ClosedBefore(e, more)
    BY <1>5, <2>3, <2>4 DEF ClosedBefore
  <2>6. Open(e.commands[Len(more)], more[Len(more)], e.constants)
    BY <1>5, <2>2, <2>3
  <2>7. QED BY <2>5, <2>6 DEF LastOpen
<1>9. QED BY <1>3, <1>5, <1>7, <1>8 DEF e, half, flag, more, entry

LEMMA GetInv ==
  ASSUME IInv, NEW dynamic \in BOOLEAN, NEW w \in Words, Get(dynamic, w)
  PROVE  IInv'
<1> DEFINE q == Terminated(request)
           flag == IF dynamic THEN FLAG_DYNAMIC ELSE 0
           e == AddArgument([q EXCEPT !.commands = Append(@, <<flag>>)], w)
           more == Append(wanted, [dynamic |-> dynamic, path |-> <<Const(w)>>])
           c == Len(request.constants)
<1> USE DEF IInv
<1>1. request.state = "building" /\ calls' \in 0..MaxCalls
  BY CallsTyped DEF Get
<1>2. wanted' = more /\ astray' = astray
  BY DEF Get
<1>3. /\ request \in RequestType /\ Sized(request) /\ c \in Nat /\ Count \in Nat
      /\ wanted \in Seq(Command) /\ Len(wanted) = Count /\ ~ astray
      /\ ClosedBefore(request, wanted) /\ LastOpen(request, wanted)
      /\ IsFiniteSet(ConstantsOf(wanted)) /\ Cardinality(ConstantsOf(wanted)) = c
  BY <1>1, Fields DEF Typed, Matches, Counted, ClosedBefore, Count
<1>4. /\ more \in Seq(Command) /\ Len(more) = Count + 1
      /\ IsFiniteSet(ConstantsOf(more)) /\ Cardinality(ConstantsOf(more)) = c + 1
  <2>1. wanted \in Seq(Command) /\ IsFiniteSet(ConstantsOf(wanted))
    BY <1>3
  <2>2. /\ more \in Seq(Command) /\ Len(more) = Len(wanted) + 1
        /\ IsFiniteSet(ConstantsOf(more))
        /\ Cardinality(ConstantsOf(more)) = Cardinality(ConstantsOf(wanted)) + 1
    BY <2>1, CountAppended
  <2> HIDE DEF more
  <2>3. QED BY <1>3, <2>2
<1>5. AllClosed(q, wanted)
  BY <1>3, TerminatedCloses
<1>6. /\ q \in RequestType /\ q.constants = request.constants /\ q.state = "building"
      /\ Sized(q) /\ Len(q.commands) = Count
  BY <1>1, <1>3, TerminatedFields DEF Count
<1> HIDE DEF q
<1>7. CASE Count + 1 > MaxCommands
  <2>1. request' = Reverted(q)
    BY <1>7 DEF Get, q
  <2>2. request' \in RequestType /\ Sized(request') /\ request'.state = "reverted"
    BY <1>6, <2>1, RevertedFields
  <2> HIDE DEF more
  <2>3. ~ FitsLimits'
    BY <1>2, <1>3, <1>4, <1>7, Sizes DEF FitsLimits
  <2>4. QED BY <1>1, <1>2, <1>3, <1>4, <2>2, <2>3 DEF Typed, Matches, Counted
<1>8. CASE ~ (Count + 1 > MaxCommands)
  <2>1. request' = e
    BY <1>8 DEF Get, q
  <2>2. Len(q.commands) + 1 <= MaxCommands
    BY <1>3, <1>6, <1>8, Sizes
  <2>3. /\ e \in RequestType /\ Sized(e)
        /\ Len(q.constants) < MaxConstants =>
             /\ e.state = q.state /\ Len(e.constants) = Len(q.constants) + 1
             /\ ClosedBefore(e, more) /\ LastOpen(e, more)
        /\ ~ (Len(q.constants) < MaxConstants) => e.state = "overwritten"
    BY <1>3, <1>5, <1>6, <2>2, CommandAdded
  <2> HIDE DEF e, more
  <2>4. CASE c < MaxConstants
    <3>1. /\ e.state = "building" /\ Len(e.constants) = c + 1
          /\ ClosedBefore(e, more) /\ LastOpen(e, more)
      BY <1>6, <2>3, <2>4
    <3>2. QED BY <1>1, <1>2, <1>3, <1>4, <2>1, <2>3, <3>1 DEF Typed, Matches, Counted
  <2>5. CASE ~ (c < MaxConstants)
    <3>1. e.state = "overwritten" /\ c + 1 > MaxConstants
      BY <1>3, <1>6, <2>3, <2>5, Sizes
    <3>2. QED BY <1>1, <1>2, <1>3, <1>4, <2>1, <2>3, <3>1 DEF Typed, Matches, Counted
  <2>6. QED BY <2>4, <2>5
<1>9. QED BY <1>7, <1>8

LEMMA NoCommandInv ==
  ASSUME IInv, NoCommand
  PROVE  IInv'
<1> USE DEF IInv
<1>1. /\ calls' \in 0..MaxCalls /\ request' = Reverted(request) /\ request \in RequestType
      /\ Sized(request) /\ wanted' = wanted
  BY CallsTyped DEF NoCommand, Typed
<1>2. astray' /\ astray' \in BOOLEAN
  BY Zenon DEF NoCommand
<1>3. request' \in RequestType /\ Sized(request') /\ request'.state = "reverted"
  BY <1>1, RevertedFields
<1>4. QED BY <1>1, <1>2, <1>3 DEF Typed, Matches, Counted, FitsLimits

\* an overwritten request has named too many constants
LEMMA TooManyConstants ==
  ASSUME IInv, request.state = "overwritten", wanted' = wanted
  PROVE  ~ FitsLimits'
<1>1. Cardinality(ConstantsOf(wanted)) > MaxConstants /\ IsFiniteSet(ConstantsOf(wanted))
  BY DEF IInv, Counted
<1>2. Cardinality(ConstantsOf(wanted)) \in Nat
  BY <1>1, FS_CardinalityType
<1>3. QED BY <1>1, <1>2, Sizes DEF FitsLimits

LEMMA OverwriteInv ==
  ASSUME IInv, Overwrite
  PROVE  IInv'
<1> USE DEF IInv
<1>1. /\ calls' \in 0..MaxCalls /\ request.state = "overwritten" /\ request \in RequestType
      /\ Sized(request) /\ wanted' = wanted /\ astray' = astray
  BY CallsTyped DEF Overwrite, Typed
<1>2. CASE request' = request
  BY <1>1, <1>2 DEF Typed, Matches, Counted
<1>3. CASE request' = Reverted(request)
  <2>1. request' \in RequestType /\ Sized(request') /\ request'.state = "reverted"
    BY <1>1, <1>3, RevertedFields
  <2>2. ~ FitsLimits'
    BY <1>1, TooManyConstants
  <2>3. QED BY <1>1, <2>1, <2>2 DEF Typed, Matches, Counted
<1>4. QED BY <1>2, <1>3 DEF Overwrite

LEMMA FetchInv ==
  ASSUME IInv, Fetch
  PROVE  IInv'
<1> DEFINE q == Terminated(request)
           e == [q EXCEPT !.state = "fetched"]
<1> USE DEF IInv
<1>1. /\ calls' = calls /\ wanted' = wanted /\ astray' = astray
      /\ request \in RequestType /\ Sized(request) /\ wanted \in Seq(Command)
  BY DEF Fetch, Typed
<1>2. CASE request.state = "overwritten"
  <2>1. request' = Reverted(request)
    BY <1>2 DEF Fetch
  <2>2. request' \in RequestType /\ Sized(request') /\ request'.state = "reverted"
    BY <1>1, <2>1, RevertedFields
  <2>3. ~ FitsLimits'
    BY <1>1, <1>2, TooManyConstants
  <2>4. QED BY <1>1, <2>2, <2>3 DEF Typed, Matches, Counted
<1>3. CASE request.state = "building"
  <2>1. request' = e
    BY <1>3 DEF Fetch
  <2>2. AllClosed(q, wanted)
    BY <1>1, <1>3, TerminatedCloses DEF Matches
  <2>3. q \in RequestType /\ q.constants = request.constants /\ Sized(q)
    BY <1>1, TerminatedFields
  <2> HIDE DEF q
  <2>4. /\ e \in RequestType /\ e.state = "fetched"
        /\ e.commands = q.commands /\ e.constants = q.constants
    BY <2>3 DEF RequestType
  <2> HIDE DEF e
  <2>5. AllClosed(e, wanted) /\ Sized(e)
    BY <2>2, <2>3, <2>4 DEF AllClosed, Sized
  <2>6. QED BY <1>1, <1>3, <2>1, <2>3, <2>4, <2>5 DEF Typed, Matches, Counted
<1>4. QED BY <1>2, <1>3 DEF Fetch

LEMMA InitInv ==
  ASSUME Init
  PROVE  IInv
<1>1. /\ request \in RequestType /\ request.commands = <<>> /\ request.constants = <<>>
      /\ request.state = "building" /\ wanted = <<>> /\ astray = FALSE /\ calls = 0
  BY DEF Init, NewRequest, RequestType
<1>2. Len(request.commands) = 0 /\ Len(request.constants) = 0 /\ Len(wanted) = 0
  BY <1>1
<1>3. Sized(request)
  BY <1>2, Sizes DEF Sized
<1>4. wanted \in Seq(Command) /\ ConstantsOf(wanted) = {}
  BY <1>1 DEF ConstantsOf
<1>5. IsFiniteSet({}) /\ Cardinality({}) = 0
  BY FS_EmptySet
<1>6. Typed
  <2>1. calls \in 0..MaxCalls
    BY <1>1, BuilderAssumption
  <2>2. QED BY <1>1, <1>3, <1>4, <2>1 DEF Typed
<1>7. Matches
  BY <1>1, <1>2 DEF Matches, ClosedBefore, LastOpen
<1>8. Counted
  BY <1>1, <1>2, <1>4, <1>5 DEF Counted
<1>9. QED BY <1>6, <1>7, <1>8 DEF IInv

LEMMA NextInv ==
  ASSUME IInv, [Next]_vars
  PROVE  IInv'
<1>1. CASE \E w \in Words : Element(w) \/ \E dynamic \in BOOLEAN : Get(dynamic, w)
  BY <1>1, ElementInv, GetInv
<1>2. CASE \E idx \in 0..(Operands + 1) : RefTo(idx)
  BY <1>2, RefInv
<1>3. CASE NoCommand \/ Overwrite \/ Fetch
  BY <1>3, NoCommandInv, OverwriteInv, FetchInv
<1>4. CASE UNCHANGED vars
  BY <1>4 DEF IInv, Typed, Matches, Counted, FitsLimits, vars
<1>5. QED BY <1>1, <1>2, <1>3, <1>4 DEF Next

LEMMA Invariance == Spec => []IInv
BY InitInv, NextInv, PTL DEF Spec

-----------------------------------------------------------------------------
(* What gateway and verifier read back *)

\* the byte of an operand ends no path, and is read as the operand
LEMMA EncodedIsRead ==
  ASSUME NEW constants, NEW byte \in Byte, NEW operand \in Operand,
         Encodes(byte, operand, constants), Len(constants) \in Nat
  PROVE  byte # OP_END /\ OperandOf(byte, constants) = operand
<1>1. CASE operand.ref
  <2> DEFINE m == operand.arg - 1
  <2>1. m \in 0..(Operands - 1) /\ byte = Operands + m /\ operand.arg = m + 1
    BY <1>1, Sizes DEF Encodes, OP_BACKREF
  <2>2. operand = Ref(m + 1)
    BY <1>1, <2>1 DEF Operand, Ref
  <2> HIDE DEF m
  <2>3. (Operands + m) \div Operands = 1 /\ (Operands + m) % Operands = m
    BY <2>1, Sizes, Division
  <2>4. byte # OP_END
    BY <2>1, Sizes
  <2>5. OperandOf(byte, constants) = Ref(m + 1)
    BY <2>1, <2>3 DEF OperandOf
  <2>6. QED BY <2>2, <2>4, <2>5
<1>2. CASE ~ operand.ref
  <2>1. /\ byte \in 0..(Operands - 1) /\ byte < Len(constants)
        /\ constants[byte + 1] = operand.arg
    BY <1>2, Sizes DEF Encodes, Byte
  <2>2. operand = Const(operand.arg)
    BY <1>2 DEF Operand, Const
  <2>3. byte \div Operands = 0
    BY <2>1, Sizes, Division
  <2>4. byte # OP_END
    BY <2>1, Sizes
  <2>5. OperandOf(byte, constants) = Const(operand.arg)
    BY <2>1, <2>3 DEF OperandOf
  <2>6. QED BY <2>2, <2>4, <2>5
<1>3. QED BY <1>1, <1>2

\* the path that is read from a closed command has the length of the path asked for
LEMMA ClosedLength ==
  ASSUME NEW constants, Len(constants) \in Nat, NEW command \in Seq(Byte), NEW entry \in Command,
         Closed(command, entry, constants)
  PROVE  PathLength(command) = Len(entry.path)
<1> DEFINE n == Len(entry.path)
           First(k) == Ends(command, k) /\ \A m \in 2..(k - 1) : ~ Ends(command, m)
<1>1. /\ n \in Nat /\ n >= 1 /\ WordLength \in Nat /\ Len(command) \in Nat
      /\ n + 1 <= Len(command) /\ Len(command) <= WordLength /\ entry.path \in Seq(Operand)
  BY Sizes DEF Command, Closed, Begins
<1>2. ASSUME NEW m \in 2..(n + 1)
      PROVE  ~ Ends(command, m)
  <2>1. m - 1 \in 1..n /\ m \in 1..Len(command) /\ ~ (m > WordLength)
    BY <1>1
  <2>2. command[m] \in Byte /\ entry.path[m - 1] \in Operand
    BY <1>1, <2>1, ElementOfSeq
  <2>3. Encodes(command[m], entry.path[m - 1], constants)
    <3>1. Encodes(command[(m - 1) + 1], entry.path[m - 1], constants)
      BY <2>1 DEF Closed, Begins
    <3>2. (m - 1) + 1 = m
      OBVIOUS
    <3>3. QED BY <3>1, <3>2
  <2>4. ByteOf(command, m) # OP_END
    <3>1. ByteOf(command, m) = command[m]
      BY <2>1 DEF ByteOf
    <3>2. command[m] # OP_END
      BY <2>2, <2>3, EncodedIsRead
    <3>3. QED BY <3>1, <3>2
  <2>5. QED BY <2>1, <2>4 DEF Ends
<1>3. Ends(command, n + 2)
  <2>1. CASE Len(command) = n + 1 /\ Len(command) = WordLength
    BY <1>1, <2>1 DEF Ends
  <2>2. CASE Len(command) = n + 2 /\ command[Len(command)] = OP_END
    BY <1>1, <2>2 DEF Ends, ByteOf
  <2>3. QED BY <2>1, <2>2 DEF Closed
<1>4. n + 2 \in 2..(WordLength + 1) /\ First(n + 2)
  BY <1>1, <1>2, <1>3
<1>5. ASSUME NEW k \in 2..(WordLength + 1), First(k)
      PROVE  k = n + 2
  <2>1. ~ (k <= n + 1)
    BY <1>1, <1>2, <1>5
  <2>2. ~ (n + 2 <= k - 1)
    BY <1>1, <1>3, <1>5
  <2>3. QED BY <1>1, <2>1, <2>2
<1> HIDE DEF First
<1>6. (CHOOSE k \in 2..(WordLength + 1) : First(k)) = n + 2
  BY <1>4, <1>5
<1>7. PathLength(command) = (n + 2) - 2
  BY <1>6 DEF PathLength, First
<1>8. QED BY <1>1, <1>7

LEMMA SameSequence ==
  ASSUME NEW S, NEW s \in Seq(S)
  PROVE  [k \in 1..Len(s) |-> s[k]] = s
BY LenProperties

LEMMA SameCommand ==
  ASSUME NEW entry \in Command, NEW path, path = entry.path
  PROVE  [dynamic |-> entry.dynamic, path |-> path] = entry
BY DEF Command

\* a closed command is read as the entry
LEMMA ClosedIsRead ==
  ASSUME NEW constants, Len(constants) \in Nat, NEW command \in Seq(Byte), NEW entry \in Command,
         Closed(command, entry, constants)
  PROVE  DecodedCommand(command, constants) = entry
<1> DEFINE n == Len(entry.path)
           path == [k \in 1..n |-> OperandOf(ByteOf(command, k + 1), constants)]
<1>1. /\ n \in Nat /\ entry.path \in Seq(Operand) /\ entry.dynamic \in BOOLEAN
      /\ Len(command) \in Nat /\ n >= 1 /\ n + 1 <= Len(command)
  BY DEF Command, Closed, Begins
<1>2. (ByteOf(command, 1) % 2 = FLAG_DYNAMIC) = entry.dynamic
  <2>1. ByteOf(command, 1) = IF entry.dynamic THEN 1 ELSE 0
    BY <1>1 DEF ByteOf, Closed, Begins, FLAG_DYNAMIC
  <2>2. 1 % 2 = 1 /\ 0 % 2 = 0
    OBVIOUS
  <2>3. CASE entry.dynamic
    BY <1>1, <2>1, <2>2, <2>3 DEF FLAG_DYNAMIC
  <2>4. CASE ~ entry.dynamic
    BY <1>1, <2>1, <2>2, <2>4 DEF FLAG_DYNAMIC
  <2>5. QED BY <2>3, <2>4
<1>3. ASSUME NEW k \in 1..n
      PROVE  OperandOf(ByteOf(command, k + 1), constants) = entry.path[k]
  <2>1. k + 1 \in 1..Len(command)
    BY <1>1
  <2>2. command[k + 1] \in Byte /\ entry.path[k] \in Operand
    BY <1>1, <2>1, ElementOfSeq
  <2>3. Encodes(command[k + 1], entry.path[k], constants)
    BY DEF Closed, Begins
  <2>4. ByteOf(command, k + 1) = command[k + 1]
    BY <2>1 DEF ByteOf
  <2>5. QED BY <2>2, <2>3, <2>4, EncodedIsRead
<1>4. path = entry.path
  <2>1. path = [k \in 1..n |-> entry.path[k]]
    BY <1>3
  <2>2. QED BY <1>1, <2>1, SameSequence
<1>5. DecodedCommand(command, constants) = [dynamic |-> entry.dynamic, path |-> path]
  BY <1>2, ClosedLength DEF DecodedCommand
<1> HIDE DEF path
<1>6. QED BY <1>4, <1>5, SameCommand

-----------------------------------------------------------------------------
(* The theorems *)

\* The request, its words and its arrays keep their types and sizes, whatever
\* calls are made (EVMFetcher.sol:57-300).
THEOREM TypeCorrect == Spec => []TypeOK
<1>1. IInv => TypeOK
  BY DEF IInv, Typed, Sized, TypeOK, Count, Command
<1>2. QED BY <1>1, Invariance, PTL

\* The commands and constants that fetch hands out are read back, by gateway
\* and verifier, as the commands and paths that the calls describe, for every
\* width of a word and of the operand bits (EVMFetcher.sol:268-328,
\* EVMProofHelper.sol:91-128).
THEOREM RequestsAreRead == Spec => []FetchedDecodes
<1>1. ASSUME IInv, request.state = "fetched"
      PROVE  Decoded(request) = wanted
  <2>1. /\ request \in RequestType /\ wanted \in Seq(Command) /\ Len(request.constants) \in Nat
        /\ request.commands \in Seq(Seq(Byte)) /\ Len(request.commands) = Len(wanted)
        /\ \A i \in 1..Len(wanted) : Closed(request.commands[i], wanted[i], request.constants)
    BY <1>1, Fields DEF IInv, Typed, Matches, AllClosed
  <2>2. DOMAIN request.commands = 1..Len(wanted)
    BY <2>1, LenProperties
  <2>3. ASSUME NEW i \in 1..Len(wanted)
        PROVE  DecodedCommand(request.commands[i], request.constants) = wanted[i]
    <3>1. request.commands[i] \in Seq(Byte) /\ wanted[i] \in Command
      BY <2>1, ElementOfSeq
    <3>2. Closed(request.commands[i], wanted[i], request.constants)
      BY <2>1
    <3>3. QED BY <2>1, <3>1, <3>2, ClosedIsRead
  <2>4. Decoded(request) = [i \in 1..Len(wanted) |-> wanted[i]]
    BY <2>2, <2>3 DEF Decoded
  <2>5. QED BY <2>1, <2>4, SameSequence
<1>2. IInv => FetchedDecodes
  BY <1>1 DEF FetchedDecodes
<1>3. QED BY <1>2, Invariance, PTL

\* A request is handed out only if it fits the limits, and is refused only if
\* it does not; the limit on constants, which no call compares with, included
\* (EVMFetcher.sol:268-313).
THEOREM LimitsDecide == Spec => []FetchedIffFits
<1>1. ASSUME IInv, request.state = "fetched"
      PROVE  FitsLimits
  <2>1. /\ request \in RequestType /\ wanted \in Seq(Command) /\ Sized(request) /\ ~ astray
        /\ Len(request.commands) = Len(wanted)
        /\ Cardinality(ConstantsOf(wanted)) = Len(request.constants)
        /\ \A i \in 1..Len(wanted) : Closed(request.commands[i], wanted[i], request.constants)
    BY <1>1 DEF IInv, Typed, Matches, Counted, AllClosed
  <2>2. ASSUME NEW i \in DOMAIN wanted
        PROVE  Len(wanted[i].path) < WordLength
    <3>1. i \in 1..Len(wanted) /\ Len(wanted[i].path) \in Nat
      BY <2>1, Programs
    <3>2. /\ Len(wanted[i].path) + 1 <= Len(request.commands[i])
          /\ Len(request.commands[i]) <= WordLength /\ Len(request.commands[i]) \in Nat
      BY <2>1, <3>1, Fields DEF Closed, Begins
    <3>3. QED BY <3>1, <3>2, Sizes
  <2>3. QED BY <2>1, <2>2 DEF FitsLimits, Sized
<1>2. IInv => FetchedIffFits
  BY <1>1 DEF FetchedIffFits, IInv, Counted
<1>3. QED BY <1>2, Invariance, PTL

=============================================================================
