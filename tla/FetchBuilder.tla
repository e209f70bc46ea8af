----------------------------- MODULE FetchBuilder -----------------------------
(***************************************************************************)
(* EVMFetcher: a contract builds a request for storage by a chain of       *)
(* calls, each of which writes one or two bytes of a 32-byte command and   *)
(* may add a constant, and ends it with fetch, which reverts with the      *)
(* commands and constants for a gateway.  Gateway (slots.ts) and verifier  *)
(* (EVMProofHelper) read the bytes back.                                   *)
(*                                                                         *)
(* A byte is a number; a command is the sequence of the bytes written to   *)
(* its word, of which operationIdx is the length.  The sizes are           *)
(* parameters, so that limits are reached in small instances.              *)
(***************************************************************************)
EXTENDS StorageProof, FiniteSets

CONSTANTS
  Operands,      \* values of the operand bits of an operation: 32
  WordLength,    \* bytes of a command: 32
  MaxCommands,
  MaxConstants,
  MaxCalls       \* bound on the calls that build one request

ASSUME BuilderAssumption ==
  /\ Operands \in Nat \ {0} /\ WordLength \in Nat \ {0, 1}
  /\ MaxCommands \in Nat \ {0} /\ MaxCalls \in Nat
  /\ MaxConstants \in 0..Operands     \* "Must not be greater than 32"

VARIABLES
  request,
  \* history, read by the properties only:
  wanted,    \* what the calls so far ask for, a refused one included
  astray,    \* a call built on no command, or referred too far
  calls

vars == <<request, wanted, astray, calls>>

OP_BACKREF == Operands           \* the lowest opcode bit
OP_END == 8 * Operands - 1       \* all opcode and operand bits
FLAG_DYNAMIC == 1
Byte == 0..OP_END

\* newFetchRequest; the state is what has become of it
NewRequest == [commands |-> <<>>, constants |-> <<>>, state |-> "building"]

Init ==
  /\ request = NewRequest
  /\ wanted = <<>> /\ astray = FALSE /\ calls = 0

-----------------------------------------------------------------------------
(* Helpers of the library *)

Count == Len(request.commands)
Current == request.commands[Count]

Reverted(q) == [q EXCEPT !.state = "reverted"]

\* _addOperation, where operationIdx < WordLength
AddOperation(q, op) == [q EXCEPT !.commands[Len(q.commands)] = Append(@, op)]

\* Mutant of AddConstant: the array has room for more than MAX_CONSTANTS
AddConstantAnyway(q, w) == [q EXCEPT !.constants = Append(@, w)]

\* _addConstant: the word behind the array is the verifier of the request
AddConstant(q, w) ==
  IF Len(q.constants) < MaxConstants
  THEN [q EXCEPT !.constants = Append(@, w)]
  ELSE [q EXCEPT !.state = "overwritten"]

\* the operation is the number the constant is given
AddArgument(q, w) == AddOperation(AddConstant(q, w), Len(q.constants))

\* OP_END ends the path of the previous command, unless its word is full
Terminated(q) ==
  IF q.commands # <<>> /\ Len(q.commands[Len(q.commands)]) < WordLength
  THEN AddOperation(q, OP_END) ELSE q

-----------------------------------------------------------------------------
(* The calls *)

Call(state) ==
  /\ request.state = state /\ calls < MaxCalls
  /\ calls' = calls + 1

\* getStatic and getDynamic
Get(dynamic, w) ==
  /\ Call("building")
  /\ LET q == Terminated(request)
         flag == IF dynamic THEN FLAG_DYNAMIC ELSE 0
     IN  request' = IF Count + 1 > MaxCommands THEN Reverted(q)
                    ELSE AddArgument([q EXCEPT !.commands = Append(@, <<flag>>)], w)
  /\ wanted' = Append(wanted, [dynamic |-> dynamic, path |-> <<Const(w)>>])
  /\ UNCHANGED astray

\* Mutant of HasRoom: the last byte is left to OP_END
HasRoomForEnd(q) == Len(q.commands[Len(q.commands)]) < WordLength - 1

\* Mutant of HasRoom: an operation may be shifted out of the word
HasRoomAndOne(q) == Len(q.commands[Len(q.commands)]) <= WordLength

HasRoom(q) == Len(q.commands[Len(q.commands)]) < WordLength

Ask(operand) == wanted' = [wanted EXCEPT ![Len(wanted)].path = Append(@, operand)]

\* the overloads of element
Element(w) ==
  /\ Call("building") /\ Count > 0
  /\ request' = IF HasRoom(request) THEN AddArgument(request, w) ELSE Reverted(request)
  /\ Ask(Const(w))
  /\ UNCHANGED astray

\* ref: the number, from 0, of a command, the current and the next included
RefTo(idx) ==
  /\ Call("building") /\ Count > 0
  /\ request' = IF HasRoom(request) /\ idx <= Count /\ idx < Operands
                THEN AddOperation(request, OP_BACKREF + idx) ELSE Reverted(request)
  /\ Ask(Ref(idx + 1))
  /\ astray' = (astray \/ idx > Count \/ idx >= Operands)

\* element or ref on a request without commands panics
NoCommand ==
  /\ Call("building") /\ Count = 0
  /\ request' = Reverted(request)
  /\ astray' = TRUE
  /\ UNCHANGED wanted

\* the calls after the verifier is overwritten overwrite more of the request,
\* and run into its limits, or into a broken one, or not
Overwrite ==
  /\ Call("overwritten")
  /\ request' \in {request, Reverted(request)}
  /\ UNCHANGED <<wanted, astray>>

\* fetch: what is at the address of the verifier is no contract
Fetch ==
  /\ request.state \in {"building", "overwritten"}
  /\ request' = IF request.state = "overwritten" THEN Reverted(request)
                ELSE [Terminated(request) EXCEPT !.state = "fetched"]
  /\ UNCHANGED <<wanted, astray, calls>>

Next ==
  \/ \E w \in Words : Element(w) \/ \E dynamic \in BOOLEAN : Get(dynamic, w)
  \/ \E idx \in 0..(Operands + 1) : RefTo(idx)
  \/ NoCommand \/ Overwrite \/ Fetch

Spec == Init /\ [][Next]_vars

-----------------------------------------------------------------------------
(* What gateway and verifier read from a fetched request: the flag, the    *)
(* first operation, and those before OP_END or the end of the word.        *)

\* bytes that were not written are zero
ByteOf(command, k) == IF k <= Len(command) THEN command[k] ELSE 0

Ends(command, k) == k > WordLength \/ (k > 2 /\ ByteOf(command, k) = OP_END)

PathLength(command) ==
  (CHOOSE k \in 2..(WordLength + 1) :
     Ends(command, k) /\ \A m \in 2..(k - 1) : ~ Ends(command, m)) - 2

NoOperand == [ref |-> TRUE, arg |-> 0]

\* executeOperation: a number without constant, or another opcode, reverts
OperandOf(op, constants) ==
  IF op \div Operands = 0 /\ op < Len(constants) THEN Const(constants[op + 1])
  ELSE IF op \div Operands = 1 THEN Ref((op % Operands) + 1)
  ELSE NoOperand

DecodedCommand(command, constants) ==
  [dynamic |-> ByteOf(command, 1) % 2 = FLAG_DYNAMIC,
   path |-> [k \in 1..PathLength(command) |-> OperandOf(ByteOf(command, k + 1), constants)]]

Decoded(q) ==
  [i \in DOMAIN q.commands |-> DecodedCommand(q.commands[i], q.constants)]

-----------------------------------------------------------------------------
(* Properties *)

RequestType ==
  [commands : Seq(Seq(Byte)), constants : Seq(Words),
   state : {"building", "overwritten", "fetched", "reverted"}]

TypeOK ==
  /\ request \in RequestType
  /\ Len(request.constants) <= MaxConstants
  /\ Count <= MaxCommands /\ \A i \in 1..Count : Len(request.commands[i]) <= WordLength
  /\ wanted \in Seq([dynamic : BOOLEAN, path : Seq(Operand)])
  /\ astray \in BOOLEAN
  /\ calls \in 0..MaxCalls

\* The commands and constants that fetch hands out are read back, by gateway
\* and verifier, as the commands and paths that the calls describe: no
\* operation is lost behind the word or behind OP_END, and none turns into
\* another opcode (EVMFetcher.sol:268-328, EVMProofHelper.sol:91-128).
FetchedDecodes == request.state = "fetched" => Decoded(request) = wanted

ConstantsOf(program) ==
  UNION {{<<i, k>> : k \in {k \in DOMAIN program[i].path : ~ program[i].path[k].ref}}
         : i \in DOMAIN program}

FitsLimits ==
  /\ ~ astray
  /\ Len(wanted) <= MaxCommands
  /\ \A i \in DOMAIN wanted : Len(wanted[i].path) < WordLength
  /\ Cardinality(ConstantsOf(wanted)) <= MaxConstants

\* A request is refused exactly when it does not fit the limits, the one on
\* constants included, which no call compares with: the constant too many
\* destroys the verifier, and fetch reverts (EVMFetcher.sol:268-313).
FetchedIffFits ==
  /\ request.state = "fetched" => FitsLimits
  /\ request.state = "reverted" => ~ FitsLimits

=============================================================================
