----------------------------- MODULE RecordStore -----------------------------
(***************************************************************************)
(* What the database gateway promises about the fields of a record: each   *)
(* call that a client makes takes effect at most once, at one instant      *)
(* between its arrival and its end, and then changes exactly the field it  *)
(* names and nothing else in the record.  Besides the calls, only the      *)
(* owner of a record is brought in line with the chain.  Hashes, replies   *)
(* and the number of documents that hold a record are of no concern here.  *)
(***************************************************************************)
CONSTANTS
  Nodes, Fields, Values, Absent,
  NoRecord,   \* value of a node that has no record
  Calls,      \* identifiers of calls
  Want        \* what a call may ask for: kind, node, field, value

VARIABLES
  record,     \* record[n]: what a reader of node n sees
  want,       \* want[c]: what call c asks for
  stage       \* stage[c]: before its arrival, under way, or over

vars == <<record, want, stage>>

Empty == [f \in Fields |-> Absent]

Init ==
  /\ record = [n \in Nodes |-> NoRecord]
  /\ want \in [Calls -> Want]
  /\ stage = [c \in Calls |-> "idle"]

Open ==
  /\ \E S \in SUBSET {c \in Calls : stage[c] = "idle"} :
       /\ stage' = [c \in Calls |-> IF c \in S THEN "open" ELSE stage[c]]
       /\ want' \in [Calls -> Want]
       /\ \A c \in Calls \ S : want'[c] = want[c]
  /\ UNCHANGED record

Close(c) == stage[c] = "open" /\ stage' = [stage EXCEPT ![c] = "over"]

\* a write of one field of an existing record
Set(c) ==
  LET w == want[c] IN
  /\ Close(c)
  /\ record[w.node] # NoRecord
  /\ \/ /\ w.kind \in {"setText", "setField"}
        /\ record' = [record EXCEPT ![w.node][w.field] = w.value]
     \/ /\ w.kind = "transfer"
        /\ \E v \in Values : record' = [record EXCEPT ![w.node]["owner"] = v]
  /\ UNCHANGED want

\* a registration creates the record, unless readers see an older one
Insert(c) ==
  LET w == want[c] IN
  /\ Close(c) /\ w.kind = "register"
  /\ record' = IF record[w.node] # NoRecord THEN record
               ELSE [record EXCEPT ![w.node] = [Empty EXCEPT ![w.field] = w.value]]
  /\ UNCHANGED want

\* calls end without effect: reads, refusals, errors, the end of the process
Drop ==
  /\ \E S \in SUBSET {c \in Calls : stage[c] = "open"} :
       stage' = [c \in Calls |-> IF c \in S THEN "over" ELSE stage[c]]
  /\ UNCHANGED <<record, want>>

\* the owner is recorded for a node that some call has been about
Sync ==
  /\ \E c \in Calls, v \in Values :
       /\ stage[c] # "idle"
       /\ LET n == want[c].node
              old == IF record[n] = NoRecord THEN Empty ELSE record[n]
          IN  record' = [record EXCEPT ![n] = [old EXCEPT !["owner"] = v]]
  /\ UNCHANGED <<want, stage>>

Next == Open \/ Drop \/ Sync \/ \E c \in Calls : Set(c) \/ Insert(c)

Spec == Init /\ [][Next]_vars

=============================================================================
