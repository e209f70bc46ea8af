---------------------------- MODULE EntityRecords ----------------------------
(***************************************************************************)
(* The MongoDB collection EntityResolverRecord of the database gateway     *)
(* (gateway/src/models/entityResolverRecord.js) and the operators with     *)
(* which gateway/src/repositories/mongo.ts reads and changes it.           *)
(*                                                                         *)
(* A collection is a sequence of documents in insertion order, the order   *)
(* in which findOne scans it.  A document belongs to a node (its nodeHash) *)
(* and is either registered (it has the LEI and LEIHash that are computed  *)
(* from its nodeHash) or a stub that the ownership check inserted and that *)
(* has neither.  keccak256 of the JSON text of a record is modelled by     *)
(* what it distinguishes: the values of the fields, whether LEI is there,  *)
(* and the one field (if any) that stands out of alphabetical order.       *)
(***************************************************************************)
EXTENDS Integers, Sequences

CONSTANTS
  Nodes,       \* nodeHash values
  Fields,      \* the fields a call can change: texts, address, owner, ...
  FieldOrder,  \* position of a field name in JavaScript's sort() order,
               \*   relative to "nodeHash", which every document has, at 0
  Values,      \* what a field can hold
  Absent,      \* the field is not in the document
  InOrder      \* no field stands out of alphabetical order in a hashed text

Content == [Fields -> Values \cup {Absent}]

ASSUME RecordAssumption ==
  /\ Nodes # {} /\ "owner" \in Fields
  /\ FieldOrder \in [Fields -> Int \ {0}]
  /\ \A f, g \in Fields : FieldOrder[f] = FieldOrder[g] => f = g
  /\ Absent \notin Values /\ Absent \notin Content
  /\ InOrder \notin Fields

Hash == [registered : BOOLEAN, fields : Content, last : Fields \cup {InOrder}]

NoHash == [registered |-> FALSE, fields |-> [f \in Fields |-> Absent],
           last |-> InOrder]

Document == [node : Nodes, registered : BOOLEAN, fields : Content, hash : Hash]

(***************************************************************************)
(* findOne({ nodeHash }) and findOneAndUpdate: the first document wins.    *)
(***************************************************************************)
Matches(docs, n) == {i \in 1..Len(docs) : docs[i].node = n}

Exists(docs, n) == Matches(docs, n) # {}

First(docs, n) ==
  CHOOSE i \in Matches(docs, n) : \A j \in Matches(docs, n) : i <= j

FindOne(docs, n) == docs[First(docs, n)]

(***************************************************************************)
(* fetchAndPrepareRecord sorts the names; hashing its result gives this.   *)
(***************************************************************************)
HashOf(d) ==
  [registered |-> d.registered, fields |-> d.fields, last |-> InOrder]

(***************************************************************************)
(* setText hashes the sorted record after recordObj[key] = value: a name   *)
(* that was not there is appended, whatever its place in the order.        *)
(***************************************************************************)
SortsLast(d, f) ==
  /\ FieldOrder[f] > 0
  /\ \A g \in Fields : d.fields[g] # Absent => FieldOrder[g] <= FieldOrder[f]

HashWith(d, f, v) ==
  [registered |-> d.registered,
   fields |-> [d.fields EXCEPT ![f] = v],
   last |-> IF d.fields[f] # Absent \/ SortsLast(d, f) THEN InOrder ELSE f]

(***************************************************************************)
(* The unique indexes on LEI and LEIHash: one registered document per node *)
(* and, as a missing LEI is indexed as null, one stub in the collection.   *)
(***************************************************************************)
\* Mutant of Accepts: the index is not unique
AcceptsAnything(docs, d) == d.node \in Nodes

Accepts(docs, d) ==
  \A i \in 1..Len(docs) :
    ~ (docs[i].registered = d.registered /\ (d.registered => docs[i].node = d.node))

Stub(n, owner) ==
  [node |-> n, registered |-> FALSE,
   fields |-> [f \in Fields |-> IF f = "owner" THEN owner ELSE Absent],
   hash |-> NoHash]

Entity(n, f, v) ==
  LET d == [node |-> n, registered |-> TRUE,
            fields |-> [g \in Fields |-> IF g = f THEN v ELSE Absent],
            hash |-> NoHash]
  IN  [d EXCEPT !.hash = HashOf(d)]

UpdateField(docs, n, f, v) ==
  [docs EXCEPT ![First(docs, n)].fields[f] = v]

UpdateHash(docs, n, h) == [docs EXCEPT ![First(docs, n)].hash = h]

=============================================================================
