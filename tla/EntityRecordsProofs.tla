-------------------------- MODULE EntityRecordsProofs --------------------------
(***************************************************************************)
(* What the operators of EntityRecords return and preserve, for every      *)
(* collection.                                                             *)
(***************************************************************************)
EXTENDS EntityRecords, WellFoundedInduction, TLAPS

\* A set of positions has a first one.
LEMMA LeastExists ==
  ASSUME NEW S \in SUBSET Nat, S # {}
  PROVE  \E i \in S : \A j \in S : i <= j
<1>1. PICK i \in S : \A j \in S : ~ (<<j, i>> \in OpToRel(<, Nat))
  BY WFMin, NatLessThanWellFounded
<1>2. ASSUME NEW j \in S
      PROVE  i <= j
  <2>1. ~ (j < i)
    BY <1>1 DEF OpToRel
  <2> QED BY <2>1
<1> QED BY <1>2

\* findOne returns a document of the node, and none of the node is older.
LEMMA FirstProperties ==
  ASSUME NEW docs \in Seq(Document), NEW n, Exists(docs, n)
  PROVE  /\ First(docs, n) \in 1..Len(docs)
         /\ docs[First(docs, n)].node = n
         /\ \A j \in 1..Len(docs) : docs[j].node = n => First(docs, n) <= j
         /\ FindOne(docs, n) \in Document
         /\ n \in Nodes
<1>0. Matches(docs, n) \in SUBSET Nat /\ Matches(docs, n) # {}
  BY DEF Matches, Exists
<1>1. \E i \in Matches(docs, n) : \A j \in Matches(docs, n) : i <= j
  BY <1>0, LeastExists
<1>2. First(docs, n) \in Matches(docs, n)
      /\ \A j \in Matches(docs, n) : First(docs, n) <= j
  BY <1>1 DEF First
<1>3. First(docs, n) \in 1..Len(docs) /\ docs[First(docs, n)].node = n
  BY <1>2 DEF Matches
<1>4. docs[First(docs, n)] \in Document
  BY <1>3
<1> QED BY <1>2, <1>3, <1>4 DEF Matches, FindOne, Document

\* The hash of a document is a hash, also after a field has been set.
LEMMA HashTypes ==
  ASSUME NEW d \in Document, NEW f \in Fields, NEW v \in Values
  PROVE  HashOf(d) \in Hash /\ HashWith(d, f, v) \in Hash
BY DEF HashOf, HashWith, Document, Hash, Content

\* The documents that the ownership check and register insert are documents.
LEMMA InsertedTypes ==
  ASSUME NEW n \in Nodes, NEW f \in Fields, NEW v \in Values
  PROVE  /\ Stub(n, v) \in Document
         /\ Stub(n, v).node = n /\ ~ Stub(n, v).registered
         /\ Stub(n, v).fields["owner"] = v
         /\ Entity(n, f, v) \in Document
         /\ Entity(n, f, v).node = n /\ Entity(n, f, v).registered
         /\ f # "owner" => Entity(n, f, v).fields["owner"] = Absent
<1>1. NoHash \in Hash
  BY DEF NoHash, Hash, Content
<1>2. /\ Stub(n, v) \in Document
      /\ Stub(n, v).node = n /\ ~ Stub(n, v).registered
      /\ Stub(n, v).fields["owner"] = v
  BY <1>1, RecordAssumption DEF Stub, Document, Content
<1>3. /\ Entity(n, f, v) \in Document
      /\ Entity(n, f, v).node = n /\ Entity(n, f, v).registered
      /\ f # "owner" => Entity(n, f, v).fields["owner"] = Absent
  BY <1>1, RecordAssumption DEF Entity, HashOf, Document, Content, Hash
<1> QED BY <1>2, <1>3

\* Setting a field keeps every document where it is, with its other fields.
LEMMA UpdateFieldProperties ==
  ASSUME NEW docs \in Seq(Document), NEW n, Exists(docs, n),
         NEW f \in Fields, NEW v \in Values
  PROVE  LET new == UpdateField(docs, n, f, v) IN
         /\ new \in Seq(Document) /\ Len(new) = Len(docs)
         /\ \A i \in 1..Len(docs) :
              /\ new[i].node = docs[i].node
              /\ new[i].registered = docs[i].registered
              /\ \A g \in Fields :
                   new[i].fields[g] = IF g = f /\ i = First(docs, n) THEN v
                                      ELSE docs[i].fields[g]
<1> DEFINE k == First(docs, n)
           new == UpdateField(docs, n, f, v)
<1>1. k \in 1..Len(docs)
  BY FirstProperties
<1>2. docs[k] \in Document
  BY <1>1
<1>3. new = [docs EXCEPT ![k] = [docs[k] EXCEPT !.fields =
               [docs[k].fields EXCEPT ![f] = v]]]
  BY DEF UpdateField
<1>4. [docs[k] EXCEPT !.fields = [docs[k].fields EXCEPT ![f] = v]] \in Document
  BY <1>2 DEF Document, Content
<1>5. new \in Seq(Document) /\ Len(new) = Len(docs)
  BY <1>1, <1>3, <1>4
<1>6. ASSUME NEW i \in 1..Len(docs)
      PROVE  /\ new[i].node = docs[i].node
             /\ new[i].registered = docs[i].registered
             /\ \A g \in Fields : new[i].fields[g] =
                  IF g = f /\ i = k THEN v ELSE docs[i].fields[g]
  <2>1. CASE i = k
    BY <1>1, <1>2, <1>3, <2>1 DEF Document, Content
  <2>2. CASE i # k
    BY <1>1, <1>3, <2>2
  <2> QED BY <2>1, <2>2
<1> QED BY <1>5, <1>6

\* Storing a hash changes nothing else.
LEMMA UpdateHashProperties ==
  ASSUME NEW docs \in Seq(Document), NEW n, Exists(docs, n), NEW h \in Hash
  PROVE  LET new == UpdateHash(docs, n, h) IN
         /\ new \in Seq(Document) /\ Len(new) = Len(docs)
         /\ \A i \in 1..Len(docs) :
              /\ new[i].node = docs[i].node
              /\ new[i].registered = docs[i].registered
              /\ new[i].fields = docs[i].fields
<1> DEFINE k == First(docs, n)
           new == UpdateHash(docs, n, h)
<1>1. k \in 1..Len(docs)
  BY FirstProperties
<1>2. docs[k] \in Document
  BY <1>1
<1>3. new = [docs EXCEPT ![k] = [docs[k] EXCEPT !.hash = h]]
  BY DEF UpdateHash
<1>4. [docs[k] EXCEPT !.hash = h] \in Document
  BY <1>2 DEF Document
<1>5. new \in Seq(Document) /\ Len(new) = Len(docs)
  BY <1>1, <1>3, <1>4
<1>6. ASSUME NEW i \in 1..Len(docs)
      PROVE  /\ new[i].node = docs[i].node
             /\ new[i].registered = docs[i].registered
             /\ new[i].fields = docs[i].fields
  BY <1>1, <1>2, <1>3 DEF Document
<1> QED BY <1>5, <1>6

\* A collection keeps the documents of another: no update moves or removes one.
Keeps(docs, new) ==
  /\ Len(docs) <= Len(new)
  /\ \A i \in 1..Len(docs) : new[i].node = docs[i].node

\* What exists goes on existing.
LEMMA KeepsExists ==
  ASSUME NEW docs \in Seq(Document), NEW new \in Seq(Document),
         Keeps(docs, new), NEW n, Exists(docs, n)
  PROVE  Exists(new, n)
<1>1. PICK i \in 1..Len(docs) : docs[i].node = n
  BY DEF Exists, Matches
<1>2. i \in 1..Len(new) /\ new[i].node = n
  BY <1>1 DEF Keeps
<1> QED BY <1>2 DEF Exists, Matches

\* The updates of the collection keep its records.
LEMMA UpdatesKeep ==
  ASSUME NEW docs \in Seq(Document)
  PROVE  /\ \A n \in Nodes, f \in Fields, v \in Values : Exists(docs, n) =>
              /\ UpdateField(docs, n, f, v) \in Seq(Document)
              /\ Keeps(docs, UpdateField(docs, n, f, v))
         /\ \A n \in Nodes, h \in Hash : Exists(docs, n) =>
              /\ UpdateHash(docs, n, h) \in Seq(Document)
              /\ Keeps(docs, UpdateHash(docs, n, h))
         /\ \A d \in Document : /\ Append(docs, d) \in Seq(Document)
                                /\ Keeps(docs, Append(docs, d))
<1>1. ASSUME NEW n \in Nodes, NEW f \in Fields, NEW v \in Values, Exists(docs, n)
      PROVE  /\ UpdateField(docs, n, f, v) \in Seq(Document)
             /\ Keeps(docs, UpdateField(docs, n, f, v))
  BY <1>1, UpdateFieldProperties DEF Keeps
<1>2. ASSUME NEW n \in Nodes, NEW h \in Hash, Exists(docs, n)
      PROVE  /\ UpdateHash(docs, n, h) \in Seq(Document)
             /\ Keeps(docs, UpdateHash(docs, n, h))
  BY <1>2, UpdateHashProperties DEF Keeps
<1>3. ASSUME NEW d \in Document
      PROVE  Append(docs, d) \in Seq(Document) /\ Keeps(docs, Append(docs, d))
  BY <1>3 DEF Keeps
<1> QED BY <1>1, <1>2, <1>3

\* Which document of a node is the first depends on the nodes alone.
LEMMA SameFirst ==
  ASSUME NEW docs \in Seq(Document), NEW new \in Seq(Document),
         Len(new) = Len(docs),
         \A i \in 1..Len(docs) : new[i].node = docs[i].node
  PROVE  \A n : First(new, n) = First(docs, n) /\ (Exists(new, n) <=> Exists(docs, n))
<1>1. \A n : Matches(new, n) = Matches(docs, n)
  BY DEF Matches
<1> QED BY <1>1 DEF First, Exists

\* A document that is appended is the first of its node, or goes unseen.
LEMMA AppendFirst ==
  ASSUME NEW docs \in Seq(Document), NEW d \in Document, NEW n \in Nodes
  PROVE  LET new == Append(docs, d) IN
         /\ Exists(new, n) <=> Exists(docs, n) \/ n = d.node
         /\ Exists(docs, n) => FindOne(new, n) = FindOne(docs, n)
         /\ ~ Exists(docs, n) /\ n = d.node => FindOne(new, n) = d
<1> DEFINE new == Append(docs, d)
<1>1. /\ new \in Seq(Document) /\ Len(new) = Len(docs) + 1 /\ Len(docs) \in Nat
      /\ new[Len(docs) + 1] = d /\ \A i \in 1..Len(docs) : new[i] = docs[i]
  OBVIOUS
<1> HIDE DEF new
<1>2. /\ \A i \in 1..Len(docs) : i \in Matches(new, n) <=> i \in Matches(docs, n)
      /\ Len(docs) + 1 \in Matches(new, n) <=> n = d.node
      /\ Matches(docs, n) \subseteq 1..Len(docs)
      /\ Matches(new, n) \subseteq 1..(Len(docs) + 1)
  BY <1>1 DEF Matches
<1>3. Exists(new, n) <=> Exists(docs, n) \/ n = d.node
  BY <1>1, <1>2 DEF Exists
<1>4. ASSUME Exists(docs, n) PROVE FindOne(new, n) = FindOne(docs, n)
  <2>1. /\ First(docs, n) \in 1..Len(docs) /\ docs[First(docs, n)].node = n
        /\ \A j \in 1..Len(docs) : docs[j].node = n => First(docs, n) <= j
    BY <1>4, FirstProperties
  <2>2. /\ First(new, n) \in 1..Len(new) /\ new[First(new, n)].node = n
        /\ \A j \in 1..Len(new) : new[j].node = n => First(new, n) <= j
    BY <1>1, <1>3, <1>4, FirstProperties
  <2>3. First(new, n) <= First(docs, n)
    BY <1>1, <2>1, <2>2
  <2>4. First(new, n) \in 1..Len(docs)
    BY <1>1, <2>1, <2>2, <2>3
  <2>5. First(docs, n) <= First(new, n)
    BY <1>1, <2>1, <2>2, <2>4
  <2>6. First(new, n) = First(docs, n)
    BY <2>1, <2>3, <2>4, <2>5
  <2> QED BY <1>1, <2>1, <2>6 DEF FindOne
<1>5. ASSUME ~ Exists(docs, n), n = d.node PROVE FindOne(new, n) = d
  <2>1. First(new, n) \in 1..Len(new) /\ new[First(new, n)].node = n
    BY <1>1, <1>3, <1>5, FirstProperties
  <2>2. First(new, n) \notin 1..Len(docs)
    BY <1>1, <1>5, <2>1 DEF Exists, Matches
  <2> QED BY <1>1, <2>1, <2>2 DEF FindOne
<1> QED BY <1>3, <1>4, <1>5 DEF new

\* The record whose hash is stored has that hash.
LEMMA UpdateHashStores ==
  ASSUME NEW docs \in Seq(Document), NEW n, Exists(docs, n), NEW h \in Hash
  PROVE  FindOne(UpdateHash(docs, n, h), n).hash = h
<1> DEFINE new == UpdateHash(docs, n, h)
<1>1. First(docs, n) \in 1..Len(docs) /\ FindOne(docs, n) \in Document
  BY FirstProperties
<1>2. new \in Seq(Document) /\ First(new, n) = First(docs, n)
  BY UpdateHashProperties, SameFirst
<1>3. new[First(docs, n)] = [FindOne(docs, n) EXCEPT !.hash = h]
  BY <1>1 DEF UpdateHash, FindOne
<1> QED BY <1>1, <1>2, <1>3 DEF FindOne, Document

-----------------------------------------------------------------------------
(* What readers see of a collection *)

View(docs) ==
  [n \in Nodes |-> IF Exists(docs, n) THEN FindOne(docs, n).fields ELSE Absent]

\* A node has a record for its readers if it has a document.
LEMMA ViewOf ==
  ASSUME NEW docs \in Seq(Document), NEW n \in Nodes
  PROVE  /\ Exists(docs, n) => View(docs)[n] \in Content /\ View(docs)[n] # Absent
         /\ ~ Exists(docs, n) => View(docs)[n] = Absent
<1>1. Exists(docs, n) => FindOne(docs, n).fields \in Content
  BY FirstProperties DEF Document
<1> QED BY <1>1, RecordAssumption DEF View

\* Readers see no difference between collections with the same fields.
LEMMA ViewSame ==
  ASSUME NEW docs \in Seq(Document), NEW new \in Seq(Document), Len(new) = Len(docs),
         \A i \in 1..Len(docs) :
           new[i].node = docs[i].node /\ new[i].fields = docs[i].fields
  PROVE  View(new) = View(docs)
<1>1. ASSUME NEW n \in Nodes
      PROVE  /\ Exists(new, n) <=> Exists(docs, n)
             /\ Exists(docs, n) => FindOne(new, n).fields = FindOne(docs, n).fields
  <2>1. First(new, n) = First(docs, n) /\ (Exists(new, n) <=> Exists(docs, n))
    BY SameFirst
  <2>2. Exists(docs, n) => First(docs, n) \in 1..Len(docs)
    BY FirstProperties
  <2> QED BY <2>1, <2>2 DEF FindOne
<1> QED BY <1>1 DEF View

\* Readers of a node see the update of its field, other readers nothing.
LEMMA ViewUpdate ==
  ASSUME NEW docs \in Seq(Document), NEW n \in Nodes, Exists(docs, n),
         NEW f \in Fields, NEW v \in Values
  PROVE  View(UpdateField(docs, n, f, v)) = [View(docs) EXCEPT ![n][f] = v]
<1> DEFINE new == UpdateField(docs, n, f, v)
<1>1. /\ new \in Seq(Document) /\ Len(new) = Len(docs)
      /\ \A i \in 1..Len(docs) :
           /\ new[i].node = docs[i].node
           /\ \A g \in Fields : new[i].fields[g] =
                IF g = f /\ i = First(docs, n) THEN v ELSE docs[i].fields[g]
  BY UpdateFieldProperties
<1> HIDE DEF new
<1>2. \A m : First(new, m) = First(docs, m) /\ (Exists(new, m) <=> Exists(docs, m))
  BY <1>1, SameFirst
<1>3. ASSUME NEW m \in Nodes, Exists(docs, m)
      PROVE  /\ First(docs, m) \in 1..Len(docs) /\ docs[First(docs, m)].node = m
             /\ docs[First(docs, m)].fields \in Content
             /\ new[First(docs, m)].fields \in Content
             /\ FindOne(new, m).fields = new[First(docs, m)].fields
             /\ FindOne(docs, m).fields = docs[First(docs, m)].fields
  <2>1. First(docs, m) \in 1..Len(docs) /\ docs[First(docs, m)].node = m
    BY <1>3, FirstProperties
  <2>2. docs[First(docs, m)] \in Document /\ new[First(docs, m)] \in Document
    BY <1>1, <2>1
  <2> QED BY <1>2, <2>1, <2>2 DEF Document, FindOne
<1>4. FindOne(new, n).fields = [FindOne(docs, n).fields EXCEPT ![f] = v]
  <2>1. \A g \in Fields : FindOne(new, n).fields[g] =
          IF g = f THEN v ELSE FindOne(docs, n).fields[g]
    BY <1>1, <1>3
  <2>2. /\ FindOne(new, n).fields \in [Fields -> Values \cup {Absent}]
        /\ FindOne(docs, n).fields \in [Fields -> Values \cup {Absent}]
    BY <1>3 DEF Content
  <2> QED BY <2>1, <2>2
<1>5. ASSUME NEW m \in Nodes, Exists(docs, m), m # n
      PROVE  FindOne(new, m).fields = FindOne(docs, m).fields
  <2>1. First(docs, m) # First(docs, n)
    BY <1>3, <1>5
  <2>2. \A g \in Fields : FindOne(new, m).fields[g] = FindOne(docs, m).fields[g]
    BY <1>1, <1>3, <1>5, <2>1
  <2>3. /\ FindOne(new, m).fields \in [Fields -> Values \cup {Absent}]
        /\ FindOne(docs, m).fields \in [Fields -> Values \cup {Absent}]
    BY <1>3, <1>5 DEF Content
  <2> QED BY <2>2, <2>3
<1>6. View(docs)[n] = FindOne(docs, n).fields
  BY DEF View
<1>7. ASSUME NEW m \in Nodes
      PROVE  View(new)[m] = IF m = n THEN [View(docs)[n] EXCEPT ![f] = v] ELSE View(docs)[m]
  <2>1. CASE m = n
    BY <1>2, <1>4, <1>6, <2>1 DEF View
  <2>2. CASE m # n
    BY <1>2, <1>5, <2>2 DEF View
  <2> QED BY <2>1, <2>2
<1>8. View(new) = [m \in Nodes |->
        IF m = n THEN [View(docs)[n] EXCEPT ![f] = v] ELSE View(docs)[m]]
  BY <1>7 DEF View
<1> QED BY <1>8 DEF View, new

\* A document that is appended is seen if its node had none.
LEMMA ViewAppend ==
  ASSUME NEW docs \in Seq(Document), NEW d \in Document
  PROVE  View(Append(docs, d)) =
           IF Exists(docs, d.node) THEN View(docs)
           ELSE [View(docs) EXCEPT ![d.node] = d.fields]
<1> DEFINE new == Append(docs, d)
<1>1. ASSUME NEW n \in Nodes
      PROVE  /\ Exists(new, n) <=> Exists(docs, n) \/ n = d.node
             /\ Exists(docs, n) => FindOne(new, n) = FindOne(docs, n)
             /\ ~ Exists(docs, n) /\ n = d.node => FindOne(new, n) = d
  BY AppendFirst
<1> HIDE DEF new
<1>2. d.node \in Nodes
  BY DEF Document
<1>3. CASE Exists(docs, d.node)
  <2>1. \A n \in Nodes : View(new)[n] = View(docs)[n]
    BY <1>1, <1>3 DEF View
  <2>2. View(new) = [n \in Nodes |-> View(new)[n]] /\ View(docs) = [n \in Nodes |-> View(docs)[n]]
    BY DEF View
  <2>3. View(new) = View(docs)
    BY <2>1, <2>2
  <2> QED BY <1>3, <2>3 DEF new
<1>4. CASE ~ Exists(docs, d.node)
  <2>1. \A n \in Nodes : View(new)[n] = IF n = d.node THEN d.fields ELSE View(docs)[n]
    BY <1>1, <1>4 DEF View
  <2>2. View(new) = [n \in Nodes |-> IF n = d.node THEN d.fields ELSE View(docs)[n]]
    BY <2>1 DEF View
  <2>3. View(new) = [View(docs) EXCEPT ![d.node] = d.fields]
    BY <2>2 DEF View
  <2> QED BY <1>4, <2>3 DEF new
<1> QED BY <1>3, <1>4

=============================================================================
