------------------------- MODULE MetadataStoreProofs -------------------------
(***************************************************************************)
(* What MetadataStore promises, for every set of nodes, keys, calls and    *)
(* queries: the invariants that its run checks on a small instance.        *)
(*                                                                         *)
(* They rest on three observations.  A record that no setter has touched   *)
(* was inserted by the one register call that inserted the domain of its   *)
(* node (Inserts, Origin, OneRegistrar); that call inserts table by table, *)
(* so that a record of a later table implies the earlier ones (Prefix);    *)
(* and such a record never changes, so that what a query has read stays    *)
(* true until it is answered (ReadPrefix, ReadOrigin).                     *)
(***************************************************************************)
EXTENDS MetadataStore, FiniteSetTheorems, TLAPS

Rows == {{}} \cup {{row} : row \in Row}
JobPc == Tables \cup {"idle", "domain", "write", "ok", "error"}
QueryPc == {"idle", "domain", "resolver", "expiry", "subdomains", "texts", "addresses",
            "owner", "answered", "hidden", "failed"}
QueryState ==
  [pc : QueryPc, node : Nodes \cup {NoNode}, row : Rows, shows : SUBSET Shown,
   owner : Accounts \cup {NoAccount}]
DoubleState == [domains : [Nodes -> Rows], records : [Nodes -> Contents]]

Typed ==
  /\ domains \in [Nodes -> Rows] /\ records \in [Nodes -> Contents]
  /\ registry \in [Nodes -> Row]
  /\ script \in [Jobs -> Scripts \cup {NoScript}] /\ job \in [Jobs -> JobPc]
  /\ query \in [Queries -> QueryState]
  /\ faults \in 0..MaxFaults /\ moves \in 0..MaxMoves
  /\ double \in DoubleState
  /\ overwritten \subseteq Nodes \X Field /\ inserted \subseteq Jobs /\ tested \in BOOLEAN

\* a query knows its node once it is asked
Asked == \A q \in Queries : query[q].pc \notin {"idle", "failed"} => query[q].node \in Nodes

\* what a call has to do agrees with the statement it has reached
Scripted ==
  \A j \in Jobs :
    /\ job[j] # "idle" => script[j] \in Scripts
    /\ job[j] \in Tables \cup {"domain"} => script[j].op = "register"
    /\ job[j] = "write" => script[j].op \in {"set", "transfer"}
    /\ script[j].op = "register" /\ job[j] \in Tables \cup {"ok"} => j \in inserted
    /\ j \in inserted => script[j].op = "register" /\ job[j] \notin {"idle", "domain"}

\* the domain of a registration stays, and no other call inserts it
OneRegistrar ==
  /\ \A j \in inserted : domains[script[j].node] # {}
  /\ \A j, k \in inserted : script[j].node = script[k].node => j = k

\* the tables whose statement is behind a call at pc
Passed(pc) ==
  IF pc = "ok" THEN Tables
  ELSE IF pc = "contenthash" THEN {"address", "text"}
  ELSE IF pc = "text" THEN {"address"}
  ELSE {}

\* records of the tables that a registration is past are there
Inserts ==
  \A j \in inserted, f \in Field :
    /\ script[j].records[f] # NoValue /\ f.table \in Passed(job[j])
    /\ <<script[j].node, f>> \notin overwritten
    => records[script[j].node][f] = script[j].records[f]

\* only a registration writes what no setter has written
Origin ==
  \A n \in Nodes, f \in Field :
    records[n][f] # NoValue /\ <<n, f>> \notin overwritten => domains[n] # {}

Untouched(n, f, g) == <<n, f>> \notin overwritten /\ <<n, g>> \notin overwritten

\* the tables hold a registration up to one of its statements
Prefix ==
  \A j \in inserted, f, g \in Field :
    /\ Earlier(f, g) /\ script[j].records[f] # NoValue
    /\ Untouched(script[j].node, f, g)
    /\ records[script[j].node][g] # NoValue
    => records[script[j].node][f] = script[j].records[f]

\* what an answer shows of a node that is not registered, a setter has written
OriginOf(answer) ==
  \A n \in Nodes, f \in Field, v \in Values :
    <<n, f, v>> \in answer.shows /\ <<n, f>> \notin overwritten => domains[n] # {}

\* an answer shows prefixes, but for the addresses that are about to be read
PrefixOf(answer) ==
  \A j \in inserted, f, g \in Field :
    LET s == script[j] IN
    /\ Earlier(f, g) /\ s.records[f] \notin {NoValue, Empty, Null}
    /\ Untouched(s.node, f, g)
    /\ <<s.node, g, s.records[g]>> \in answer.shows
    => \/ <<s.node, f, s.records[f]>> \in answer.shows
       \/ /\ answer.pc = "addresses" /\ answer.node = s.node
          /\ f.table = "address" /\ records[s.node][f] = s.records[f]

ReadOrigin == \A q \in Queries : OriginOf(query[q])
ReadPrefix == \A q \in Queries : PrefixOf(query[q])

\* the effects so far of a registration at pc
Done(s, pc, n, f) ==
  n = s.node /\ s.records[f] # NoValue /\ f.table \in Passed(pc)

\* as long as calls run one by one, the tables are those of the in-memory
\* repository and the effects so far of the call that runs
Alike ==
  tested =>
    /\ \A j, k \in Jobs : Busy(j) /\ Busy(k) => j = k
    /\ \A j \in Jobs : Busy(j) =>
         LET s == script[j] IN
         /\ domains = IF job[j] \in Tables THEN [double.domains EXCEPT ![s.node] = {s.row}]
                      ELSE double.domains
         /\ \A n \in Nodes, f \in Field : f.table # "contenthash" =>
              records[n][f] = IF job[j] \in Tables /\ Done(s, job[j], n, f) THEN s.records[f]
                              ELSE double.records[n][f]
    /\ (\A j \in Jobs : ~ Busy(j)) =>
         /\ domains = double.domains
         /\ \A n \in Nodes, f \in Field : f.table # "contenthash" =>
              records[n][f] = double.records[n][f]

IInv ==
  /\ Typed /\ Asked /\ Scripted /\ OneRegistrar /\ Inserts /\ Origin /\ Prefix
  /\ ReadOrigin /\ ReadPrefix /\ Alike

-----------------------------------------------------------------------------
(* The operators *)

LEMMA Kinds ==
  ASSUME NEW s \in Scripts
  PROVE  /\ s.op \in {"register", "set", "transfer"} /\ s.node \in Nodes
         /\ s.op = "register" => s.row \in Row /\ s.records \in Contents
         /\ s.op = "set" => s.field \in Field /\ s.value \in Values
         /\ s.op = "transfer" => s.owner \in Accounts
<1>1. s \in Registration \cup Setting \cup Transfer
  BY StoreAssumption
<1>2. QED BY <1>1 DEF Registration, Setting, Transfer

LEMMA Columns ==
  ASSUME NEW f \in Field
  PROVE  f.table \in Tables
BY DEF Field, Tables

LEMMA Changed ==
  ASSUME NEW j \in Jobs, NEW pc, job \in [Jobs -> JobPc], job' = [job EXCEPT ![j] = pc]
  PROVE  job'[j] = pc /\ \A k \in Jobs \ {j} : job'[k] = job[k]
OBVIOUS

\* where register is after a table, and what it has then passed
LEMMA AfterPasses ==
  ASSUME NEW j \in Jobs, NEW table \in Tables \cup {"domain"}
  PROVE  /\ After(j, table) \in Tables \cup {"ok"}
         /\ \A f \in Field : script[j].records[f] # NoValue =>
              (f.table \in Passed(After(j, table)) <=> f.table \in Passed(table) \cup {table})
<1> DEFINE pc == After(j, table)
<1>1. pc \in Tables \cup {"ok"}
  BY DEF After, Tables
<1>2. ASSUME NEW f \in Field, script[j].records[f] # NoValue
      PROVE  f.table \in Passed(pc) <=> f.table \in Passed(table) \cup {table}
  <2>1. f \in New(j, f.table)
    BY <1>2 DEF New, Of
  <2>2. f.table \in {"address", "text", "contenthash"}
    BY Columns DEF Tables
  <2>3. CASE table = "domain"
    BY <2>1, <2>2, <2>3 DEF After, Passed, Tables
  <2>4. CASE table = "address"
    BY <2>1, <2>2, <2>4 DEF After, Passed, Tables
  <2>5. CASE table = "text"
    BY <2>1, <2>2, <2>5 DEF After, Passed, Tables
  <2>6. CASE table = "contenthash"
    BY <2>1, <2>2, <2>6 DEF After, Passed, Tables
  <2>7. QED BY <2>3, <2>4, <2>5, <2>6 DEF Tables
<1>3. QED BY <1>1, <1>2

LEMMA Ordered ==
  ASSUME NEW f \in Field, NEW g \in Field, Earlier(f, g)
  PROVE  f.table \in Passed(g.table) /\ f.table # g.table
BY Columns DEF Earlier, Passed, Tables

-----------------------------------------------------------------------------
(* The effects of a statement, by what they do to the tables *)

InsertsDomain(j, pc) ==
  /\ job[j] = "domain" /\ pc \in {After(j, "domain"), "error"}
  /\ domains[script[j].node] = {}
  /\ domains' = [domains EXCEPT ![script[j].node] = {script[j].row}]
  /\ inserted' = inserted \cup {j}
  /\ UNCHANGED <<records, overwritten>>

InsertsTable(j, pc, table) ==
  /\ job[j] = table /\ pc \in {After(j, table), "error"}
  /\ \A f \in New(j, table) : records[script[j].node][f] = NoValue
  /\ records' = Inserted(j, table)
  /\ UNCHANGED <<domains, inserted, overwritten>>

Sets(j, pc) ==
  /\ job[j] = "write" /\ script[j].op = "set" /\ pc \in {"ok", "error"}
  /\ \/ records' = [records EXCEPT ![script[j].node][script[j].field] = script[j].value]
     \/ pc = "error" /\ UNCHANGED records
  /\ overwritten' = overwritten \cup {<<script[j].node, script[j].field>>}
  /\ UNCHANGED <<domains, inserted>>

Transfers(j, pc) ==
  /\ job[j] = "write" /\ script[j].op = "transfer" /\ pc \in {"ok", "error"}
  /\ domains' = [domains EXCEPT ![script[j].node] = {[row EXCEPT !.owner = script[j].owner] : row \in @}]
  /\ UNCHANGED <<records, inserted, overwritten>>

Fails(j, pc) ==
  /\ Busy(j) /\ pc = "error" /\ UNCHANGED <<tables, inserted, overwritten>>

Effect(j, pc) ==
  \/ InsertsDomain(j, pc) \/ Sets(j, pc) \/ Transfers(j, pc) \/ Fails(j, pc)
  \/ \E table \in Tables : InsertsTable(j, pc, table)

\* and what it does besides
Ending(j, pc) ==
  /\ job' = [job EXCEPT ![j] = pc]
  /\ double' = IF pc = "ok" THEN DoubleAfter(double, script[j]) ELSE double
  /\ tested' = (tested /\ pc # "error")
  /\ faults' \in 0..MaxFaults
  /\ UNCHANGED <<script, query, registry, moves>>

\* the twin of the call in the in-memory repository, and the counter of faults
LEMMA EndingCases ==
  ASSUME Typed, NEW j \in Jobs, NEW next \in Tables \cup {"ok"}, NEW pc,
         UNCHANGED <<script, query, registry, moves>>,
         \/ pc = next /\ NoFault /\ Proceeds(j, next)
         \/ pc = "error" /\ (NoFault \/ Fault) /\ Ends(j, "error")
  PROVE  Ending(j, pc)
<1>1. faults' \in 0..MaxFaults
  BY StoreAssumption DEF NoFault, Fault, Typed
<1>2. next # "error"
  BY DEF Tables
<1>3. tested \in BOOLEAN
  BY DEF Typed
<1>4. CASE pc = next /\ Proceeds(j, next)
  <2>1. job' = [job EXCEPT ![j] = pc]
    BY <1>4 DEF Proceeds, Ends
  <2>2. double' = IF pc = "ok" THEN DoubleAfter(double, script[j]) ELSE double
    BY <1>4 DEF Proceeds, Ends
  <2>3. tested' = (tested /\ pc # "error")
    BY <1>2, <1>3, <1>4 DEF Proceeds, Ends
  <2>4. QED BY <1>1, <2>1, <2>2, <2>3 DEF Ending
<1>5. CASE pc = "error" /\ Ends(j, "error")
  BY <1>1, <1>3, <1>5 DEF Ends, Ending
<1>6. QED BY <1>4, <1>5

LEMMA DomainEffect ==
  ASSUME Typed, Scripted, NEW j \in Jobs, InsertDomain(j)
  PROVE  \E pc : Ending(j, pc) /\ (InsertsDomain(j, pc) \/ Fails(j, pc))
<1> DEFINE next == After(j, "domain")
<1>1. UNCHANGED <<script, query, registry, moves, records, overwritten>> /\ job[j] = "domain"
  BY DEF InsertDomain
<1>2. next \in Tables \cup {"ok"}
  BY AfterPasses
<1>3. Busy(j)
  BY <1>1 DEF Busy
<1>4. CASE /\ domains[script[j].node] = {} /\ NoFault /\ Proceeds(j, next)
           /\ domains' = [domains EXCEPT ![script[j].node] = {script[j].row}]
           /\ inserted' = inserted \cup {j}
  <2>1. Ending(j, next)
    BY <1>1, <1>2, <1>4, EndingCases
  <2>2. QED BY <1>1, <1>4, <2>1 DEF InsertsDomain
<1>5. CASE /\ domains[script[j].node] = {} /\ Fault /\ Ends(j, "error")
           /\ domains' = [domains EXCEPT ![script[j].node] = {script[j].row}]
           /\ inserted' = inserted \cup {j}
  <2>1. Ending(j, "error")
    BY <1>1, <1>2, <1>5, EndingCases
  <2>2. QED BY <1>1, <1>5, <2>1 DEF InsertsDomain
<1>6. CASE (NoFault \/ Fault) /\ Ends(j, "error") /\ UNCHANGED <<domains, inserted>>
  <2>1. Ending(j, "error")
    BY <1>1, <1>2, <1>6, EndingCases
  <2>2. QED BY <1>1, <1>3, <1>6, <2>1 DEF Fails, tables
<1>7. QED BY <1>4, <1>5, <1>6 DEF InsertDomain, Statement

LEMMA TableEffect ==
  ASSUME Typed, Scripted, NEW j \in Jobs, NEW table \in Tables, InsertRecords(j, table)
  PROVE  \E pc : Ending(j, pc) /\ (InsertsTable(j, pc, table) \/ Fails(j, pc))
<1> DEFINE next == After(j, table)
           free == \A f \in New(j, table) : records[script[j].node][f] = NoValue
<1>1. UNCHANGED <<script, query, registry, moves, domains, overwritten, inserted>> /\ job[j] = table
  BY DEF InsertRecords
<1>2. next \in Tables \cup {"ok"}
  BY AfterPasses
<1>3. Busy(j)
  BY <1>1 DEF Busy, Tables
<1>4. CASE free /\ NoFault /\ Proceeds(j, next) /\ records' = Inserted(j, table)
  <2>1. Ending(j, next)
    BY <1>1, <1>2, <1>4, EndingCases
  <2>2. QED BY <1>1, <1>4, <2>1 DEF InsertsTable
<1>5. CASE free /\ Fault /\ Ends(j, "error") /\ records' = Inserted(j, table)
  <2>1. Ending(j, "error")
    BY <1>1, <1>2, <1>5, EndingCases
  <2>2. QED BY <1>1, <1>5, <2>1 DEF InsertsTable
<1>6. CASE (NoFault \/ Fault) /\ Ends(j, "error") /\ UNCHANGED records
  <2>1. Ending(j, "error")
    BY <1>1, <1>2, <1>6, EndingCases
  <2>2. QED BY <1>1, <1>3, <1>6, <2>1 DEF Fails, tables
<1>7. QED BY <1>4, <1>5, <1>6 DEF InsertRecords, Statement

LEMMA SetEffect ==
  ASSUME Typed, Scripted, NEW j \in Jobs, NEW table \in Tables, Upsert(j, table)
  PROVE  \E pc : Ending(j, pc) /\ Sets(j, pc)
<1> DEFINE set == records' = [records EXCEPT ![script[j].node][script[j].field] = script[j].value]
<1>1. /\ UNCHANGED <<script, query, registry, moves, domains, inserted>>
      /\ job[j] = "write" /\ script[j].op = "set"
      /\ overwritten' = overwritten \cup {<<script[j].node, script[j].field>>}
  BY DEF Upsert
<1>2. CASE set /\ NoFault /\ Proceeds(j, "ok")
  <2>1. Ending(j, "ok")
    BY <1>1, <1>2, EndingCases
  <2>2. QED BY <1>1, <1>2, <2>1 DEF Sets
<1>3. CASE (set \/ UNCHANGED records) /\ Fault /\ Ends(j, "error")
  <2>1. Ending(j, "error")
    BY <1>1, <1>3, EndingCases
  <2>2. QED BY <1>1, <1>3, <2>1 DEF Sets
<1>4. QED BY <1>2, <1>3 DEF Upsert, Statement

LEMMA TransferEffect ==
  ASSUME Typed, Scripted, NEW j \in Jobs, TransferDomain(j)
  PROVE  \E pc : Ending(j, pc) /\ (Transfers(j, pc) \/ Fails(j, pc))
<1> DEFINE moved == domains' = [domains EXCEPT ![script[j].node] =
                      {[row EXCEPT !.owner = script[j].owner] : row \in @}]
<1>1. /\ UNCHANGED <<script, query, registry, moves, records, overwritten, inserted>>
      /\ job[j] = "write" /\ script[j].op = "transfer" /\ Busy(j)
  BY DEF TransferDomain, Busy
<1>2. CASE moved /\ NoFault /\ Proceeds(j, "ok")
  <2>1. Ending(j, "ok")
    BY <1>1, <1>2, EndingCases
  <2>2. QED BY <1>1, <1>2, <2>1 DEF Transfers
<1>3. CASE moved /\ Fault /\ Ends(j, "error")
  <2>1. Ending(j, "error")
    BY <1>1, <1>3, EndingCases
  <2>2. QED BY <1>1, <1>3, <2>1 DEF Transfers
<1>4. CASE UNCHANGED domains /\ Fault /\ Ends(j, "error")
  <2>1. Ending(j, "error")
    BY <1>1, <1>4, EndingCases
  <2>2. QED BY <1>1, <1>4, <2>1 DEF Fails, tables
<1>5. QED BY <1>2, <1>3, <1>4 DEF TransferDomain, Statement

LEMMA JobStepIsEffect ==
  ASSUME Typed, Scripted, NEW j \in Jobs, JobStep(j)
  PROVE  \E pc : Ending(j, pc) /\ Effect(j, pc)
<1>1. CASE InsertDomain(j)
  BY <1>1, DomainEffect DEF Effect
<1>2. CASE TransferDomain(j)
  BY <1>2, TransferEffect DEF Effect
<1>3. CASE \E table \in Tables : Upsert(j, table)
  BY <1>3, SetEffect DEF Effect
<1>4. CASE \E table \in Tables : InsertRecords(j, table)
  BY <1>4, TableEffect DEF Effect
<1>5. QED
  BY <1>1, <1>2, <1>3, <1>4 DEF JobStep, SetContentHash, SetAddr, SetText, Tables

-----------------------------------------------------------------------------
(* Types *)

LEMMA InsertedValues ==
  ASSUME Typed, Scripted, NEW j \in Jobs, NEW table \in Tables, job[j] = table
  PROVE  /\ Inserted(j, table) \in [Nodes -> Contents]
         /\ \A n \in Nodes, f \in Field : Inserted(j, table)[n][f] =
              IF n = script[j].node /\ f \in New(j, table) THEN script[j].records[f]
              ELSE records[n][f]
<1>1. /\ script[j].node \in Nodes /\ script[j].records \in Contents
      /\ records \in [Nodes -> Contents]
  BY Kinds DEF Typed, Scripted, Tables
<1>2. QED BY <1>1 DEF Inserted, Contents

LEMMA SetTyped ==
  ASSUME Typed, NEW n \in Nodes, NEW f \in Field, NEW v \in Values
  PROVE  [records EXCEPT ![n][f] = v] \in [Nodes -> Contents]
BY DEF Typed, Contents

LEMMA TransferredRows ==
  ASSUME NEW rows \in Rows, NEW owner \in Accounts
  PROVE  /\ {[row EXCEPT !.owner = owner] : row \in rows} \in Rows
         /\ rows # {} => {[row EXCEPT !.owner = owner] : row \in rows} # {}
<1>1. CASE rows = {}
  BY <1>1 DEF Rows
<1>2. ASSUME NEW r \in Row, rows = {r}
      PROVE  {[row EXCEPT !.owner = owner] : row \in rows} = {[r EXCEPT !.owner = owner]}
  BY <1>2
<1>3. ASSUME NEW r \in Row
      PROVE  [r EXCEPT !.owner = owner] \in Row
  BY DEF Row
<1>4. QED BY <1>1, <1>2, <1>3 DEF Rows

LEMMA DoubleCases ==
  ASSUME NEW d, NEW s
  PROVE  /\ s.op = "register" => DoubleAfter(d, s) = DoubleRegistered(d, s)
         /\ s.op = "set" => DoubleAfter(d, s) = DoubleSet(d, s)
         /\ s.op = "transfer" => DoubleAfter(d, s) = DoubleTransferred(d, s)
<1>1. "register" # "set" /\ "register" # "transfer" /\ "set" # "transfer"
  OBVIOUS
<1>2. QED BY <1>1, Zenon DEF DoubleAfter

LEMMA DoubleRegisteredFields ==
  ASSUME NEW d \in DoubleState, NEW s, s.node \in Nodes, s.row \in Row, s.records \in Contents
  PROVE  LET e == DoubleRegistered(d, s) IN
         /\ e \in DoubleState
         /\ e.domains = [d.domains EXCEPT ![s.node] = {s.row}]
         /\ \A n \in Nodes, f \in Field : e.records[n][f] =
              IF n = s.node /\ s.records[f] # NoValue /\ f.table # "contenthash"
              THEN s.records[f] ELSE d.records[n][f]
<1> DEFINE new == [f \in Field |->
             IF s.records[f] = NoValue \/ f.table = "contenthash" THEN d.records[s.node][f]
             ELSE s.records[f]]
<1>1. d.domains \in [Nodes -> Rows] /\ d.records \in [Nodes -> Contents]
  BY DEF DoubleState
<1>2. new \in Contents
  BY <1>1 DEF Contents
<1>3. \A f \in Field : new[f] =
        IF s.records[f] # NoValue /\ f.table # "contenthash" THEN s.records[f]
        ELSE d.records[s.node][f]
  OBVIOUS
<1>4. [d.domains EXCEPT ![s.node] = {s.row}] \in [Nodes -> Rows]
  BY <1>1 DEF Rows
<1> DEFINE half == [d EXCEPT !.domains[s.node] = {s.row}]
<1>5. /\ half \in DoubleState
      /\ half.domains = [d.domains EXCEPT ![s.node] = {s.row}] /\ half.records = d.records
  BY <1>4 DEF DoubleState
<1>6. DoubleRegistered(d, s) = [half EXCEPT !.records[s.node] = new]
  BY DEF DoubleRegistered, DoubleState
<1> HIDE DEF half, new
<1> DEFINE whole == [half EXCEPT !.records[s.node] = new]
<1>7. /\ whole \in DoubleState /\ whole.domains = half.domains
      /\ whole.records = [half.records EXCEPT ![s.node] = new]
  BY <1>2, <1>5 DEF DoubleState
<1> HIDE DEF whole
<1>8. ASSUME NEW n \in Nodes, NEW f \in Field
      PROVE  whole.records[n][f] =
               IF n = s.node /\ s.records[f] # NoValue /\ f.table # "contenthash"
               THEN s.records[f] ELSE d.records[n][f]
  BY <1>1, <1>3, <1>5, <1>7
<1>9. QED BY <1>5, <1>6, <1>7, <1>8 DEF whole

LEMMA DoubleTyped ==
  ASSUME NEW d \in DoubleState, NEW s \in Scripts
  PROVE  DoubleAfter(d, s) \in DoubleState
<1>1. CASE s.op = "register"
  <2>1. s.node \in Nodes /\ s.row \in Row /\ s.records \in Contents
    BY <1>1, Kinds
  <2>2. DoubleRegistered(d, s) \in DoubleState
    BY <2>1, DoubleRegisteredFields
  <2>3. QED BY <1>1, <2>2, DoubleCases
<1>2. CASE s.op = "set"
  <2>1. s.node \in Nodes /\ s.field \in Field /\ s.value \in Values
    BY <1>2, Kinds
  <2>2. DoubleSet(d, s) \in DoubleState
    BY <2>1 DEF DoubleSet, DoubleState, Contents
  <2>3. QED BY <1>2, <2>2, DoubleCases
<1>3. CASE s.op = "transfer"
  <2>1. s.node \in Nodes /\ s.owner \in Accounts
    BY <1>3, Kinds
  <2>2. {[row EXCEPT !.owner = s.owner] : row \in d.domains[s.node]} \in Rows
    BY <2>1, TransferredRows DEF DoubleState
  <2>3. DoubleTransferred(d, s) \in DoubleState
    BY <2>1, <2>2 DEF DoubleTransferred, DoubleState
  <2>4. QED BY <1>3, <2>3, DoubleCases
<1>4. QED BY <1>1, <1>2, <1>3, Kinds

\* a statement leaves every table with rows of its kind
LEMMA EffectTyped ==
  ASSUME Typed, Scripted, NEW j \in Jobs, NEW pc, Ending(j, pc), Effect(j, pc)
  PROVE  Typed' /\ pc \in Tables \cup {"ok", "error"} /\ script[j] \in Scripts /\ Busy(j)
<1> DEFINE s == script[j]
<1>1. s \in Scripts /\ Busy(j)
  BY DEF Effect, InsertsDomain, InsertsTable, Sets, Transfers, Fails, Scripted, Busy, Tables
<1>2. pc \in Tables \cup {"ok", "error"}
  <2>1. After(j, "domain") \in Tables \cup {"ok"}
    BY AfterPasses
  <2>2. \A table \in Tables : After(j, table) \in Tables \cup {"ok"}
    BY AfterPasses
  <2>3. QED BY <2>1, <2>2 DEF Effect, InsertsDomain, InsertsTable, Sets, Transfers, Fails
<1>3. domains' \in [Nodes -> Rows]
  <2>1. CASE InsertsDomain(j, pc)
    <3>1. s.node \in Nodes /\ s.row \in Row
      BY <1>1, <2>1, Kinds DEF InsertsDomain, Scripted
    <3>2. QED BY <2>1, <3>1 DEF InsertsDomain, Typed, Rows
  <2>2. CASE Transfers(j, pc)
    <3>1. s.node \in Nodes /\ s.owner \in Accounts
      BY <1>1, <2>2, Kinds DEF Transfers
    <3>2. {[row EXCEPT !.owner = s.owner] : row \in domains[s.node]} \in Rows
      BY <3>1, TransferredRows DEF Typed
    <3>3. QED BY <2>2, <3>1, <3>2 DEF Transfers, Typed
  <2>3. CASE UNCHANGED domains
    BY <2>3 DEF Typed
  <2>4. QED BY <2>1, <2>2, <2>3 DEF Effect, InsertsTable, Sets, Fails, tables
<1>4. records' \in [Nodes -> Contents] /\ overwritten' \subseteq Nodes \X Field
  <2>1. ASSUME NEW table \in Tables, InsertsTable(j, pc, table)
        PROVE  records' \in [Nodes -> Contents] /\ overwritten' = overwritten
    BY <2>1, InsertedValues DEF InsertsTable
  <2>2. CASE Sets(j, pc)
    <3>1. s.node \in Nodes /\ s.field \in Field /\ s.value \in Values
      BY <1>1, <2>2, Kinds DEF Sets
    <3>2. QED BY <2>2, <3>1, SetTyped DEF Sets, Typed
  <2>3. CASE UNCHANGED <<records, overwritten>>
    BY <2>3 DEF Typed
  <2>4. QED BY <2>1, <2>2, <2>3 DEF Effect, InsertsDomain, Transfers, Fails, tables, Typed
<1>5. job' \in [Jobs -> JobPc]
  BY <1>2 DEF Ending, JobPc, Typed
<1>6. double' \in DoubleState
  BY <1>1, DoubleTyped DEF Ending, Typed
<1>7. inserted' \subseteq Jobs
  BY DEF Effect, InsertsDomain, InsertsTable, Sets, Transfers, Fails, Typed
<1>8. tested' \in BOOLEAN
  BY DEF Ending, Typed
<1>9. QED BY <1>1, <1>2, <1>3, <1>4, <1>5, <1>6, <1>7, <1>8 DEF Typed, Ending

-----------------------------------------------------------------------------
(* What stays true of the tables over every step *)

\* a domain stays, a record is changed by a setter only, and a call that
\* inserts a domain finds none
Grows ==
  /\ overwritten \subseteq overwritten' /\ inserted \subseteq inserted'
  /\ \A n \in Nodes : domains[n] # {} => domains'[n] # {}
  /\ \A n \in Nodes, f \in Field :
       records[n][f] # NoValue /\ <<n, f>> \notin overwritten' => records'[n][f] = records[n][f]
  /\ \A j \in inserted' :
       script'[j] = script[j] /\ script[j] \in Scripts /\ script[j].op = "register"
  /\ \A j \in inserted' : j \in inserted \/ domains[script[j].node] = {}

LEMMA SetsOne ==
  ASSUME Typed, NEW j \in Jobs, NEW pc, Sets(j, pc), script[j] \in Scripts
  PROVE  /\ script[j].node \in Nodes /\ script[j].field \in Field /\ script[j].value \in Values
         /\ \A n \in Nodes, f \in Field : n # script[j].node \/ f # script[j].field =>
              records'[n][f] = records[n][f]
         /\ pc = "ok" => records'[script[j].node][script[j].field] = script[j].value
<1> DEFINE s == script[j]
           new == [records EXCEPT ![s.node][s.field] = s.value]
<1>1. s.node \in Nodes /\ s.field \in Field /\ s.value \in Values
  BY Kinds DEF Sets
<1>2. \A n \in Nodes, f \in Field : new[n][f] =
        IF n = s.node /\ f = s.field THEN s.value ELSE records[n][f]
  BY <1>1 DEF Typed, Contents
<1> HIDE DEF new
<1>3. records' = new \/ (pc = "error" /\ records' = records)
  BY DEF Sets, new
<1>4. QED BY <1>1, <1>2, <1>3

LEMMA EffectGrows ==
  ASSUME Typed, Scripted, NEW j \in Jobs, NEW pc, Ending(j, pc), Effect(j, pc)
  PROVE  Grows
<1> DEFINE s == script[j]
<1>1. s \in Scripts /\ script' = script
  BY EffectTyped DEF Ending
<1>2. \A k \in inserted : script[k] \in Scripts /\ script[k].op = "register"
  BY DEF Scripted, Typed
<1>3. CASE InsertsDomain(j, pc)
  <2>1. s.node \in Nodes /\ s.op = "register" /\ domains \in [Nodes -> Rows]
    BY <1>1, <1>3, Kinds DEF InsertsDomain, Scripted, Typed
  <2>2. \A n \in Nodes : domains[n] # {} => domains'[n] # {}
    BY <1>3, <2>1 DEF InsertsDomain
  <2>3. \A k \in inserted' : k = j \/ k \in inserted
    BY <1>3 DEF InsertsDomain
  <2>4. QED BY <1>1, <1>2, <1>3, <2>1, <2>2, <2>3 DEF InsertsDomain, Grows
<1>4. ASSUME NEW table \in Tables, InsertsTable(j, pc, table)
      PROVE  Grows
  <2>1. \A n \in Nodes, f \in Field : records'[n][f] =
          IF n = s.node /\ f \in New(j, table) THEN s.records[f] ELSE records[n][f]
    BY <1>4, InsertedValues DEF InsertsTable
  <2>2. QED BY <1>1, <1>2, <1>4, <2>1 DEF InsertsTable, Grows
<1>5. CASE Sets(j, pc)
  <2>1. \A n \in Nodes, f \in Field :
          records'[n][f] = records[n][f] \/ (n = s.node /\ f = s.field)
    BY <1>1, <1>5, SetsOne
  <2>2. QED BY <1>1, <1>2, <1>5, <2>1 DEF Sets, Grows
<1>6. CASE Transfers(j, pc)
  <2>1. s.node \in Nodes /\ s.owner \in Accounts
    BY <1>1, <1>6, Kinds DEF Transfers
  <2>2. \A n \in Nodes : domains[n] # {} => domains'[n] # {}
    BY <1>6, <2>1, TransferredRows DEF Transfers, Typed
  <2>3. QED BY <1>1, <1>2, <1>6, <2>2 DEF Transfers, Grows
<1>7. CASE Fails(j, pc)
  BY <1>1, <1>2, <1>7 DEF Fails, Grows, tables
<1>8. QED BY <1>3, <1>4, <1>5, <1>6, <1>7 DEF Effect

LEMMA ArriveGrows ==
  ASSUME Typed, Scripted, NEW j \in Jobs, Arrive(j)
  PROVE  Grows
<1>1. j \notin inserted
  BY DEF Arrive, Scripted
<1>2. \A k \in inserted : script[k] \in Scripts /\ script[k].op = "register" /\ script'[k] = script[k]
  BY <1>1 DEF Arrive, Scripted, Typed
<1>3. QED BY <1>2 DEF Arrive, Grows, tables

LEMMA OthersGrow ==
  ASSUME Typed, Scripted, UNCHANGED <<tables, jobs, history>>
  PROVE  Grows
BY DEF Typed, Scripted, tables, jobs, history, Grows

-----------------------------------------------------------------------------
(* The calls that write *)

LEMMA ScriptedPreserved ==
  ASSUME Typed, Scripted, NEW j \in Jobs, NEW pc, Ending(j, pc), Effect(j, pc)
  PROVE  Scripted'
<1>1. /\ script[j] \in Scripts /\ script' = script /\ Busy(j)
      /\ pc \in Tables \cup {"ok", "error"}
  BY EffectTyped DEF Ending
<1>2. job'[j] = pc /\ \A k \in Jobs \ {j} : job'[k] = job[k]
  BY Changed DEF Typed, Ending
<1>3. inserted \subseteq inserted' /\ inserted' \subseteq inserted \cup {j}
  BY DEF Effect, InsertsDomain, InsertsTable, Sets, Transfers, Fails
<1>4. ASSUME NEW k \in Jobs, k # j
      PROVE  /\ job'[k] # "idle" => script'[k] \in Scripts
             /\ job'[k] \in Tables \cup {"domain"} => script'[k].op = "register"
             /\ job'[k] = "write" => script'[k].op \in {"set", "transfer"}
             /\ script'[k].op = "register" /\ job'[k] \in Tables \cup {"ok"} => k \in inserted'
             /\ k \in inserted' => script'[k].op = "register" /\ job'[k] \notin {"idle", "domain"}
  BY <1>1, <1>2, <1>3, <1>4 DEF Scripted
<1>5. CASE pc = "error"
  <2>1. j \in inserted' => script[j].op = "register"
    BY <1>5 DEF Effect, InsertsDomain, InsertsTable, Sets, Transfers, Fails, Scripted
  <2>2. QED BY <1>1, <1>2, <1>4, <1>5, <2>1 DEF Scripted, Tables
<1>6. CASE pc # "error" /\ script[j].op = "register"
  <2>1. j \in inserted'
    BY <1>6 DEF Effect, InsertsDomain, InsertsTable, Sets, Transfers, Fails, Scripted
  <2>2. QED BY <1>1, <1>2, <1>4, <1>6, <2>1 DEF Scripted, Tables
<1>7. CASE pc # "error" /\ script[j].op # "register"
  <2>1. pc = "ok" /\ j \notin inserted'
    BY <1>7 DEF Effect, InsertsDomain, InsertsTable, Sets, Transfers, Fails, Scripted
  <2>2. QED BY <1>1, <1>2, <1>4, <1>7, <2>1 DEF Scripted, Tables
<1>8. QED BY <1>5, <1>6, <1>7

LEMMA OneRegistrarPreserved ==
  ASSUME Typed, OneRegistrar, Grows, NEW j \in Jobs, inserted' \subseteq inserted \cup {j},
         \A k \in inserted' : k \in inserted \/ domains'[script[k].node] # {}
  PROVE  OneRegistrar'
<1>1. \A k \in inserted' : script'[k] = script[k] /\ script[k].node \in Nodes
  BY Kinds DEF Grows
<1>2. \A k \in inserted : k \in inserted'
  BY DEF Grows
<1>3. \A k \in inserted' : domains'[script'[k].node] # {}
  BY <1>1, <1>2 DEF OneRegistrar, Grows
<1>4. ASSUME NEW k \in inserted', NEW l \in inserted', script[k].node = script[l].node
      PROVE  k = l
  BY <1>4 DEF OneRegistrar, Grows
<1>5. QED BY <1>1, <1>3, <1>4 DEF OneRegistrar

LEMMA InsertsPreserved ==
  ASSUME Typed, Scripted, Inserts, NEW j \in Jobs, NEW pc, Ending(j, pc), Effect(j, pc)
  PROVE  Inserts'
<1>1. Grows /\ script' = script
  BY EffectGrows DEF Ending
<1>2. job'[j] = pc /\ \A k \in Jobs \ {j} : job'[k] = job[k]
  BY Changed DEF Typed, Ending
<1>3. ASSUME NEW k \in inserted', NEW f \in Field,
             script[k].records[f] # NoValue, f.table \in Passed(job'[k]),
             <<script[k].node, f>> \notin overwritten'
      PROVE  records'[script[k].node][f] = script[k].records[f]
  <2>1. script[k].node \in Nodes /\ script[k].op = "register" /\ k \in Jobs
    BY <1>1, Kinds, EffectTyped DEF Grows, Typed
  <2>2. CASE k \in inserted /\ f.table \in Passed(job[k])
    BY <1>1, <1>3, <2>1, <2>2 DEF Inserts, Grows
  <2>3. CASE k # j
    BY <1>1, <1>2, <1>3, <2>1, <2>2, <2>3 DEF Effect, InsertsDomain, InsertsTable, Sets, Transfers, Fails
  <2>4. CASE k = j /\ ~ (k \in inserted /\ f.table \in Passed(job[k]))
    <3>1. f.table \in Passed(pc) /\ pc # "error"
      BY <1>2, <1>3, <2>4 DEF Passed
    <3>2. CASE InsertsDomain(j, pc)
      <4>1. f.table \in Passed("domain") \cup {"domain"}
        BY <1>3, <2>4, <3>1, <3>2, AfterPasses DEF InsertsDomain
      <4>2. QED BY <4>1, Columns DEF Passed, Tables
    <3>3. ASSUME NEW table \in Tables, InsertsTable(j, pc, table)
          PROVE  records'[script[k].node][f] = script[k].records[f]
      <4>1. f.table \in Passed(table) \cup {table}
        BY <1>3, <2>4, <3>1, <3>3, AfterPasses DEF InsertsTable
      <4>2. j \in inserted
        BY <2>1, <2>4, <3>3 DEF Scripted, InsertsTable
      <4>3. f \in New(j, table)
        BY <1>3, <2>4, <3>3, <4>1, <4>2 DEF New, Of, InsertsTable
      <4>4. QED BY <2>1, <2>4, <3>3, <4>3, InsertedValues DEF InsertsTable
    <3>4. QED BY <2>1, <2>4, <3>1, <3>2, <3>3 DEF Effect, Sets, Transfers, Fails
  <2>5. QED BY <2>2, <2>3, <2>4
<1>4. QED BY <1>1, <1>3 DEF Inserts

LEMMA OriginPreserved ==
  ASSUME Typed, Scripted, OneRegistrar, Origin, NEW j \in Jobs, NEW pc, Ending(j, pc), Effect(j, pc)
  PROVE  Origin'
<1>1. Grows /\ script[j] \in Scripts
  BY EffectGrows, EffectTyped
<1>2. ASSUME NEW n \in Nodes, NEW f \in Field,
             records'[n][f] # NoValue, <<n, f>> \notin overwritten'
      PROVE  domains'[n] # {}
  <2>1. CASE records[n][f] # NoValue
    BY <1>1, <1>2, <2>1 DEF Origin, Grows
  <2>2. CASE records[n][f] = NoValue
    <3>1. ASSUME NEW table \in Tables, InsertsTable(j, pc, table)
          PROVE  domains'[n] # {}
      <4>1. n = script[j].node
        BY <1>2, <2>2, <3>1, InsertedValues DEF InsertsTable
      <4>2. j \in inserted
        BY <3>1 DEF Scripted, InsertsTable
      <4>3. QED BY <1>1, <4>1, <4>2 DEF OneRegistrar, Grows
    <3>2. CASE Sets(j, pc)
      <4>1. n = script[j].node /\ f = script[j].field
        BY <1>1, <1>2, <2>2, <3>2, SetsOne
      <4>2. QED BY <1>2, <3>2, <4>1 DEF Sets
    <3>3. CASE UNCHANGED records
      BY <1>2, <2>2, <3>3
    <3>4. QED BY <3>1, <3>2, <3>3 DEF Effect, InsertsDomain, Transfers, Fails, tables
  <2>3. QED BY <2>1, <2>2
<1>3. QED BY <1>2 DEF Origin

LEMMA PrefixPreserved ==
  ASSUME Typed, Scripted, OneRegistrar, Inserts, Origin, Prefix,
         NEW j \in Jobs, NEW pc, Ending(j, pc), Effect(j, pc)
  PROVE  Prefix'
<1>1. Grows /\ script' = script /\ script[j] \in Scripts
  BY EffectGrows, EffectTyped DEF Ending
<1>2. ASSUME NEW k \in inserted', NEW f \in Field, NEW g \in Field,
             Earlier(f, g), script[k].records[f] # NoValue,
             <<script[k].node, f>> \notin overwritten', <<script[k].node, g>> \notin overwritten',
             records'[script[k].node][g] # NoValue
      PROVE  records'[script[k].node][f] = script[k].records[f]
  <2> DEFINE n == script[k].node
  <2>1. n \in Nodes /\ script[k].op = "register" /\ k \in Jobs
    BY <1>1, Kinds, EffectTyped DEF Grows, Typed
  <2>2. CASE k \in inserted /\ records[n][f] = script[k].records[f]
    BY <1>1, <1>2, <2>1, <2>2 DEF Grows
  <2>3. CASE k \in inserted /\ records[n][g] # NoValue
    <3>1. records[n][f] = script[k].records[f]
      BY <1>1, <1>2, <2>3 DEF Prefix, Untouched, Grows
    <3>2. QED BY <2>2, <2>3, <3>1
  <2>4. CASE k \in inserted /\ records[n][g] = NoValue
    <3>1. ASSUME NEW table \in Tables, InsertsTable(j, pc, table)
          PROVE  records'[n][f] = script[k].records[f]
      <4>1. j \in inserted /\ n = script[j].node /\ g \in New(j, table)
        BY <1>2, <2>1, <2>4, <3>1, InsertedValues DEF InsertsTable, Scripted
      <4>2. k = j /\ f.table \in Passed(job[j])
        BY <1>2, <2>4, <3>1, <4>1, Ordered DEF OneRegistrar, InsertsTable, New, Of
      <4>3. records[n][f] = script[k].records[f]
        BY <1>1, <1>2, <4>1, <4>2 DEF Inserts, Grows
      <4>4. QED BY <2>2, <2>4, <4>3
    <3>2. CASE Sets(j, pc)
      <4>1. n = script[j].node /\ g = script[j].field
        BY <1>1, <1>2, <2>1, <2>4, <3>2, SetsOne
      <4>2. QED BY <1>2, <3>2, <4>1 DEF Sets
    <3>3. CASE UNCHANGED records
      BY <1>2, <2>4, <3>3
    <3>4. QED BY <3>1, <3>2, <3>3 DEF Effect, InsertsDomain, Transfers, Fails, tables
  <2>5. CASE k \notin inserted
    <3>1. InsertsDomain(j, pc) /\ domains[n] = {}
      BY <1>1, <1>2, <2>5 DEF Effect, InsertsTable, Sets, Transfers, Fails, Grows
    <3>2. QED BY <1>2, <2>1, <3>1 DEF InsertsDomain, Origin
  <2>6. QED BY <2>3, <2>4, <2>5
<1>3. QED BY <1>1, <1>2 DEF Prefix, Untouched

-----------------------------------------------------------------------------
(* Queries: what one read of the tables shows *)

\* a set of rows that are in the tables
Read(rows) ==
  \A n, f, v : <<n, f, v>> \in rows =>
    /\ n \in Nodes /\ f \in Field /\ v \in Values
    /\ records[n][f] = v /\ v # NoValue

\* a set of rows that has a prefix of each registration
Closed(rows) ==
  \A j \in inserted, f, g \in Field :
    LET s == script[j] IN
    /\ Earlier(f, g) /\ s.records[f] \notin {NoValue, Empty, Null}
    /\ Untouched(s.node, f, g)
    /\ <<s.node, g, s.records[g]>> \in rows
    => <<s.node, f, s.records[f]>> \in rows

\* the rows of n that pass a filter
LEMMA Filtered ==
  ASSUME Typed, NEW n \in Nodes, NEW fields \in SUBSET Field,
         \A f \in fields : records[n][f] # NoValue,
         NEW rows, rows = {<<n, f, records[n][f]>> : f \in fields}
  PROVE  /\ Read(rows) /\ rows \subseteq Shown
         /\ \A m, f, v : <<m, f, v>> \in rows <=> m = n /\ f \in fields /\ v = records[n][f]
<1>1. \A m, f, v : <<m, f, v>> \in rows <=> m = n /\ f \in fields /\ v = records[n][f]
  OBVIOUS
<1>2. \A f \in fields : records[n][f] \in Values
  BY DEF Typed, Contents
<1>3. Read(rows)
  BY <1>1, <1>2, StoreAssumption DEF Read
<1>4. rows \subseteq Shown
  BY <1>2 DEF Shown
<1>5. QED BY <1>1, <1>3, <1>4

LEMMA JoinedRead ==
  ASSUME Typed, Origin, Prefix, NEW n \in Nodes
  PROVE  Read(Joined(n)) /\ Joined(n) \subseteq Shown /\ Closed(Joined(n))
<1> DEFINE fields == {f \in Field :
             /\ records[n][f] # NoValue
             /\ f.table # "contenthash" => records[n][f] # Empty
             /\ f.table = "address" => records[n][f] # Null}
<1>1. Joined(n) = {<<n, f, records[n][f]>> : f \in fields}
  BY DEF Joined
<1>2. /\ Read(Joined(n)) /\ Joined(n) \subseteq Shown
      /\ \A m, f, v : <<m, f, v>> \in Joined(n) <=> m = n /\ f \in fields /\ v = records[n][f]
  <2>1. fields \in SUBSET Field /\ \A f \in fields : records[n][f] # NoValue
    OBVIOUS
  <2> HIDE DEF fields
  <2>2. QED BY <1>1, <2>1, Filtered
<1>3. ASSUME NEW j \in inserted, NEW f \in Field, NEW g \in Field,
             Earlier(f, g), script[j].records[f] \notin {NoValue, Empty, Null},
             Untouched(script[j].node, f, g),
             <<script[j].node, g, script[j].records[g]>> \in Joined(n)
      PROVE  <<script[j].node, f, script[j].records[f]>> \in Joined(n)
  <2>1. script[j].node = n /\ records[n][g] # NoValue
    BY <1>2, <1>3
  <2>2. records[n][f] = script[j].records[f]
    BY <1>3, <2>1 DEF Prefix
  <2>3. QED BY <1>2, <1>3, <2>1, <2>2
<1>4. QED BY <1>2, <1>3 DEF Closed

LEMMA TextsRead ==
  ASSUME Typed, NEW n \in Nodes
  PROVE  /\ Read(Texts(n)) /\ Texts(n) \subseteq Shown
         /\ \A m, f, v : <<m, f, v>> \in Texts(n) => m = n /\ f.table = "text"
<1> DEFINE fields == {f \in Of("text") : f.key # "ABI" /\ records[n][f] \notin {NoValue, Empty}}
<1>1. Texts(n) = {<<n, f, records[n][f]>> : f \in fields}
  BY DEF Texts
<1>2. /\ fields \in SUBSET Field
      /\ \A f \in fields : records[n][f] # NoValue /\ f.table = "text"
  BY DEF Of
<1> HIDE DEF fields
<1>3. QED BY <1>1, <1>2, Filtered

LEMMA AddressesRead ==
  ASSUME Typed, NEW n \in Nodes
  PROVE  /\ Read(Addresses(n)) /\ Addresses(n) \subseteq Shown
         /\ \A m, f, v : <<m, f, v>> \in Addresses(n) => m = n /\ f.table = "address"
         /\ \A f \in Field : f.table = "address" /\ records[n][f] \notin {NoValue, Empty} =>
              <<n, f, records[n][f]>> \in Addresses(n)
<1> DEFINE fields == {f \in Of("address") : records[n][f] \notin {NoValue, Empty}}
<1>1. Addresses(n) = {<<n, f, records[n][f]>> : f \in fields}
  BY DEF Addresses
<1>2. /\ fields \in SUBSET Field
      /\ \A f \in fields : records[n][f] # NoValue /\ f.table = "address"
      /\ \A f \in Field : f.table = "address" /\ records[n][f] \notin {NoValue, Empty} => f \in fields
  BY DEF Of
<1> HIDE DEF fields
<1>3. QED BY <1>1, <1>2, Filtered

-----------------------------------------------------------------------------
(* Queries: what each step makes of an answer *)

Sound(answer) ==
  /\ answer \in QueryState
  /\ answer.pc \notin {"idle", "failed"} => answer.node \in Nodes
  /\ OriginOf(answer) /\ PrefixOf(answer)

\* the answer after a step, which one read may have extended
LEMMA SoundExtended ==
  ASSUME Typed, Origin, NEW old, Sound(old), old.pc # "addresses",
         NEW rows \in SUBSET Shown, Read(rows), Closed(rows),
         NEW new \in QueryState, new.shows \in {old.shows, rows, old.shows \cup rows},
         new.node \in Nodes
  PROVE  Sound(new)
<1>1. OriginOf(new)
  BY DEF OriginOf, Sound, Origin, Read
<1>2. PrefixOf(new)
  BY DEF PrefixOf, Sound, Closed
<1>3. QED BY <1>1, <1>2 DEF Sound

LEMMA NoAnswerTyped == NoAnswer \in QueryState /\ NoAnswer.shows = {}
BY DEF NoAnswer, QueryState, QueryPc, Rows

LEMMA NothingSound ==
  ASSUME NEW a \in QueryState, a.shows = {}, a.pc \notin {"idle", "failed"} => a.node \in Nodes
  PROVE  Sound(a)
BY DEF Sound, OriginOf, PrefixOf

LEMMA FailedSound ==
  ASSUME NEW q
  PROVE  Sound(Failed(q))
<1>1. Failed(q) \in QueryState /\ Failed(q).shows = {} /\ Failed(q).pc = "failed"
  BY NoAnswerTyped DEF Failed, QueryState, QueryPc
<1>2. QED BY <1>1, NothingSound

\* a step of a query: the others and the tables are left alone
Answers(q, answer) == Step(q, answer) /\ faults' \in 0..MaxFaults

LEMMA AskSound ==
  ASSUME Typed, NEW q \in Queries, Ask(q)
  PROVE  \E answer : Answers(q, answer) /\ Sound(answer)
<1>1. PICK n \in Nodes : Step(q, [NoAnswer EXCEPT !.pc = "domain", !.node = n])
  BY DEF Ask
<1>2. faults' \in 0..MaxFaults
  BY DEF Ask, Typed
<1> DEFINE new == [NoAnswer EXCEPT !.pc = "domain", !.node = n]
<1>3. new \in QueryState /\ new.shows = {} /\ new.node = n
  BY NoAnswerTyped DEF QueryState, QueryPc
<1> HIDE DEF new
<1>4. Sound(new)
  BY <1>3, NothingSound
<1>5. QED BY <1>1, <1>2, <1>4 DEF Answers, new

LEMMA StepFaults ==
  ASSUME Typed, NoFault \/ Fault
  PROVE  faults' \in 0..MaxFaults
BY StoreAssumption DEF Typed, NoFault, Fault

\* the old answer of a query on its way
LEMMA OldSound ==
  ASSUME Typed, Asked, ReadOrigin, ReadPrefix, NEW q \in Queries,
         query[q].pc \notin {"idle", "failed"}
  PROVE  Sound(query[q]) /\ query[q].node \in Nodes
BY DEF Typed, Asked, ReadOrigin, ReadPrefix, Sound

LEMMA NoRowsRead == Read({}) /\ Closed({})
BY DEF Read, Closed

LEMMA GetDomainSound ==
  ASSUME Typed, Asked, Origin, Prefix, ReadOrigin, ReadPrefix, NEW q \in Queries, GetDomain(q)
  PROVE  \E answer : Answers(q, answer) /\ Sound(answer)
<1> DEFINE old == query[q]
           n == old.node
<1>1. old.pc = "domain" /\ Sound(old) /\ n \in Nodes /\ old \in QueryState
  BY OldSound DEF GetDomain, Sound
<1>2. faults' \in 0..MaxFaults
  BY StepFaults DEF GetDomain
<1>3. Read(Joined(n)) /\ Closed(Joined(n)) /\ Joined(n) \subseteq Shown /\ domains[n] \in Rows
  BY <1>1, JoinedRead DEF Typed
<1>4. CASE Step(q, Failed(q))
  BY <1>2, <1>4, FailedSound DEF Answers
<1>5. CASE Step(q, [old EXCEPT !.pc = "resolver"])
  <2> DEFINE new == [old EXCEPT !.pc = "resolver"]
  <2>1. new \in QueryState /\ new.shows = old.shows /\ new.node = n
    BY <1>1 DEF QueryState, QueryPc
  <2> HIDE DEF new
  <2>2. Sound(new)
    BY <1>1, <1>3, <2>1, SoundExtended
  <2>3. QED BY <1>2, <1>5, <2>2 DEF Answers, new
<1>6. ASSUME NEW pc \in {"expiry", "hidden"},
             Step(q, [old EXCEPT !.pc = pc, !.row = domains[n], !.shows = Joined(n)])
      PROVE  \E answer : Answers(q, answer) /\ Sound(answer)
  <2> DEFINE new == [old EXCEPT !.pc = pc, !.row = domains[n], !.shows = Joined(n)]
  <2>1. pc \in QueryPc
    BY DEF QueryPc
  <2>2. new \in QueryState /\ new.shows = Joined(n) /\ new.node = n
    BY <1>1, <1>3, <2>1 DEF QueryState
  <2> HIDE DEF new
  <2>3. Sound(new)
    BY <1>1, <1>3, <2>2, SoundExtended
  <2>4. QED BY <1>2, <1>6, <2>3 DEF Answers, new
<1>7. QED BY <1>4, <1>5, <1>6 DEF GetDomain

\* a step that only moves on, and one that reads more
LEMMA MovesOnSound ==
  ASSUME Typed, Asked, Origin, ReadOrigin, ReadPrefix, NEW q \in Queries,
         query[q].pc \notin {"idle", "failed", "addresses"}, NoFault \/ Fault,
         NEW new \in QueryState, new.shows = query[q].shows, new.node = query[q].node,
         Step(q, new)
  PROVE  \E answer : Answers(q, answer) /\ Sound(answer)
<1>1. Sound(query[q]) /\ new.node \in Nodes
  BY OldSound
<1>2. Sound(new)
  BY <1>1, SoundExtended, NoRowsRead
<1>3. QED BY <1>2, StepFaults DEF Answers

LEMMA GetResolverSound ==
  ASSUME Typed, Asked, Origin, ReadOrigin, ReadPrefix, NEW q \in Queries, GetResolver(q)
  PROVE  \E answer : Answers(q, answer) /\ Sound(answer)
<1> DEFINE new(pc) == [query[q] EXCEPT !.pc = pc]
<1>1. ASSUME NEW pc \in {"expiry", "hidden"}
      PROVE  new(pc) \in QueryState /\ new(pc).shows = query[q].shows /\ new(pc).node = query[q].node
  BY DEF Typed, QueryState, QueryPc
<1>2. PICK pc \in {"expiry", "hidden"} : Step(q, new(pc))
  BY DEF GetResolver
<1>3. query[q].pc = "resolver" /\ (NoFault \/ Fault)
  BY DEF GetResolver
<1> HIDE DEF new
<1>4. QED BY <1>1, <1>2, <1>3, MovesOnSound

LEMMA GetExpireDateSound ==
  ASSUME Typed, Asked, Origin, ReadOrigin, ReadPrefix, NEW q \in Queries, GetExpireDate(q)
  PROVE  \E answer : Answers(q, answer) /\ Sound(answer)
<1> DEFINE new == [query[q] EXCEPT !.pc = "subdomains"]
<1>1. new \in QueryState /\ new.shows = query[q].shows /\ new.node = query[q].node
  BY DEF Typed, QueryState, QueryPc
<1>2. query[q].pc = "expiry" /\ (NoFault \/ Fault) /\ Step(q, new)
  BY DEF GetExpireDate
<1> HIDE DEF new
<1>3. QED BY <1>1, <1>2, MovesOnSound

LEMMA GetOwnerSound ==
  ASSUME Typed, Asked, Origin, ReadOrigin, ReadPrefix, NEW q \in Queries, GetOwner(q)
  PROVE  \E answer : Answers(q, answer) /\ Sound(answer)
<1>1. query[q].pc = "owner" /\ (NoFault \/ Fault)
  BY DEF GetOwner
<1>2. CASE Step(q, Failed(q))
  BY <1>1, <1>2, FailedSound, StepFaults DEF Answers
<1>3. CASE Step(q, [query[q] EXCEPT !.pc = "answered", !.owner = registry[query[q].node].owner])
  <2> DEFINE new == [query[q] EXCEPT !.pc = "answered", !.owner = registry[query[q].node].owner]
  <2>1. registry[query[q].node].owner \in Accounts \cup {NoAccount}
    BY <1>1 DEF Typed, Asked, Row
  <2>2. new \in QueryState /\ new.shows = query[q].shows /\ new.node = query[q].node
    BY <2>1 DEF Typed, QueryState, QueryPc
  <2> HIDE DEF new
  <2>3. Step(q, new)
    BY <1>3 DEF new
  <2>4. QED BY <1>1, <2>2, <2>3, MovesOnSound
<1>4. QED BY <1>2, <1>3 DEF GetOwner

LEMMA GetSubdomainsSound ==
  ASSUME Typed, Asked, Origin, Prefix, ReadOrigin, ReadPrefix, NEW q \in Queries, GetSubdomains(q)
  PROVE  \E answer : Answers(q, answer) /\ Sound(answer)
<1> DEFINE old == query[q]
           children == {n \in Nodes : ParentOf[n] = old.node /\ domains[n] # {}}
           rows == UNION {Joined(n) : n \in children}
<1>1. old.pc = "subdomains" /\ Sound(old) /\ old.node \in Nodes /\ old \in QueryState
  BY OldSound DEF GetSubdomains, Sound
<1>2. faults' \in 0..MaxFaults
  BY StepFaults DEF GetSubdomains
<1>3. Read(rows) /\ Closed(rows) /\ rows \subseteq Shown
  <2>1. \A n \in children : Read(Joined(n)) /\ Closed(Joined(n)) /\ Joined(n) \subseteq Shown
    BY JoinedRead
  <2> HIDE DEF children
  <2>2. Read(rows)
    BY <2>1 DEF Read
  <2>3. Closed(rows)
    BY <2>1 DEF Closed
  <2>4. QED BY <2>1, <2>2, <2>3
<1>4. CASE Step(q, Failed(q))
  BY <1>2, <1>4, FailedSound DEF Answers
<1>5. ASSUME NEW pc \in {"texts", "answered"},
             Step(q, [old EXCEPT !.pc = pc, !.shows = @ \cup rows])
      PROVE  \E answer : Answers(q, answer) /\ Sound(answer)
  <2> HIDE DEF rows
  <2> DEFINE new == [old EXCEPT !.pc = pc, !.shows = old.shows \cup rows]
  <2>1. pc \in QueryPc
    BY DEF QueryPc
  <2>2. new \in QueryState /\ new.shows = old.shows \cup rows /\ new.node = old.node
    BY <1>1, <1>3, <2>1 DEF QueryState
  <2>3. Step(q, new)
    BY <1>5
  <2> HIDE DEF new
  <2>4. Sound(new)
    BY <1>1, <1>3, <2>2, SoundExtended
  <2>5. QED BY <1>2, <2>3, <2>4 DEF Answers
<1>6. QED BY <1>4, <1>5 DEF GetSubdomains

LEMMA GetTextsSound ==
  ASSUME Typed, Asked, Origin, Prefix, ReadOrigin, ReadPrefix, NEW q \in Queries, GetTexts(q)
  PROVE  \E answer : Answers(q, answer) /\ Sound(answer)
<1> DEFINE old == query[q]
           n == old.node
<1>1. old.pc = "texts" /\ Sound(old) /\ n \in Nodes /\ old \in QueryState
  BY OldSound DEF GetTexts, Sound
<1>2. faults' \in 0..MaxFaults
  BY StepFaults DEF GetTexts
<1>3. /\ Read(Texts(n)) /\ Texts(n) \subseteq Shown
      /\ \A m, f, v : <<m, f, v>> \in Texts(n) => m = n /\ f.table = "text"
  BY <1>1, TextsRead
<1>4. CASE Step(q, Failed(q))
  BY <1>2, <1>4, FailedSound DEF Answers
<1>5. CASE Step(q, [old EXCEPT !.pc = "addresses", !.shows = old.shows \cup Texts(n)])
  <2> DEFINE new == [old EXCEPT !.pc = "addresses", !.shows = old.shows \cup Texts(n)]
  <2>1. /\ new \in QueryState /\ new.shows = old.shows \cup Texts(n) /\ new.node = n
        /\ new.pc = "addresses"
    BY <1>1, <1>3 DEF QueryState, QueryPc
  <2> HIDE DEF new
  <2>2. OriginOf(new)
    BY <1>1, <1>3, <2>1 DEF OriginOf, Sound, Origin, Read
  <2>3. ASSUME NEW j \in inserted, NEW f \in Field, NEW g \in Field,
               Earlier(f, g), script[j].records[f] \notin {NoValue, Empty, Null},
               Untouched(script[j].node, f, g),
               <<script[j].node, g, script[j].records[g]>> \in Texts(n)
        PROVE  /\ n = script[j].node /\ f.table = "address"
               /\ records[script[j].node][f] = script[j].records[f]
    <3>1. n = script[j].node /\ g.table = "text" /\ records[n][g] # NoValue
      BY <1>3, <2>3 DEF Read
    <3>2. f.table = "address"
      BY <2>3, <3>1 DEF Earlier
    <3>3. QED BY <2>3, <3>1, <3>2 DEF Prefix
  <2>4. PrefixOf(new)
    BY <1>1, <2>1, <2>3 DEF PrefixOf, Sound
  <2>5. QED BY <1>1, <1>2, <1>5, <2>1, <2>2, <2>4 DEF Answers, Sound, new
<1>6. QED BY <1>4, <1>5 DEF GetTexts

LEMMA GetAddressesSound ==
  ASSUME Typed, Asked, Origin, Prefix, ReadOrigin, ReadPrefix, NEW q \in Queries, GetAddresses(q)
  PROVE  \E answer : Answers(q, answer) /\ Sound(answer)
<1> DEFINE old == query[q]
           n == old.node
<1>1. old.pc = "addresses" /\ Sound(old) /\ n \in Nodes /\ old \in QueryState
  BY OldSound DEF GetAddresses, Sound
<1>2. faults' \in 0..MaxFaults
  BY StepFaults DEF GetAddresses
<1>3. /\ Read(Addresses(n)) /\ Addresses(n) \subseteq Shown
      /\ \A m, f, v : <<m, f, v>> \in Addresses(n) => m = n /\ f.table = "address"
      /\ \A f \in Field : f.table = "address" /\ records[n][f] \notin {NoValue, Empty} =>
           <<n, f, records[n][f]>> \in Addresses(n)
  BY <1>1, AddressesRead
<1>4. CASE Step(q, Failed(q))
  BY <1>2, <1>4, FailedSound DEF Answers
<1>5. CASE Step(q, [old EXCEPT !.pc = "owner", !.shows = old.shows \cup Addresses(n)])
  <2> DEFINE new == [old EXCEPT !.pc = "owner", !.shows = old.shows \cup Addresses(n)]
  <2>1. /\ new \in QueryState /\ new.shows = old.shows \cup Addresses(n) /\ new.node = n
    BY <1>1, <1>3 DEF QueryState, QueryPc
  <2> HIDE DEF new
  <2>2. OriginOf(new)
    BY <1>1, <1>3, <2>1 DEF OriginOf, Sound, Origin, Read
  <2>3. ASSUME NEW j \in inserted, NEW f \in Field, NEW g \in Field,
               Earlier(f, g), script[j].records[f] \notin {NoValue, Empty, Null},
               Untouched(script[j].node, f, g),
               <<script[j].node, g, script[j].records[g]>> \in new.shows
        PROVE  <<script[j].node, f, script[j].records[f]>> \in new.shows
    <3>1. CASE <<script[j].node, g, script[j].records[g]>> \in old.shows
      <4>1. CASE <<script[j].node, f, script[j].records[f]>> \in old.shows
        BY <2>1, <4>1
      <4>2. CASE /\ n = script[j].node /\ f.table = "address"
                 /\ records[script[j].node][f] = script[j].records[f]
        BY <1>3, <2>1, <2>3, <4>2
      <4>3. QED BY <1>1, <2>3, <3>1, <4>1, <4>2 DEF Sound, PrefixOf
    <3>2. CASE <<script[j].node, g, script[j].records[g]>> \in Addresses(n)
      BY <1>3, <2>3, <3>2 DEF Earlier
    <3>3. QED BY <2>1, <2>3, <3>1, <3>2
  <2>4. PrefixOf(new)
    BY <2>3 DEF PrefixOf
  <2>5. QED BY <1>1, <1>2, <1>5, <2>1, <2>2, <2>4 DEF Answers, Sound, new
<1>6. QED BY <1>4, <1>5 DEF GetAddresses

LEMMA QueryStepSound ==
  ASSUME Typed, Asked, Origin, Prefix, ReadOrigin, ReadPrefix, NEW q \in Queries,
         Ask(q) \/ QueryStep(q)
  PROVE  \E answer : Answers(q, answer) /\ Sound(answer)
BY AskSound, GetDomainSound, GetResolverSound, GetExpireDateSound, GetSubdomainsSound,
   GetTextsSound, GetAddressesSound, GetOwnerSound DEF QueryStep

\* what was read stays true of the tables
LEMMA ReadsPreserved ==
  ASSUME Typed, Scripted, Grows, ReadOrigin, ReadPrefix, UNCHANGED query
  PROVE  ReadOrigin' /\ ReadPrefix'
<1>1. ReadOrigin'
  BY DEF ReadOrigin, OriginOf, Grows
<1>2. ASSUME NEW q \in Queries, NEW j \in inserted', NEW f \in Field, NEW g \in Field,
             Earlier(f, g), script[j].records[f] \notin {NoValue, Empty, Null},
             <<script[j].node, f>> \notin overwritten', <<script[j].node, g>> \notin overwritten',
             <<script[j].node, g, script[j].records[g]>> \in query[q].shows
      PROVE  \/ <<script[j].node, f, script[j].records[f]>> \in query[q].shows
             \/ /\ query[q].pc = "addresses" /\ query[q].node = script[j].node
                /\ f.table = "address" /\ records'[script[j].node][f] = script[j].records[f]
  <2>1. script[j].node \in Nodes
    BY Kinds DEF Grows
  <2>2. j \in inserted
    <3>1. script[j].records[g] \in Values
      BY <1>2 DEF Typed, QueryState, Shown
    <3>2. domains[script[j].node] # {}
      BY <1>2, <2>1, <3>1 DEF ReadOrigin, OriginOf, Grows
    <3>3. QED BY <3>2 DEF Grows
  <2>3. \/ <<script[j].node, f, script[j].records[f]>> \in query[q].shows
        \/ /\ query[q].pc = "addresses" /\ query[q].node = script[j].node
           /\ f.table = "address" /\ records[script[j].node][f] = script[j].records[f]
    BY <1>2, <2>2 DEF ReadPrefix, PrefixOf, Untouched, Grows
  <2>4. QED BY <1>2, <2>1, <2>3 DEF Grows
<1>3. \A j \in inserted' : script'[j] = script[j]
  BY DEF Grows
<1>4. QED BY <1>1, <1>2, <1>3 DEF ReadPrefix, PrefixOf, Untouched

-----------------------------------------------------------------------------
(* The in-memory repository *)

\* the tables are those of the in-memory repository
Same ==
  /\ domains = double.domains
  /\ \A n \in Nodes, f \in Field : f.table # "contenthash" => records[n][f] = double.records[n][f]

\* or differ by what the registration s has done at pc
Ahead(s, pc) ==
  /\ domains = [double.domains EXCEPT ![s.node] = {s.row}]
  /\ \A n \in Nodes, f \in Field : f.table # "contenthash" =>
       records[n][f] = IF Done(s, pc, n, f) THEN s.records[f] ELSE double.records[n][f]

AlikeAt(j) == IF job[j] \in Tables THEN Ahead(script[j], job[j]) ELSE Same

LEMMA AlikeMeans ==
  Alike <=> (tested =>
    /\ \A j, k \in Jobs : Busy(j) /\ Busy(k) => j = k
    /\ \A j \in Jobs : Busy(j) => AlikeAt(j)
    /\ (\A j \in Jobs : ~ Busy(j)) => Same)
BY DEF Alike, AlikeAt, Ahead, Same

\* a registration that proceeds is ahead by the tables it has passed
LEMMA RegistrationAhead ==
  ASSUME Typed, Scripted, NEW j \in Jobs, NEW pc, pc # "error", Effect(j, pc),
         script[j].op = "register", AlikeAt(j)
  PROVE  /\ domains' = [double.domains EXCEPT ![script[j].node] = {script[j].row}]
         /\ \A n \in Nodes, f \in Field : f.table # "contenthash" =>
              records'[n][f] = IF Done(script[j], pc, n, f) THEN script[j].records[f]
                               ELSE double.records[n][f]
<1> DEFINE s == script[j]
<1>1. CASE InsertsDomain(j, pc)
  <2>1. job[j] = "domain" /\ pc = After(j, "domain") /\ Same
    BY <1>1 DEF InsertsDomain, AlikeAt, Tables
  <2>2. \A n \in Nodes, f \in Field : ~ Done(s, pc, n, f)
    BY <2>1, AfterPasses, Columns DEF Done, Passed, Tables
  <2>3. QED BY <1>1, <2>1, <2>2 DEF InsertsDomain, Same
<1>2. ASSUME NEW table \in Tables, InsertsTable(j, pc, table)
      PROVE  /\ domains' = [double.domains EXCEPT ![s.node] = {s.row}]
             /\ \A n \in Nodes, f \in Field : f.table # "contenthash" =>
                  records'[n][f] = IF Done(s, pc, n, f) THEN s.records[f] ELSE double.records[n][f]
  <2>1. job[j] = table /\ pc = After(j, table) /\ Ahead(s, table)
    BY <1>2 DEF InsertsTable, AlikeAt
  <2>2. \A n \in Nodes, f \in Field : records'[n][f] =
          IF n = s.node /\ f \in New(j, table) THEN s.records[f] ELSE records[n][f]
    BY <1>2, InsertedValues DEF InsertsTable
  <2>3. \A n \in Nodes, f \in Field :
          Done(s, pc, n, f) <=> Done(s, table, n, f) \/ (n = s.node /\ f \in New(j, table))
    BY <2>1, AfterPasses DEF Done, New, Of
  <2>4. QED BY <1>2, <2>1, <2>2, <2>3 DEF InsertsTable, Ahead
<1>3. QED BY <1>1, <1>2 DEF Effect, Sets, Transfers, Fails

\* a call that ends with success has done what its twin does
LEMMA EndsAlike ==
  ASSUME Typed, Scripted, NEW j \in Jobs, Ending(j, "ok"), Effect(j, "ok"), AlikeAt(j)
  PROVE  Same'
<1> DEFINE s == script[j]
<1>1. /\ s \in Scripts /\ double' = DoubleAfter(double, s) /\ double \in DoubleState
      /\ double.domains \in [Nodes -> Rows] /\ double.records \in [Nodes -> Contents]
  BY EffectTyped DEF Ending, Typed, DoubleState
<1>2. CASE s.op = "register"
  <2>1. s.node \in Nodes /\ s.row \in Row /\ s.records \in Contents
    BY <1>1, <1>2, Kinds
  <2>2. /\ double'.domains = [double.domains EXCEPT ![s.node] = {s.row}]
        /\ \A n \in Nodes, f \in Field : double'.records[n][f] =
             IF n = s.node /\ s.records[f] # NoValue /\ f.table # "contenthash"
             THEN s.records[f] ELSE double.records[n][f]
    BY <1>1, <1>2, <2>1, DoubleCases, DoubleRegisteredFields
  <2>3. /\ domains' = [double.domains EXCEPT ![s.node] = {s.row}]
        /\ \A n \in Nodes, f \in Field : f.table # "contenthash" =>
             records'[n][f] = IF Done(s, "ok", n, f) THEN s.records[f] ELSE double.records[n][f]
    BY <1>2, RegistrationAhead
  <2>4. \A n \in Nodes, f \in Field : Done(s, "ok", n, f) <=> n = s.node /\ s.records[f] # NoValue
    BY Columns DEF Done, Passed
  <2>5. QED BY <2>2, <2>3, <2>4 DEF Same
<1>3. CASE s.op = "set"
  <2>1. Sets(j, "ok") /\ Same
    BY <1>3 DEF Effect, InsertsDomain, InsertsTable, Sets, Transfers, Fails, Scripted, AlikeAt, Tables
  <2>2. double' = [double EXCEPT !.records[s.node][s.field] = s.value]
    BY <1>1, <1>3, DoubleCases DEF DoubleSet
  <2>3. /\ s.node \in Nodes /\ s.field \in Field
        /\ \A n \in Nodes, f \in Field : n # s.node \/ f # s.field => records'[n][f] = records[n][f]
        /\ records'[s.node][s.field] = s.value
    BY <1>1, <2>1, SetsOne
  <2>4. /\ double'.domains = double.domains
        /\ \A n \in Nodes, f \in Field : double'.records[n][f] =
             IF n = s.node /\ f = s.field THEN s.value ELSE double.records[n][f]
    BY <1>1, <2>2, <2>3 DEF DoubleState, Contents
  <2>5. \A n \in Nodes, f \in Field : f.table # "contenthash" => records'[n][f] = double'.records[n][f]
    BY <2>1, <2>3, <2>4 DEF Same
  <2>6. QED BY <2>1, <2>4, <2>5 DEF Same, Sets
<1>4. CASE s.op = "transfer"
  <2>1. Transfers(j, "ok") /\ Same
    BY <1>4 DEF Effect, InsertsDomain, InsertsTable, Sets, Transfers, Fails, Scripted, AlikeAt, Tables
  <2> DEFINE rows == {[row EXCEPT !.owner = s.owner] : row \in double.domains[s.node]}
  <2>2. double' = [double EXCEPT !.domains[s.node] = rows]
    <3>1. DoubleAfter(double, s) = DoubleTransferred(double, s)
      BY <1>4, DoubleCases
    <3>2. QED BY <1>1, <3>1 DEF DoubleTransferred
  <2>3. domains' = [double.domains EXCEPT ![s.node] = rows]
    BY <2>1 DEF Transfers, Same
  <2> HIDE DEF rows
  <2>4. double'.domains = [double.domains EXCEPT ![s.node] = rows] /\ double'.records = double.records
    BY <1>1, <2>2 DEF DoubleState
  <2>5. domains' = double'.domains
    BY <2>3, <2>4
  <2>6. records' = records /\ double'.records = double.records
    BY <2>1, <2>4 DEF Transfers
  <2>7. QED BY <2>1, <2>5, <2>6 DEF Same
<1>5. QED BY <1>1, <1>2, <1>3, <1>4, Kinds

LEMMA AlikePreserved ==
  ASSUME Typed, Scripted, Alike, NEW j \in Jobs, NEW pc, Ending(j, pc), Effect(j, pc)
  PROVE  Alike'
<1> SUFFICES ASSUME tested'
             PROVE  /\ \A k, l \in Jobs : Busy(k)' /\ Busy(l)' => k = l
                    /\ \A k \in Jobs : Busy(k)' => AlikeAt(k)'
                    /\ (\A k \in Jobs : ~ Busy(k)') => Same'
  BY DEF Alike, AlikeAt, Ahead, Same
<1>1. /\ tested /\ pc # "error" /\ Busy(j) /\ script[j] \in Scripts /\ script' = script
      /\ pc \in Tables \cup {"ok"}
  BY EffectTyped DEF Ending
<1>2. job'[j] = pc /\ \A k \in Jobs \ {j} : job'[k] = job[k]
  BY Changed DEF Typed, Ending
<1>3. (\A k \in Jobs : Busy(k) => k = j) /\ AlikeAt(j)
  BY <1>1, AlikeMeans
<1>4. \A k \in Jobs : Busy(k)' => k = j
  BY <1>2, <1>3 DEF Busy
<1>5. CASE pc = "ok"
  BY <1>2, <1>3, <1>4, <1>5, EndsAlike DEF Busy
<1>6. CASE pc \in Tables
  <2>1. script[j].op = "register" /\ double' = double
    BY <1>6 DEF Effect, InsertsDomain, InsertsTable, Sets, Transfers, Fails, Scripted, Ending, Tables
  <2>2. AlikeAt(j)'
    BY <1>1, <1>2, <1>3, <1>6, <2>1, RegistrationAhead DEF AlikeAt, Ahead, Done
  <2>3. Busy(j)'
    BY <1>2, <1>6 DEF Busy, Tables
  <2>4. QED BY <1>4, <2>2, <2>3
<1>7. QED BY <1>1, <1>5, <1>6

LEMMA ArriveAlike ==
  ASSUME Typed, Alike, NEW j \in Jobs, Arrive(j)
  PROVE  Alike'
<1> SUFFICES ASSUME tested'
             PROVE  /\ \A k, l \in Jobs : Busy(k)' /\ Busy(l)' => k = l
                    /\ \A k \in Jobs : Busy(k)' => AlikeAt(k)'
                    /\ (\A k \in Jobs : ~ Busy(k)') => Same'
  BY DEF Alike, AlikeAt, Ahead, Same
<1>1. tested /\ (\A k \in Jobs : ~ Busy(k)) /\ UNCHANGED <<tables, double>>
  BY DEF Arrive, Typed
<1>2. Same'
  BY <1>1, AlikeMeans DEF Same, tables
<1>3. job'[j] \in {"domain", "write"} /\ \A k \in Jobs \ {j} : job'[k] = job[k]
  BY DEF Arrive, Typed
<1>4. \A k \in Jobs : Busy(k)' => k = j
  BY <1>1, <1>3 DEF Busy
<1>5. AlikeAt(j)'
  BY <1>2, <1>3 DEF AlikeAt, Tables
<1>6. QED BY <1>2, <1>4, <1>5

-----------------------------------------------------------------------------
(* The inductive invariant *)

LEMMA InitInv == Init => IInv
<1> SUFFICES ASSUME Init
             PROVE  IInv
  OBVIOUS
<1> USE DEF Init
<1>1. Typed
  <2>1. [n \in Nodes |-> {}] \in [Nodes -> Rows] /\ [n \in Nodes |-> NoRecords] \in [Nodes -> Contents]
    BY DEF Rows, Contents, NoRecords
  <2>2. query \in [Queries -> QueryState]
    BY NoAnswerTyped
  <2>3. double \in DoubleState
    BY <2>1 DEF DoubleState
  <2>4. QED BY <2>1, <2>2, <2>3, StoreAssumption DEF Typed, JobPc
<1>2. Asked /\ Scripted
  BY DEF Asked, Scripted, NoAnswer, Tables
<1>3. OneRegistrar /\ Inserts /\ Prefix
  BY DEF OneRegistrar, Inserts, Prefix
<1>4. Origin
  BY DEF Origin, NoRecords
<1>5. ReadOrigin /\ ReadPrefix
  BY DEF ReadOrigin, ReadPrefix, OriginOf, PrefixOf, NoAnswer
<1>6. Alike
  BY DEF Alike, Busy
<1>7. QED BY <1>1, <1>2, <1>3, <1>4, <1>5, <1>6 DEF IInv

LEMMA JobStepInv ==
  ASSUME IInv, NEW j \in Jobs, JobStep(j)
  PROVE  IInv'
<1>1. PICK pc : Ending(j, pc) /\ Effect(j, pc)
  BY JobStepIsEffect DEF IInv
<1>2. Typed' /\ Grows
  BY <1>1, EffectTyped, EffectGrows DEF IInv
<1>3. Asked' /\ query' = query
  BY <1>1 DEF Asked, Ending, IInv
<1>4. Scripted' /\ Inserts' /\ Origin' /\ Prefix' /\ Alike'
  BY <1>1, ScriptedPreserved, InsertsPreserved, OriginPreserved, PrefixPreserved, AlikePreserved DEF IInv
<1>5. OneRegistrar'
  <2>1. CASE InsertsDomain(j, pc)
    <3>1. /\ script[j].node \in Nodes /\ domains \in [Nodes -> Rows]
          /\ domains' = [domains EXCEPT ![script[j].node] = {script[j].row}]
          /\ inserted' = inserted \cup {j}
      BY <1>1, <2>1, Kinds, EffectTyped DEF IInv, Typed, InsertsDomain
    <3>2. domains'[script[j].node] # {}
      BY <3>1
    <3>3. QED BY <1>2, <3>1, <3>2, OneRegistrarPreserved DEF IInv
  <2>2. CASE inserted' = inserted
    BY <1>2, <2>2, OneRegistrarPreserved DEF IInv
  <2>3. QED BY <1>1, <2>1, <2>2 DEF Effect, InsertsTable, Sets, Transfers, Fails
<1>6. ReadOrigin' /\ ReadPrefix'
  BY <1>2, <1>3, ReadsPreserved DEF IInv
<1>7. QED BY <1>2, <1>3, <1>4, <1>5, <1>6 DEF IInv

\* a call that arrives has written nothing, and is no registration of a node yet
LEMMA ArriveInv ==
  ASSUME IInv, NEW j \in Jobs, Arrive(j)
  PROVE  IInv'
<1> USE DEF IInv
<1>1. PICK s \in Scripts :
        /\ script' = [script EXCEPT ![j] = s]
        /\ job' = [job EXCEPT ![j] = IF s.op = "register" THEN "domain" ELSE "write"]
  BY DEF Arrive
<1>2. /\ UNCHANGED <<domains, records, query, registry, faults, moves, double, overwritten, inserted>>
      /\ j \notin inserted /\ Grows
  BY ArriveGrows DEF Arrive, Scripted, tables, environment
<1>3. /\ script'[j] = s /\ job'[j] = IF s.op = "register" THEN "domain" ELSE "write"
      /\ \A k \in Jobs \ {j} : script'[k] = script[k] /\ job'[k] = job[k]
      /\ \A k \in inserted : script'[k] = script[k] /\ job'[k] = job[k]
  BY <1>1, <1>2 DEF Typed
<1>4. Typed'
  <2>1. tested' \in BOOLEAN
    BY DEF Arrive, Typed
  <2>2. script' \in [Jobs -> Scripts \cup {NoScript}] /\ job' \in [Jobs -> JobPc]
    BY <1>1 DEF Typed, JobPc
  <2>3. QED BY <1>2, <2>1, <2>2 DEF Typed
<1>5. Asked'
  BY <1>2 DEF Asked
<1>6. Scripted'
  BY <1>2, <1>3, Kinds DEF Scripted, Tables
<1>7. OneRegistrar' /\ Inserts' /\ Origin' /\ Prefix'
  BY <1>2, <1>3 DEF OneRegistrar, Inserts, Origin, Prefix, Untouched
<1>8. ReadOrigin' /\ ReadPrefix' /\ Alike'
  BY <1>2, ReadsPreserved, ArriveAlike
<1>9. QED BY <1>4, <1>5, <1>6, <1>7, <1>8

\* steps that leave the tables and the calls alone
LEMMA OtherInv ==
  ASSUME IInv, UNCHANGED <<tables, jobs, double, history>>, registry' \in [Nodes -> Row],
         faults' \in 0..MaxFaults, moves' \in 0..MaxMoves,
         query' \in [Queries -> QueryState], \A q \in Queries : query'[q] = query[q] \/ Sound(query'[q])
  PROVE  IInv'
<1> USE DEF IInv, tables, jobs, history
<1>1. Typed'
  BY DEF Typed
<1>2. Asked'
  BY DEF Asked, Sound
<1>3. Scripted' /\ OneRegistrar' /\ Inserts' /\ Origin' /\ Prefix'
  BY DEF Scripted, OneRegistrar, Inserts, Origin, Prefix, Untouched
<1>4. ReadOrigin'
  BY DEF ReadOrigin, OriginOf, Sound
<1>5. ReadPrefix'
  BY DEF ReadPrefix, PrefixOf, Sound, Untouched
<1>6. Alike'
  BY DEF Alike, Busy, Done
<1>7. QED BY <1>1, <1>2, <1>3, <1>4, <1>5, <1>6

LEMMA QueryInv ==
  ASSUME IInv, NEW q \in Queries, Ask(q) \/ QueryStep(q)
  PROVE  IInv'
<1>1. PICK answer : Answers(q, answer) /\ Sound(answer)
  BY QueryStepSound DEF IInv
<1>2. /\ query' = [query EXCEPT ![q] = answer] /\ answer \in QueryState
      /\ UNCHANGED <<tables, jobs, registry, moves, double, history>> /\ faults' \in 0..MaxFaults
  BY <1>1 DEF Answers, Step, Sound
<1>3. /\ query' \in [Queries -> QueryState]
      /\ \A p \in Queries : query'[p] = query[p] \/ query'[p] = answer
  BY <1>2 DEF IInv, Typed
<1>4. registry' \in [Nodes -> Row] /\ moves' \in 0..MaxMoves
  BY <1>2 DEF IInv, Typed
<1>5. QED BY <1>1, <1>2, <1>3, <1>4, OtherInv

LEMMA NextInv == IInv /\ [Next]_vars => IInv'
<1> SUFFICES ASSUME IInv, [Next]_vars
             PROVE  IInv'
  OBVIOUS
<1>1. CASE Move
  <2>1. registry' \in [Nodes -> Row] /\ moves' \in 0..MaxMoves
    BY <1>1, StoreAssumption DEF Move, IInv, Typed
  <2>2. UNCHANGED <<tables, jobs, query, faults, double, history>>
    BY <1>1 DEF Move
  <2>3. QED BY <2>1, <2>2, OtherInv DEF IInv, Typed
<1>2. ASSUME NEW j \in Jobs, Arrive(j)
      PROVE  IInv'
  BY <1>2, ArriveInv
<1>3. ASSUME NEW j \in Jobs, JobStep(j)
      PROVE  IInv'
  BY <1>3, JobStepInv
<1>4. ASSUME NEW q \in Queries, Ask(q) \/ QueryStep(q)
      PROVE  IInv'
  BY <1>4, QueryInv
<1>5. CASE UNCHANGED vars
  BY <1>5, OtherInv DEF vars, environment, IInv, Typed
<1>6. QED BY <1>1, <1>2, <1>3, <1>4, <1>5 DEF Next

LEMMA Invariance == Spec => []IInv
BY InitInv, NextInv, PTL DEF Spec

-----------------------------------------------------------------------------
(* Theorems *)

\* Every table, call and answer keeps its type; in particular a node never has
\* two rows in the domain table, whose primary key it is (postgres.ts:39-60).
THEOREM TypeCorrect == Spec => []TypeOK
<1>1. IInv => TypeOK
  <2> SUFFICES ASSUME IInv
               PROVE  TypeOK
    OBVIOUS
  <2>1. domains \in [Nodes -> SUBSET Row]
    BY DEF IInv, Typed, Rows
  <2>2. ASSUME NEW n \in Nodes
        PROVE  Cardinality(domains[n]) <= 1
    <3>1. domains[n] = {} \/ \E row \in Row : domains[n] = {row}
      BY DEF IInv, Typed, Rows
    <3>2. Cardinality({}) = 0
      BY FS_EmptySet
    <3>3. \A row \in Row : Cardinality({row}) = 1
      BY FS_Singleton
    <3>4. QED BY <3>1, <3>2, <3>3
  <2>3. double.domains \in [Nodes -> SUBSET Row] /\ double.records \in [Nodes -> Contents]
    BY DEF IInv, Typed, DoubleState, Rows
  <2>4. \A q \in Queries : query[q] \in QueryState
    BY DEF IInv, Typed
  <2>5. QED BY <2>1, <2>2, <2>3, <2>4 DEF IInv, Typed, TypeOK, JobPc, QueryState, QueryPc, Rows
<1>2. QED BY <1>1, Invariance, PTL

\* A registration that is answered with success has its domain and every
\* record it named in the tables, or what a setter made of that record, however
\* its four statements interleave with other calls and their failures
\* (postgres.ts:39-73).
THEOREM RegistrationComplete == Spec => []RegisteredIsComplete
<1>1. IInv => RegisteredIsComplete
  <2> SUFFICES ASSUME IInv, NEW j \in Jobs, script[j].op = "register", job[j] = "ok"
               PROVE  /\ domains[script[j].node] # {}
                      /\ \A f \in Field : script[j].records[f] # NoValue =>
                           \/ records[script[j].node][f] = script[j].records[f]
                           \/ <<script[j].node, f>> \in overwritten
    BY DEF RegisteredIsComplete
  <2>1. j \in inserted
    BY DEF IInv, Scripted
  <2>2. \A f \in Field : f.table \in Passed(job[j])
    BY Columns DEF Passed
  <2>3. QED BY <2>1, <2>2 DEF IInv, OneRegistrar, Inserts
<1>2. QED BY <1>1, Invariance, PTL

\* A query shows of each registration a part that was complete at some time:
\* with a text its addresses, with its contenthash all the rest, whatever the
\* order of its reads and of the statements of register (domain.ts:33-36 and
\* 80-83, postgres.ts:61-72).
THEOREM AnswersPrefixes == Spec => []AnswersArePrefixes
<1>1. IInv => AnswersArePrefixes
  BY DEF IInv, ReadPrefix, PrefixOf, AnswersArePrefixes, Untouched
<1>2. QED BY <1>1, Invariance, PTL

\* As long as calls come one by one and succeed, the in-memory repository has
\* the owners, texts and addresses of Postgres (memory.ts:71-113,
\* postgres.ts:39-77).
THEOREM DoublesAgree == Spec => []DoubleAgrees
<1>1. IInv => DoubleAgrees
  BY DEF IInv, Alike, DoubleAgrees
<1>2. QED BY <1>1, Invariance, PTL

\* No step of any call loses a domain or changes a record that is there, but
\* for the setter of that record: register inserts and never replaces, a
\* transfer keeps the row, and a node gets its domain once
\* (postgres.ts:39-77).
THEOREM NothingIsLost == Spec => [][Grows]_vars
<1>1. IInv /\ [Next]_vars => [Grows]_vars
  <2> SUFFICES ASSUME IInv, Next
               PROVE  Grows
    OBVIOUS
  <2>1. CASE Move
    BY <2>1, OthersGrow DEF Move, IInv
  <2>2. ASSUME NEW j \in Jobs, Arrive(j)
        PROVE  Grows
    BY <2>2, ArriveGrows DEF IInv
  <2>3. ASSUME NEW j \in Jobs, JobStep(j)
        PROVE  Grows
    BY <2>3, JobStepIsEffect, EffectGrows DEF IInv
  <2>4. ASSUME NEW q \in Queries, Ask(q) \/ QueryStep(q)
        PROVE  Grows
    <3>1. PICK answer : Answers(q, answer)
      BY <2>4, QueryStepSound DEF IInv
    <3>2. QED BY <3>1, OthersGrow DEF Answers, Step, IInv
  <2>5. QED BY <2>1, <2>2, <2>3, <2>4 DEF Next
<1>2. QED BY <1>1, Invariance, PTL DEF Spec

=============================================================================
