---------------------------- MODULE MetadataStore ----------------------------
(***************************************************************************)
(* The Postgres repository (gateway/src/repositories/postgres.ts) with its *)
(* four tables, the calls that write them, and the metadata service        *)
(* (cmd/metadata.ts), whose domainResolver answers a query from several    *)
(* reads of the tables and of the chain.  Beside it runs the in-memory     *)
(* repository that stands in for it in tests (memory.ts).                  *)
(*                                                                         *)
(* There are no transactions: each statement is atomic by itself, and      *)
(* writes and queries interleave between statements.                       *)
(***************************************************************************)
EXTENDS Integers, FiniteSets

CONSTANTS
  Nodes, ParentOf,    \* ParentOf[n]: the parent of n, or NoNode
  NoNode,
  Accounts,           \* owners
  Ours, Foreign,      \* the resolver of the service, and another
  AddressKeys, TextKeys,   \* coins; text keys, "pubkey" and "ABI" among them
  Values, Empty, Null, \* strings; the empty one; the zero address or "0x"
  NoValue, NoAccount, \* a missing row, an owner nobody has
  Jobs, Scripts,      \* calls that write, and what they may be
  Queries,
  FirstRegistry,      \* the registry at the start
  MaxFaults,          \* bound on statements and RPC calls that fail
  MaxMoves            \* bound on changes of the registry

\* the columns that identify a row beside its node
Field ==
  [table : {"address"}, key : AddressKeys] \cup [table : {"text"}, key : TextKeys]
  \cup [table : {"contenthash"}, key : {"only"}]

Tables == {"address", "text", "contenthash"}
Of(table) == {f \in Field : f.table = table}

Contents == [Field -> Values \cup {NoValue}]
Row == [owner : Accounts, resolver : {Ours, Foreign}]

Registration ==
  [op : {"register"}, node : Nodes, row : Row, records : Contents]
Setting == [op : {"set"}, node : Nodes, field : Field, value : Values]
Transfer == [op : {"transfer"}, node : Nodes, owner : Accounts]

ASSUME StoreAssumption ==
  /\ ParentOf \in [Nodes -> Nodes \cup {NoNode}] /\ NoNode \notin Nodes
  /\ {Empty, Null} \subseteq Values /\ NoValue \notin Values /\ NoAccount \notin Accounts
  /\ Scripts \subseteq Registration \cup Setting \cup Transfer
  /\ FirstRegistry \in [Nodes -> Row]
  /\ MaxFaults \in Nat /\ MaxMoves \in Nat

VARIABLES
  domains,    \* domains[n]: {} or the row of n
  records,    \* records[n][f]: the value of the row of n and f
  registry,   \* what the chain says of each node
  script,     \* script[j]: what j is to write
  job,        \* job[j]: the statement that j has reached
  query,      \* progress of each query
  faults, moves,
  double,     \* the in-memory repository, given the same calls
  \* history, read by the properties only:
  overwritten,        \* <<n, f>> that a call other than register has written
  inserted,           \* calls of register that inserted their domain
  tested      \* the calls so far ran one by one, each with success

tables == <<domains, records>>
jobs == <<script, job>>
environment == <<registry, faults, moves>>
history == <<overwritten, inserted, tested>>
vars == <<tables, jobs, query, environment, double, history>>

NoRecords == [f \in Field |-> NoValue]
NoScript == [op |-> "none"]

NoAnswer == [pc |-> "idle", node |-> NoNode, row |-> {},
             shows |-> {}, owner |-> NoAccount]

Init ==
  /\ domains = [n \in Nodes |-> {}] /\ records = [n \in Nodes |-> NoRecords]
  /\ registry = FirstRegistry
  /\ script = [j \in Jobs |-> NoScript] /\ job = [j \in Jobs |-> "idle"]
  /\ query = [q \in Queries |-> NoAnswer]
  /\ faults = 0 /\ moves = 0
  /\ double = [domains |-> domains, records |-> records]
  /\ overwritten = {} /\ inserted = {} /\ tested = TRUE

-----------------------------------------------------------------------------
(* The in-memory repository: maps of which a later entry replaces an       *)
(* earlier one, and where a registration has no contenthash.               *)

DoubleRegistered(d, s) ==
  [d EXCEPT !.domains[s.node] = {s.row},
            !.records[s.node] = [f \in Field |->
              IF s.records[f] = NoValue \/ f.table = "contenthash" THEN @[f]
              ELSE s.records[f]]]

\* setText, setAddr and setContentHash
DoubleSet(d, s) == [d EXCEPT !.records[s.node][s.field] = s.value]

\* of a node without a row nothing changes, and the call throws
DoubleTransferred(d, s) ==
  [d EXCEPT !.domains[s.node] = {[row EXCEPT !.owner = s.owner] : row \in @}]

DoubleAfter(d, s) ==
  CASE s.op = "register" -> DoubleRegistered(d, s)
    [] s.op = "set" -> DoubleSet(d, s)
    [] s.op = "transfer" -> DoubleTransferred(d, s)

-----------------------------------------------------------------------------
(* Writes *)

Busy(j) == job[j] \notin {"idle", "ok", "error"}

NoFault == UNCHANGED faults
Fault == faults < MaxFaults /\ faults' = faults + 1

Arrive(j) ==
  /\ job[j] = "idle"
  /\ \E s \in Scripts :
       /\ script' = [script EXCEPT ![j] = s]
       /\ job' = [job EXCEPT ![j] = IF s.op = "register" THEN "domain" ELSE "write"]
  /\ tested' = (tested /\ \A k \in Jobs : ~ Busy(k))
  /\ UNCHANGED <<tables, query, environment, double, overwritten, inserted>>

\* the call ends, and so does its twin in the in-memory repository
Ends(j, outcome) ==
  /\ job' = [job EXCEPT ![j] = outcome]
  /\ double' = IF outcome = "ok" THEN DoubleAfter(double, script[j]) ELSE double
  /\ tested' = (tested /\ outcome = "ok")

Proceeds(j, pc) ==
  IF pc = "ok" THEN Ends(j, "ok")
  ELSE job' = [job EXCEPT ![j] = pc] /\ UNCHANGED <<double, tested>>

\* the statement fails, without or after its effect
Statement(j, effect, none, next) ==
  \/ effect /\ NoFault /\ Proceeds(j, next)
  \/ (effect \/ none) /\ Fault /\ Ends(j, "error")

\* the rows of register for one table
New(j, table) == {f \in Of(table) : script[j].records[f] # NoValue}

\* Mutant of After: texts are inserted before addresses
AfterTextsFirst(j, table) ==
  IF table = "domain" /\ New(j, "text") # {} THEN "text"
  ELSE IF table \in {"domain", "text"} /\ New(j, "address") # {} THEN "address"
  ELSE IF table # "contenthash" /\ New(j, "contenthash") # {} THEN "contenthash"
  ELSE "ok"

\* the next table that register has rows for
After(j, table) ==
  IF table = "domain" /\ New(j, "address") # {} THEN "address"
  ELSE IF table \in {"domain", "address"} /\ New(j, "text") # {} THEN "text"
  ELSE IF table # "contenthash" /\ New(j, "contenthash") # {} THEN "contenthash"
  ELSE "ok"

\* Mutant of InsertDomain: a node is no primary key
InsertDomainAgain(j) ==
  /\ job[j] = "domain" /\ NoFault
  /\ domains' = [domains EXCEPT ![script[j].node] = @ \cup {script[j].row}]
  /\ Proceeds(j, After(j, "domain"))
  /\ UNCHANGED <<records, script, query, registry, moves, overwritten, inserted>>

\* the first statement of register: a node is a primary key
InsertDomain(j) ==
  /\ job[j] = "domain"
  /\ LET s == script[j] IN
     \/ /\ domains[s.node] = {}
        /\ Statement(j, domains' = [domains EXCEPT ![s.node] = {s.row}] /\ inserted' = inserted \cup {j},
                     UNCHANGED <<domains, inserted>>, After(j, "domain"))
     \/ /\ domains[s.node] # {} /\ NoFault
        /\ Ends(j, "error") /\ UNCHANGED <<domains, inserted>>
  /\ UNCHANGED <<records, script, query, registry, moves, overwritten>>

Inserted(j, table) ==
  [records EXCEPT ![script[j].node] =
     [f \in Field |-> IF f \in New(j, table) THEN script[j].records[f] ELSE @[f]]]

\* Mutant of InsertRecords: rows that exist already are passed over
InsertMissing(j, table) ==
  /\ job[j] = table /\ NoFault
  /\ records' = [records EXCEPT ![script[j].node] =
       [f \in Field |-> IF f \in New(j, table) /\ @[f] = NoValue
                        THEN script[j].records[f] ELSE @[f]]]
  /\ Proceeds(j, After(j, table))
  /\ UNCHANGED <<domains, script, query, registry, moves, overwritten, inserted>>

\* Mutant of InsertRecords: the statement is not awaited
InsertUnawaited(j, table) ==
  /\ job[j] = table
  /\ \/ NoFault /\ records' = Inserted(j, table)
     \/ Fault /\ UNCHANGED records
  /\ Proceeds(j, After(j, table))
  /\ UNCHANGED <<domains, script, query, registry, moves, overwritten, inserted>>

\* the three statements that follow: a duplicate key fails all its rows
InsertRecords(j, table) ==
  /\ job[j] = table
  /\ LET taken == {f \in New(j, table) : records[script[j].node][f] # NoValue} IN
     \/ /\ taken = {}
        /\ Statement(j, records' = Inserted(j, table), UNCHANGED records, After(j, table))
     \/ /\ taken # {} /\ NoFault
        /\ Ends(j, "error") /\ UNCHANGED records
  /\ UNCHANGED <<domains, script, query, registry, moves, overwritten, inserted>>

\* an upsert, whether or not the node is registered
Upsert(j, table) ==
  /\ job[j] = "write" /\ script[j].op = "set" /\ script[j].field.table = table
  /\ LET s == script[j] IN
     /\ Statement(j, records' = [records EXCEPT ![s.node][s.field] = s.value],
                  UNCHANGED records, "ok")
     /\ overwritten' = overwritten \cup {<<s.node, s.field>>}
  /\ UNCHANGED <<domains, script, query, registry, moves, inserted>>

SetContentHash(j) == Upsert(j, "contenthash")
SetAddr(j) == Upsert(j, "address")

\* and, with a reserved key, setPubkey and setAbi
SetText(j) == Upsert(j, "text")

\* transfer: an update of no row is a success
TransferDomain(j) ==
  /\ job[j] = "write" /\ script[j].op = "transfer"
  /\ LET s == script[j] IN
     Statement(j, domains' = [domains EXCEPT ![s.node] = {[row EXCEPT !.owner = s.owner] : row \in @}],
               UNCHANGED domains, "ok")
  /\ UNCHANGED <<records, script, query, registry, moves, overwritten, inserted>>

-----------------------------------------------------------------------------
(* Queries *)

\* what the joins of getDomain and getSubdomains leave of the rows of n
Joined(n) ==
  {<<n, f, records[n][f]>> : f \in {f \in Field :
     /\ records[n][f] # NoValue
     /\ f.table # "contenthash" => records[n][f] # Empty
     /\ f.table = "address" => records[n][f] # Null}}

\* getTexts: the second parameter named key replaces the first, so that keys
\* "ABI" are left out and keys "pubkey" are not
Texts(n) ==
  {<<n, f, records[n][f]>> : f \in {f \in Of("text") :
     f.key # "ABI" /\ records[n][f] \notin {NoValue, Empty}}}

\* getAddresses
Addresses(n) ==
  {<<n, f, records[n][f]>> : f \in {f \in Of("address") : records[n][f] \notin {NoValue, Empty}}}

Step(q, changes) ==
  /\ query' = [query EXCEPT ![q] = changes]
  /\ UNCHANGED <<tables, jobs, registry, moves, double, history>>

Failed(q) == [NoAnswer EXCEPT !.pc = "failed"]

Ask(q) ==
  /\ query[q].pc = "idle"
  /\ \E n \in Nodes : Step(q, [NoAnswer EXCEPT !.pc = "domain", !.node = n])
  /\ UNCHANGED faults

\* getDomain with relations, one statement
GetDomain(q) ==
  /\ query[q].pc = "domain"
  /\ LET n == query[q].node IN
     \/ /\ NoFault
        /\ Step(q, IF domains[n] = {} THEN [query[q] EXCEPT !.pc = "resolver"]
                   ELSE [query[q] EXCEPT !.pc =
                           IF \E row \in domains[n] : row.resolver = Ours THEN "expiry" ELSE "hidden",
                         !.row = domains[n], !.shows = Joined(n)])
     \/ Fault /\ Step(q, Failed(q))

\* Mutant of GetResolver: it is asked until it answers
GetResolverAgain(q) ==
  /\ query[q].pc = "resolver" /\ registry[query[q].node].resolver = Ours
  /\ NoFault /\ Step(q, [query[q] EXCEPT !.pc = "expiry"])

\* client.getResolver, which answers undefined when it fails
GetResolver(q) ==
  /\ query[q].pc = "resolver"
  /\ LET serves == registry[query[q].node].resolver = Ours IN
     \/ NoFault /\ Step(q, [query[q] EXCEPT !.pc = IF serves THEN "expiry" ELSE "hidden"])
     \/ Fault /\ Step(q, [query[q] EXCEPT !.pc = "hidden"])

\* client.getExpireDate, 0 when it fails
GetExpireDate(q) ==
  /\ query[q].pc = "expiry"
  /\ NoFault \/ Fault
  /\ Step(q, [query[q] EXCEPT !.pc = "subdomains"])

\* getSubdomains, one statement; a query with a row has all it needs then
GetSubdomains(q) ==
  /\ query[q].pc = "subdomains"
  /\ \/ /\ NoFault
        /\ LET children == {n \in Nodes : ParentOf[n] = query[q].node /\ domains[n] # {}} IN
           Step(q, [query[q] EXCEPT
             !.pc = IF query[q].row = {} THEN "texts" ELSE "answered",
             !.shows = @ \cup UNION {Joined(n) : n \in children}])
     \/ Fault /\ Step(q, Failed(q))

GetTexts(q) ==
  /\ query[q].pc = "texts"
  /\ \/ NoFault /\ Step(q, [query[q] EXCEPT !.pc = "addresses", !.shows = @ \cup Texts(query[q].node)])
     \/ Fault /\ Step(q, Failed(q))

GetAddresses(q) ==
  /\ query[q].pc = "addresses"
  /\ \/ NoFault /\ Step(q, [query[q] EXCEPT !.pc = "owner", !.shows = @ \cup Addresses(query[q].node)])
     \/ Fault /\ Step(q, Failed(q))

\* client.getOwner
GetOwner(q) ==
  /\ query[q].pc = "owner"
  /\ \/ NoFault /\ Step(q, [query[q] EXCEPT !.pc = "answered", !.owner = registry[query[q].node].owner])
     \/ Fault /\ Step(q, Failed(q))

\* the node changes hands or resolvers on the chain
Move ==
  /\ moves < MaxMoves /\ moves' = moves + 1
  /\ \E n \in Nodes, row \in Row : registry' = [registry EXCEPT ![n] = row]
  /\ UNCHANGED <<tables, jobs, query, faults, double, history>>

JobStep(j) ==
  \/ InsertDomain(j) \/ TransferDomain(j)
  \/ SetContentHash(j) \/ SetAddr(j) \/ SetText(j)
  \/ \E table \in Tables : InsertRecords(j, table)

QueryStep(q) ==
  \/ GetDomain(q) \/ GetResolver(q) \/ GetExpireDate(q) \/ GetSubdomains(q)
  \/ GetTexts(q) \/ GetAddresses(q) \/ GetOwner(q)

Next ==
  \/ Move
  \/ \E j \in Jobs : Arrive(j) \/ JobStep(j)
  \/ \E q \in Queries : Ask(q) \/ QueryStep(q)

Spec == Init /\ [][Next]_vars

(***************************************************************************)
(* Each statement and RPC call settles, and its continuation is run.       *)
(***************************************************************************)
FairSpec == Spec /\ \A q \in Queries : WF_vars(QueryStep(q))

-----------------------------------------------------------------------------
(* Properties *)

Shown == {<<n, f, v>> : n \in Nodes, f \in Field, v \in Values}

TypeOK ==
  /\ domains \in [Nodes -> SUBSET Row] /\ \A n \in Nodes : Cardinality(domains[n]) <= 1
  /\ records \in [Nodes -> Contents]
  /\ registry \in [Nodes -> Row]
  /\ script \in [Jobs -> Scripts \cup {NoScript}]
  /\ job \in [Jobs -> Tables \cup {"idle", "domain", "write", "ok", "error"}]
  /\ \A q \in Queries : query[q] \in
       [pc : {"idle", "domain", "resolver", "expiry", "subdomains", "texts", "addresses",
              "owner", "answered", "hidden", "failed"},
        node : Nodes \cup {NoNode}, row : {{}} \cup {{row} : row \in Row},
        shows : SUBSET Shown, owner : Accounts \cup {NoAccount}]
  /\ faults \in 0..MaxFaults /\ moves \in 0..MaxMoves
  /\ double.domains \in [Nodes -> SUBSET Row] /\ double.records \in [Nodes -> Contents]
  /\ overwritten \subseteq Nodes \X Field /\ inserted \subseteq Jobs /\ tested \in BOOLEAN

\* A registration that is answered with success is in the tables with every
\* record it named, or what a later call made of it, although it is made of
\* four statements without a transaction, and records of its node may be there
\* before it or be written between its statements (postgres.ts:39-73).
RegisteredIsComplete ==
  \A j \in Jobs : script[j].op = "register" /\ job[j] = "ok" =>
    LET s == script[j] IN
    /\ domains[s.node] # {}
    /\ \A f \in Field : s.records[f] # NoValue =>
         records[s.node][f] = s.records[f] \/ <<s.node, f>> \in overwritten

Earlier(f, g) ==
  \/ f.table = "address" /\ g.table # "address"
  \/ f.table = "text" /\ g.table = "contenthash"

\* A query that meets a registration halfway shows a part of it that was
\* complete at some time: with a text of it, its addresses, with its contenthash
\* all the rest.  register inserts addresses before texts, and a query reads
\* texts before addresses when it does not read them in one statement
\* (postgres.ts:61-72, domain.ts:33-36 and 80-83).
AnswersArePrefixes ==
  \A q \in Queries, j \in inserted : query[q].pc = "answered" =>
    LET s == script[j]
        shown(f) == <<s.node, f, s.records[f]>> \in query[q].shows
    IN  \A f, g \in Field :
          /\ Earlier(f, g) /\ s.records[f] \notin {NoValue, Empty, Null}
          /\ {<<s.node, f>>, <<s.node, g>>} \cap overwritten = {}
          /\ shown(g)
          => shown(f)

\* What the tests learn from the in-memory repository holds of Postgres: as
\* long as calls come one by one and succeed, both give the same owners,
\* texts and addresses; a call that one of them refuses or that ends halfway
\* is where they part (memory.ts:71-113, postgres.ts:39-77).
DoubleAgrees ==
  tested /\ (\A j \in Jobs : ~ Busy(j)) =>
    /\ double.domains = domains
    /\ \A n \in Nodes, f \in Field : f.table # "contenthash" =>
         double.records[n][f] = records[n][f]

\* Every query is answered, with data, with nothing or with an error
\* (domain.ts:26-110, ethereumClient.ts:78-109).
EveryQueryEnds ==
  \A q \in Queries : query[q].pc = "domain" ~> query[q].pc \in {"answered", "hidden", "failed"}

=============================================================================
