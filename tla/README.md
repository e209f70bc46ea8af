# TLA+ models of the external resolver

This directory holds a formal model of the external resolver: the L1 contracts
that defer ENS reads and writes, the gateways that serve them, and the client
flow that ties the two together. The modules are translated from the code; line
references in comments are relative to the repository.

* [Inventory](#inventory) – the system, its parts, their state and what makes them hard
* [Modules](#modules) – which module models which code, and how
* [Runs](#runs) – what TLC checks, with which bounds and which fairness
* [Proofs](#proofs) – what TLAPS proves, from what and how
* [Divergences](#divergences-between-the-documentation-and-the-code)
* [Not modelled](#abstractions-and-what-is-not-modelled) and [plan](#plan)

Everything runs from this directory: `tlc -config MCDatabaseGateway_nodes.cfg
MCDatabaseGateway` checks a run, `tlapm DatabaseGatewayProofs.tla` the proofs of
a module. `PROJECT.json` lists the runs, the mutants, the source lines of each
definition, the hazards and the theorems.

## Inventory

A name is resolved by a contract on L1 that keeps no records itself. It reverts
with where the data is, and the caller follows:

```
 client ── resolve(name, data) ──> DatabaseResolver          L1Resolver ── fetch ──> EVMFetcher
   │  <── revert OffchainLookup(url) ──┘  (SignatureVerifier,     │  <── revert OffchainLookup(program)
   │                                     EnumerableSet of signers)│
   ├── GET/POST url ──> database gateway ──> MongoDB              ├── url ──> proof gateway ──> L1 and L2 RPC
   │                    (ccip-server, handlers,    registry RPC   │           (slots, ArbProofService,
   │                     validator, repository,                   │            block cache, proof helper)
   │                     signing middleware)                      │
   └── resolveWithProof(answer, request) ──> checks signature     └── callback(proofs) ──> verifier: EVMProofHelper
```

A write to the `DatabaseResolver` reverts with a message that the client signs
(EIP-712) and posts to the gateway; a write to `L1Resolver` reverts with the L2
contract to call instead.

| Part | State | Operations | What makes it hard |
|---|---|---|---|
| Database gateway server (`ccip-server`, `cmd/database.ts`) | requests in flight, answers | request, multicall, reply, error | a request has many awaits; the calls of a multicall run concurrently and share one signature |
| Handlers (`handlers/*.ts`) | none | setText, setAddr, setContenthash, setABI, setPubkey, transfer, register, text, addr, contenthash | each is a chain of RPC and database calls with different error answers |
| Ownership validation (`services/ownership.ts`, `ethereumClient.ts`) | none | two verifiers under `Promise.all`, the database's one stores the owner it saw | ownership moves between check and write; a verifier outlives the answer of its request |
| Mongo repository (`repositories/mongo.ts`) | the collection; unique indexes on LEI and hash | find, update, insert, upsert | no transactions: a text write is a read and a later update; a node can have two documents |
| Signing middleware (`middlewares/signer.ts`) | none | re-read the record, store its hash, sign | works on the record as it is then, not as the handler left it |
| `DatabaseResolver`, `SignatureVerifier` | signers, URL, timeout | lookups, `resolveWithProof`, deferrals, owner operations | signed answers come late, twice or for another read; signers are removed meanwhile |
| `EnumerableSetUpgradeable` | an array and an index mapping | add, remove, contains, values | swap-and-pop must keep the two views inverse |
| Client (`client/src`) | one call | read, sign, post | acts on what the contract said earlier |
| Proof gateway (`cmd/arbitrum.ts`, `handlers/slots.ts`, `services/ArbProof.ts`) | a one-entry block cache | getStorageSlots | the commands of a request run concurrently and wait for each other; requests overwrite the cache under each other |
| Proof verification (`evmgateway/*.sol`) | none | callback with proofs | the verifier takes proofs by position: the gateway must derive the same slots in the same order |
| Fetch request builder (`EVMFetcher.sol`) | a request in memory: commands, constants | getStatic, getDynamic, element, ref, fetch | three limits, one of which nothing compares with; bytes that end a path |
| `L1Resolver` | targets | reads as programs, deferral | targets change between price, deferral and transaction; records are versioned |
| L1 proof service, `L1Verifier` | none | getStorageSlots from the head of a chain | a block is only a number: storage, proofs and header are asked for apart |
| `SubdomainController` | price | register with payment | several clients want one name; expiry; the name wrapper |
| Metadata service (`repositories/postgres.ts`, `resolvers/domain.ts`) | four tables | register, set, transfer, queries | inserts without a transaction; queries of several reads |
| In-memory repository | maps | the same calls | stands in for Postgres in tests |
| Batch query handler | none | posts calls to gateways in turn | – |
| Logger, call data parsing, deployment | none | – | – |

What makes each of them correct, and where it is stated:

* **Writes are entitled.** A record changes only for an account that the
  contracts on chain named as holder of the node while the request was alive,
  each contract naming the next in the order they are asked
  (`WritesWereEntitled`); the owner stored is one the registry had
  (`OwnerComesFromChain`).
* **Writes are atomic to readers.** A call takes effect at most once, between
  arrival and end, on its own field only (`ImplementsRecordStore`).
* **A signature tells the truth.** It is about the node that was written, and
  covers every text of the request (`SignedHashCoversOwnWrites`).
* **A node's documents are ordered** in the same way whatever interleaves
  (`StubPrecedesRegistration`).
* **What `resolveWithProof` accepts was stored**: the hash in a signed reply is
  one that the record had after a client's write of the same call data, not too
  long ago, signed by a current signer (`AcceptedWasStored`,
  `AcceptedIsVouchedFor`). Reads get no signature at all. And the list of signers is a set
  (`SignersAreConsistent`, `ImplementsSignerSet`).
* **A proved value is a snapshot.** All the values a client accepts were in the
  contract at one block, of a node number no older than the request (`AcceptedIsFreshSnapshot`,
  `ServedPartsMatch`), and honest answers about a contract that holds anything
  verify (`OnlyFaultsRevert`).
  On a single chain they were there, all at once, while the request was served,
  reorganisations included (`AcceptedWasCurrent`), a record is that of the
  node's version of the same moment (`AnswersWereCurrent`), and a refusal has a
  cause (`RevertsHaveCause`).
* **A request means what the calls that built it say**, or is refused
  (`FetchedDecodes`, `FetchedIffFits`).
* **A name has one owner** (`RegisteredOwns`), and a client that offers the
  price it was told is turned away for a cause only (`RefusedForCause`).
* **A registration that is answered is complete** (`RegisteredIsComplete`), and
  a query sees a prefix of one that is not (`AnswersArePrefixes`); what tests
  learn from the in-memory repository is true of Postgres (`DoubleAgrees`).
* **Requests end** (`EveryRequestEnds` in both gateways, `EveryReadEnds`,
  `EveryQueryEnds`).

## Modules

### The database gateway

`EntityRecords` – the Mongo collection: a sequence of documents in insertion
order (what `findOne` scans), the two unique indexes, `setText`'s hash of a
record. A document is *registered* (`register` gave it its LEI) or a *stub* (the
upsert of the ownership check). `keccak256` of the JSON text is modelled by what
it distinguishes: field values, whether the LEI is there, and whether one field
stands out of the sorted order, which happens when `setText` adds a key to the
already sorted record (`HashWith`, mongo.ts:259-264).

`DatabaseGateway` – the running server. Every `await` ends an action, so all
calls of all requests interleave at their RPC and database accesses.

| Variable | In the code |
|---|---|
| `docs` | the collection |
| `chain` | what the contracts say, a sequence of states whose last is the present: for each node the registry's owner (an account, the name wrapper or the multisig), the wrapper's `ownerOf` and the registrar's (`held`); of the multisig its member contract, and the roles each member contract gives (`team`) |
| `script`, `call`, `req` | requests in flight: what each asks for, the point each of its handlers has reached (with its local variables), the state of the answer |
| `faults` | bound on failures and crashes; the length of `chain` bounds the changes there |
| `arrived`, `since`, `contended` | history, read by properties only, as are the past states of `chain` |

| Action | Code |
|---|---|
| `Arrive` | `Server.handleRequest`, `Server.call`, the chain id check of `verifyOwnership` |
| `EthOwner`, `EthOwnerOf`, `EthLegacyOwner` | the first verifier, one action for each awaited read: the registry's owner, then `ownerOf` of the wrapper, then `ownerOf` of the registrar; an error of the first fails the verifier, of the others it means no holder |
| `DbOwner`, `DbManager`, `DbRole`, `SyncOwner` | the second one, which runs beside it: the registry's owner, `entityMemberManager` of the multisig, `userRoleLookup` of what that named; or the upsert of the owner. Errors answer false |
| `Reject` | 400 on an error, 401 when neither verifier agrees, 400 on the keys `ABI` and `pubkey` |
| `ReadRecord`, `WriteText` | `setText`: `fetchAndPrepareRecord`, then `findOneAndUpdate` of key and hash |
| `WriteField`, `ReadOwner`, `WriteOwner`, `SetNothing` | `setAddr`/`setContentHash`, `transfer`, `setABI`/`setPubkey` |
| `ReadLEI`, `CreateEntity` | `register` |
| `Read` | `text`, `addr`, `contenthash`, and the errors of encoding their results |
| `Respond`, `SignFetch`, `SignSave` | the multicall handler and `withSigner` |
| `Crash`, `Move`, `Regroup` | the process ends; a node changes hands; the multisig changes its member contract or its roles |

`RecordStore` – the abstract specification: what a reader of a node sees, and
calls that take effect at most once, at one instant between arrival and end, on
the one field they name. `DatabaseGateway!ImplementsRecordStore` maps the first
document of each node to the abstract record and the progress of a call to
`idle`/`open`/`over`.

### The database resolver

`EnumerableSet` – the library's array and mapping, with swap-and-pop.
`SignerSet` – the abstract set. `DatabaseResolver` – the contract's state
(`signers`, `gatewayUrl`, `timeout`), the owner's operations, reads (`Lookup`,
`AnswerLookup`), deferred writes and their signed replies (`Defer`, `Post`,
`Stamp`, `Sign`), the callback (`ResolveWithProof`) and, as environment, the
writes of others (`StoreValue`) and `Tick`.

The middleware signs nothing but the replies to `setText` and to a multicall
that has one (`Signable`), because it knows no node for any other call
(signer.ts:42-57). So a read is always refused here, and what an answer carries is the
hash of a record. `Stamp` and `Sign` are apart as in the code: the life time is
set (signer.ts:30) before the record is read and hashed (57). Such a reply has
the form that `resolveWithProof` verifies, for the call data and the sender of
the write; the contract binds nothing else, so whoever calls it may do so with
either. `held` and `made` are histories of the hashes of each record and of the
writes of clients. A transaction is atomic; one that loops
over a list (`addSigners`, `removeSigners`, the constructor) takes one step for
each signer, during which nothing else moves (`Idle`). Signed answers are never
removed from `answers`, and any of them may reach any client.

### The proof gateway

`StorageProof` – what a program of `EVMFetcher` reads from a storage
(`Reading`), and what `EVMProofHelper.getStorageValues` makes of a list of
proofs that it consumes by position (`Verified`). A Merkle proof is modelled by
what it shows: the value of its own slot, or, for a proof that happens to end
where the path of another slot does, that the other slot is empty (`lenient`).
A contract whose storage is empty has no trie (`HasTrie`): its proofs are empty
lists, which `MerkleTrie.get` refuses, as `getStorageRoot` refuses one that is
not there at all. `Verified` speaks of programs whose paths begin with the
number of a slot (`Based`, what `EVMFetcher` builds) and refer back to static
commands (`StaticRefs`, all that a gateway serves): of a dynamic command the
verifier would hash the bytes of the value.

`ProofGateway` – the rollup (`CreateNode`, `Age`, and `RemoveNode`, which an L1
reorganisation does), `ArbProofService` with its
block cache (`AskLatest`, `FetchLogs`, `FetchBlock`), the concurrent commands of
`getStorageSlots` (`ReadValue`, `Locate`, `LocateFails`, `Prove`) and the
client's `Callback`. The cache entry is one variable that all requests share.
Node numbers are reused after a removal, blocks are not: `blocks` has every
block that a node asserted and `nodes` the node numbers of now. As in the code,
the callback does not compare the block with the rollup. A failed
`eth_getStorageAt` reads as zero, as `EVMProofHelper` in
`services/evmproof.ts` answers it.

`SlotsFor` (what the gateway asks proofs for) and `Witness` are in
`StorageProof`, as both gateways use them.

### Building a request

`FetchBuilder` – `EVMFetcher`. The variable `request` has the commands, each
the sequence of the bytes written to its word, the constants, and what has
become of it. `Get` (getStatic, getDynamic), `Element` (its overloads), `RefTo`
and `Fetch` are the calls; `NoCommand` is the panic of a call without command.
`AddConstant` has no check, as in the code: the constant too many is written to
the word behind the array, which is the verifier of the request
(`newFetchRequest` allocates the two one after the other). From then on
(`overwritten`) calls may run into what they have destroyed or not, and `Fetch`
calls a contract at an address that has none. `Decoded` is what `slots.ts` and
`EVMProofHelper` read back, byte by byte; `wanted` is a history of what the calls
ask for, as a program of `StorageProof`.

### The L1 resolver

`L1Gateway` – the proof gateway of `cmd/ethereum.ts`, as actions on a request
without a specification of its own.

| Variable | In the code |
|---|---|
| `chain` | the storage of each contract after each block |
| `read` | requests: the block *number*, slots, values, proofs and root they have so far, the outcome for the client |
| `mishaps` | bound on reorganisations and failed RPC calls |
| `current`, `failed`, `shaken` | history, read by properties only |

`GetBlock` (getProvableBlock), `ReadValue`, `Locate` (getStorageAt), `Prove` and
`GetHeader` (the two calls of `L1ProofService.getProofs`) read the chain at the
number in separate steps; `Mine` and `Reorg` may come between any two.
`Callback` is `getStorageSlotsCallback` with `L1Verifier`: a proof of the account
under another root is refused (`Verdict`), and so is an account that is missing
or empty, like the resolver of the genesis block.

`L1Resolver` extends it with the state of the resolver (`targets`, set by
`SetTarget`), the programs of its reads (`RecordProgram`, `ParamsProgram`) and
callbacks (`Returned`), the contracts of the other chain as environment
(`SetRecord`, `ClearRecords`, the storage of a name wrapper), and clients:

| Action | Code |
|---|---|
| `Resolve` | `resolve`, `addr`, `text`, `contenthash` up to the revert of `fetch` |
| `AskPrice`, `Defer` | `write.ts`: registerParams, then register and its `StorageHandledByL2` with the target of that moment |
| `Simulate`, `Include` | simulateContract and writeContract, then `SubdomainController.register` in a block, with its two checks, `setSubnodeRecord` and the records |
| `Reorganise` | the head is replaced; a registration in it is sent again |

### The metadata service

`MetadataStore` – the four tables of the Postgres repository (`domains`,
`records`), what the chain says (`registry`), and the in-memory repository as
`double`, which is given every call that succeeds. One action per statement:
`InsertDomain` and `InsertRecords` are `register`, `SetContentHash`, `SetAddr`
and `SetText` the upserts (`setPubkey` and `setAbi` are texts with a reserved
key), `TransferDomain` the update. A query is `domainResolver`: `GetDomain`,
`GetResolver`, `GetExpireDate`, `GetSubdomains` and, for a node without a row,
`GetTexts`, `GetAddresses` and `GetOwner`. A statement may fail without or after
its effect.

## Runs

Deadlock checking is off in every run: requests, changes and clocks are bounded,
so every behaviour ends in a state where nothing is left to do. Requests are
interchangeable and a symmetry set in `gateway_nodes`, `gateway_hash`,
`gateway_transfer` and `resolver`, which check no liveness.

| Run | Bounds | What it shows |
|---|---|---|
| `gateway_owners` | 1 request (two texts of one record, or a registration and a transfer), 5 ways to hold a node, 3 teams, 2 changes on chain, 1 failure or crash | entitlement and owners from the chain, whatever changes between the reads; a hash that covers both texts |
| `gateway_nodes` | 2 requests, 2 nodes, 1 change on chain, registrations and a multicall over both nodes | unique indexes and the order of documents; refinement of `RecordStore` |
| `gateway_faults` | 2 requests, every kind of call, 4 ways to hold a node, 1 failure or crash | types; the same promises under partial failure; the hash that a request alone leaves; every request is answered |
| `resolver` | 2 client calls of 3 kinds of call data, 2 gateways, 3 signers, 2 owner transactions, 1 write of others, clock to 2 | the signer set; accepted replies are fresh, vouched for and for their own data |
| `proofs` | 2 requests, 2 nodes created, each may be removed, 1 failed RPC call, 3 contents, 2 programs | answers are consistent snapshots; refusals have a cause; requests end |
| `fetcher` | words of 4 bytes, operands of 2 bits, 2 commands, 4 constants, 8 calls, 2 words | requests are read back as they were meant, or refused, and only for a limit |
| `l1resolver` | 2 clients (both register, one reads), 1 name, 2 registrars, 1 retarget, 3 blocks, 1 failure or reorganisation, version to 1 | accepted answers were current; reverts and refusals have a cause; one owner; reads end |
| `metadata` | 2 writes of 7 kinds, 1 query, a node and its subdomain, 1 failure, 1 move | registrations are complete or a prefix; the test double agrees; queries end |

Each has a hazard that needs exactly these sizes: two requests are what it takes
for one to act between the read and the write of another, or to overwrite the
cache under it; two calls in a multicall give a result the signature is not
about; two nodes compete for the single missing LEI; one change on chain separates the
check from the write, two come between the three reads of one verifier (an
account can be owner, wrapped owner, legacy owner or in a role at one time and
not at another); one failure separates an effect from its answer (two
failures only end more calls early); three signers let a removal move a value
that is neither removed nor first; a clock to 2 with a life time of 1 has an
answer that is valid, one at its last instant and one that is expired; two nodes
give an older and a newer block, and, when one is removed between, two blocks of
one number. The contents are nothing at all, a text of one data word with many
leading zero bytes, and one with few after a change of the record version, so
that the second command depends on the first; the older record below it is a
short text. `proofs_long` has a text of two data words. The second program
refers to itself.

The sizes of `fetcher` keep the proportions of the code: the number of constants
is that of operands, so the constant too many is the first whose number would be
another opcode; a word has room for the flag and three operations, so a path can
fill it and lose its `OP_END`; eight calls exceed each limit. In `l1resolver`
three blocks are the genesis, in which the resolver is empty, a change and one more, which a reorganisation can
replace; the record is set, cleared (version 1) and set again; the second
registrar has a higher price. The run of one record and no long values leaves
those to `proofs`. In `metadata` the registrations of one node by two jobs
compete, also with settings of the same keys; the query can meet either between
any two statements.

Requests of a run draw their scripts from a small set, so they can be equal:
the same write twice, by the same or by another signer, is among the behaviours.
For every property of a passing run `PROJECT.json` names a mutant: a plausible
error in one mapped definition (kept beside it, under a comment "Mutant of")
under which TLC finds the property violated.

**Fairness.** `EveryRequestEnds`, `EveryReadEnds` and `EveryQueryEnds` are
checked under weak fairness of each request's (read's, query's) own steps. An
RPC or database call settles, with a result or an error
(client libraries time out), and Node.js runs the continuation of a settled
promise; no step of a request waits for another request. Nothing forces
clients to send, nodes to move, the rollup to grow or the process to crash.
All other properties are safety and need no fairness.

## Proofs

The proofs hold for every value of the constants that satisfies the named
assumptions, which TLC evaluates in each run: any sets of nodes, fields,
requests, scripts, programs and contents, any bounds on faults, moves, blocks,
time and sizes. What the assumptions ask for beyond types:

| Assumption | Asks for |
|---|---|
| `RecordAssumption` | there is a node and a field `owner`; positions of field names differ; `Absent` is neither a value nor the fields of a record |
| `GatewayAssumption` | accounts are values; wrapper, multisig and the answer "nobody" are no accounts; a script has a call, at most `MaxCalls` and only one unless it is a multicall; nodes are not the words `0x`, `other`, `none` |
| `ResolverAssumption` | each gateway URL has a key, call data a node; the resolver is nobody that sends writes; times are natural numbers |
| `StorageAssumption` | zero is a word that is no header of a long value |
| `ProofAssumption` | programs and contents have their types; a program has a command, and its paths begin with the number of a slot (`Based`) |
| `BuilderAssumption` | a word has room for the flag and one byte; at most as many constants as operand numbers |
| `L1GatewayAssumption`, `L1ResolverAssumption`, `QuestionAssumption` | the chain has a genesis block; the contracts are different ones; no client has the address zero; a record is one word; prices and expiries are words |
| `StoreAssumption` | the empty and the filtered string are values; the markers of absence are not values, nodes or accounts |

Every safety property of the passing runs is stated by a theorem.

| Theorem | Says | Argument |
|---|---|---|
| **`DatabaseGatewayProofs`** | | |
| `TypeCorrectness` | types | `TypeInv`: with `TypeOK`, that slots without a call stay idle and that a record that was read or written stays (documents are never removed); otherwise `docs[First(docs, n)]` could not be typed |
| `WritesEntitled` | `WritesWereEntitled` | `Entitlement`: a verifier that is pending belongs to a call that passed the chain check (`ChecksPending`); between two reads it remembers what some state since the arrival said (`HadOwner`, `HadMembers`), and a positive answer, or a call in its write, is of an entitled signer (`AnswersAreTrue`). `chain` only grows, so none of this is lost when the contracts change (`EntitledStays`) |
| `StubPrecedes` | `StubPrecedesRegistration` | each step changes documents in place or appends one that the index accepts and that no document of its node excludes (`DocsFollow`) |
| `OwnerFromChain` | `OwnerComesFromChain` | `OwnerInv`: an owner that a call has read but not yet stored is one the registry has had for the node (`Owners`, over the states of `chain`) |
| `SignedHashCovers` | `SignedHashCoversOwnWrites` | `SignInv`: a first word that is a node is that of a `setText` that wrote there (`FirstIsOwn`); once a text is written, the hash of the current version of its record is in `since` until the request is answered (`HashIsKnown`), so the hash that `SignFetch` takes is there for each text (`HashCovers`) |
| `UncontendedCurrent` | `UncontendedHashIsCurrent` | `SignInv` again: requests that are under way together are contended (`OverlapIsNoticed`), and a call that has ended has no verifier left unless its check failed (`ChecksEnd`), so nobody writes between the read and the update of the middleware (`HashIsCurrent`) |
| `ImplementsRecords` | the gateway implements `RecordStore` | `EffectFollows`: one step of a call changes what readers see (`View`) not at all, in the owner of its node, or, as the call ends, in the field it names; `setText` takes effect in its second database call, and its first is a stutter. `Arrive` maps to `Open`, `Crash` to a `Drop` of all open calls, answers and signatures to stutters. Needs `IdleIsUntouched`: what has arrived is not idle again |
| **`DatabaseResolverProofs`** | | |
| `ResolverTypes`, `SignersConsistent` | types; array and mapping are inverse | `SignersInv`: the two are inductive together, as the type of the mapping needs its positions in range |
| `AcceptedVouchedFor` | only keys in the list are accepted | membership and list agree in a consistent set |
| `ImplementsSet` | the array and the mapping implement `SignerSet` | `AddProperties` and `RemoveProperties`; all other steps stutter |
| `AcceptedFresh` | `AcceptedWasStored` | `StoredInv`: every signed answer was made at an instant when the record had its hash, a write of its call data had been made, and no more than `TTL` before it expires (`SignedAt`); what a client has stamped or accepted keeps such an instant (`Honest`), and `held` and `made` only grow (`HistoryGrows`) |
| **`StorageProofProofs`** | | |
| `VerifiedSound` | what the verifier accepts of a program that is `Based` and has `StaticRefs` is the program's reading, exactly for static values and but for lost zeros for dynamic ones, whatever proofs it is given | induction over the commands: the words shown so far are the headers, so the next slot is the right one |
| `HonestVerified` | the converse, for every storage that `HasTrie` and the same programs: proofs of the slots a gateway asks for are accepted, unless a dynamic value is too long or too short | the same induction, with the position in the list of proofs: each command consumes exactly the proofs of its own slots (`at`) |
| **`ProofGatewayProofs`** | | |
| `ProofGatewayTypes`, `PartsMatch` | types; block, root and node number of an answer match | `ProofInv`: what a request has at each point of its progress (`CommandsInv`, `ServedInv`, `BlockInv`), that a cached block is stored with its own root and node number (`CacheInv`), and that nodes are those of their blocks (`RollupInv`) |
| `AcceptedFreshSnapshot` | `AcceptedIsFreshSnapshot` | `ProofInv` again: a served program refers backwards only, and the number of its node is no less than the least latest one since the arrival; `VerifiedSound` does the rest |
| `RefusalsHaveCause` | `OnlyFaultsRevert` | `Undisturbed`: a request without a failed call has, for each command that is done, the word and the slots of its block's state; with `HonestVerified`. The causes that remain are a failed call, a block in which the contract is empty or missing, and values that are too long or too short |
| **`L1ResolverProofs`** | | |
| `TypeCorrect`, `RegistrationOwns` | types; `RegisteredOwns` | `IInv`: an owner stays owner in the blocks above (`OwnersStay`), a reorganisation takes the registrations of the head with it, and what each client knows agrees with its read (`Follows`) |
| `AcceptedReadsAreCurrent` | `AcceptedWasCurrent` | `Fits`: the root of a served read is that of a state that was at the head while it was served; `VerifiedSound` |
| `AnswersAreCurrent` | `AnswersWereCurrent` | the first command of a record's program reads the version, the second one the record under that very version, in one state; `Laid` keeps versions and records apart |
| `RefusalsHaveCause` | `RefusedForCause` | a price never changes (`Laid`), and a client offers the one it read (`Follows`) |
| `RevertsAreCaused` | `RevertsHaveCause` | `Undisturbed`: without a failed call and a reorganisation, slots, words, proof and root are of one block, although each was asked for by its number; `HonestVerified`. An empty or missing contract is a cause of its own |
| **`FetchBuilderProofs`** | | |
| `TypeCorrect`, `RequestsAreRead`, `LimitsDecide` | types; `FetchedDecodes`; `FetchedIffFits` | `IInv`: the last command is open, those before it are closed by `OP_END` or the end of their word, each byte encodes its operand (`Matches`); the constants in the array are as many as the paths name (`Counted`). Adding a constant changes no byte before it (`Extends`) |
| **`MetadataStoreProofs`** | | |
| `TypeCorrect`, `RegistrationComplete` | types; `RegisteredIsComplete` | `IInv`: a node's domain is inserted by one call (`OneRegistrar`), and the records of the tables it is past are there (`Inserts`) |
| `AnswersPrefixes` | `AnswersArePrefixes` | a record that no setter has touched comes from that call (`Origin`), a later table implies the earlier ones (`Prefix`), and neither changes again, so that what a query has read stays true (`ReadPrefix`, `ReadOrigin`) |
| `DoublesAgree` | `DoubleAgrees` | `Alike`: the tables are those of the in-memory repository and what the running call has done so far |
| `NothingIsLost` | no step loses a domain or changes a record, but for that record's setter | each statement is one of five effects on the tables (`Effect`) |

Lemmas on operators are in `EntityRecordsProofs` (the collection: first
documents, in-place updates, inserts, and what readers see of them),
`StorageProofProofs` and the first part of `DatabaseResolverProofs` (the
enumerable set). Where one needs induction (the first document of a node,
the two recursive functions of `StorageProof`) it is over a set of numbers, by
the well-ordering of the naturals (`LeastExists`, `SetInduction`): the library's
induction rules take an operator, which no installed prover can instantiate.
The gateway's proofs are split as *shape* lemmas (what each action does to one
call), *follows* and *effect* lemmas (what any step of a call may do, disjunct
by disjunct) and one preservation lemma per invariant on top of them.

A proof attempt corrected one property. `UncontendedHashIsCurrent` first asked
only that no verifier of the request is under way when it is answered. That
holds in the run without faults and is false with one: a call of a multicall
whose registry check fails is answered while its other verifier still stores the
owner, between the middleware's read and its update. The property now leaves out
requests with a failed check. `gateway_faults` checks it with one failure and
the theorem proves it with any number of them.

Only model-checked, not proved: `EveryRequestEnds`, `EveryReadEnds` and
`EveryQueryEnds`. Liveness under fairness is out of the prover's reach. The four
statements of the next section are false of the code, and have counterexamples.

## Divergences between the documentation and the code

Four runs state what a document, comment or test says and TLC finds a
behaviour of the code in which it does not hold:

| Run | Statement | What happens |
|---|---|---|
| `gateway_hash` | at rest, a stored `constitutionHash` is that of the record | two `setText` requests interleave between the middleware's read and its update; or `setAddr` changes a hashed field |
| `gateway_manager` | only who controls a node writes it (DatabaseResolver.sol:267) | the node leaves the multisig after the registry was read and before the multisig gives its role to the signer, who controlled the node at no instant |
| `gateway_transfer` | `transfer` stores the new owner it names (DatabaseResolver.sol:146-150, database.spec.ts:240-277) | the owner of the registry is read again and stored (mongo.ts:321-330) |
| `proofs_long` | strings of any length can be proved | one data slot is proved whatever the length in the header |

`UncontendedHashIsCurrent` stands next to `gateway_hash`: it is what remains true of the hash, for a request that overlaps no other and none
of whose ownership checks failed with an error: `Promise.all` does not wait for
the other verifier (ownership.ts:44), whose late upsert of the owner leaves the
stored hash behind as well.
Likewise `WritesWereEntitled` is what remains true next to `gateway_manager`,
`OwnerComesFromChain` next to `gateway_transfer`, and `OnlyFaultsRevert` next to
`proofs_long`.

Others are part of the models but have no run, as one reading of the line shows
them:

* A read that finds something answers an error. For a call that is neither
  `setText` nor a multicall the middleware keeps `0x` for its node
  (signer.ts:42), finds no record of it and throws (57), where src/README.md:279
  says that reads are signed and api.spec.ts:640-690 expects the text. Empty
  answers get through, unsigned (31-33).
* `register` takes a duration in seconds (L1Resolver.sol:108) and passes it as
  the expiry, a time since 1970 (SubdomainController.sol:57): 365 days end on
  1 January 1971. The price does not depend on it, although L1Resolver.sol:137
  calls it "in wei per second".
* `findOneAndUpdate` of a node without a record changes nothing, and `setAddr`
  answers 200 (mongo.ts:418; the comment at 295 says the set fails).
* Of a resolver without any record, or one that is not deployed at the block, a
  read reverts in the callback where the contract itself would answer with
  nothing (MerkleTrie.sol:121-123, EVMProofHelper.sol:44).
* `ArbProof.ts:82` speaks of the latest provable block and
  `ArbitrumVerifier.sol:70` of a block known to be valid; after an L1
  reorganisation the cache serves the block of a removed node for as long as its
  number is the latest, and the client accepts it (`AcceptedIsFreshSnapshot`).
* Nothing reads `expirationTimestamp`: a deferred write is stored whenever it is
  posted (ownership.ts:39-43; DatabaseResolver.sol:84).
* The words of a long value are joined without their leading zero bytes
  (EVMProofHelper.sol:154-169; compare 85-87). `AcceptedIsFreshSnapshot` and
  `AcceptedWasCurrent` allow for it.
* The initial entry of the block cache answers for node 0
  (InMemoryBlockCache.ts:11; IBlockCache.ts:8).
* `ref` accepts the command being built and the one after it
  (EVMFetcher.sol:252; its comment says a previous fetch).
* `MAX_CONSTANTS` is never compared with; `FetchedIffFits` says why this is
  never more than a failed fetch.
* `getTexts` leaves out `ABI` twice and `pubkey` not at all, as its two
  parameters have one name (postgres.ts:237-238); a node with a row shows both.
* The in-memory repository has no contenthash of a registration, replaces a
  node that Postgres refuses to insert again, and throws for a transfer of an
  unknown node, which Postgres ignores. `DoubleAgrees` is what remains.
* A failed getResolver or getExpireDate is taken for no resolver and for time
  0: a query of a node without a row then answers that there is no such domain
  (ethereumClient.ts:78-104).

## Abstractions and what is not modelled

Database gateway:

* HTTP, ABI coding, logging and the wording of errors are left out. The first
  word of an encoded result, which the middleware takes for a node, is one of
  the nodes, `0x`, or something else.
* The signer of a write is part of its script. A wrong signature is a script
  whose account controls nothing.
* Every awaited read of the two verifiers is an action. Of the contracts that a
  node can name as owner, only the wrapper answers `ownerOf` and only the
  multisig `entityMemberManager`; there is one of each, and a member contract is
  looked up for one role. The upsert of the owner is atomic and the index check
  is part of it.
* A document holds the fields that calls can change. Keys that identify a
  document (`LEI`, `nodeHash`), which `strict: false` lets `setText` write, are
  not among the fields; `owner` is, and `OwnerComesFromChain` says so.
* The fallback of `getText` to `LEIHash`, the listing methods and the
  repository methods that no live handler calls are left out.
* Whether a handler is in the multicall's data (`callData.includes`) is taken
  as whether a call of that kind is in the multicall.

Database resolver and client:

* The hash of an answer is modelled by what it binds: sender and expiration,
  the request and the result. A signature over other data recovers an address
  that is nobody's.
* What the middleware signs for a write is accepted by `resolveWithProof` when
  it is called with the write's call data and sender; the client of this
  repository makes no such call, and the model lets any client make it.
* Gateways and chain share a clock. Entitlement of a deferred write belongs to
  `DatabaseGateway`. `setMetadataUrl` changes a string that no operation reads.

Proof gateway:

* The path hash and the layout of long values are modelled by what they
  distinguish: a slot is its path and the position of the word.
* A reference to a dynamic value always fails in the gateway, as `value()` does
  not give bytes (`LocateFails`), so that no such program is served. The verifier
  would hash the bytes of the value; it is not modelled for these programs, and
  the theorems about it leave them out (`StaticRefs`).
* A contract that is not deployed and one whose storage is empty are the same
  content, as both are refused.
* How many leading zero bytes a word has is told only by what becomes of it: it
  is joined without them (`Unpadded`), or too short for `slice` (`TooShort`).
* The verifier's check that the block belongs to the rollup is commented out in
  `ArbitrumVerifier.sol`, so that the model has none. An L1 reorganisation removes
  nodes, of those whose events are recent; L2 itself is not reorganised, and a
  node that was removed is not created again with the same block.
* The rejection of the zero address (400) is left out: it is a check of one
  argument that reaches no state.

L1 resolver:

* A block is the storage of the contracts of the model, and two blocks have one
  state root when those agree. Only the head is ever replaced, and by a block
  without its transactions; reorganisations of the blocks below are not modelled.
* `L1Gateway` has programs that refer back to static commands only, which is
  what the resolver builds; other references are in `ProofGateway`.
* The chain of the records is one: `cmd/ethereum.ts` serves one RPC URL. Who may
  set a record is up to the contracts there, which are external, like the name
  wrapper, whose expiry is stored as given and never passes: names are
  registered without the fuse that would let it (write.ts:124).
* One record goes with a registration, of those asked for. The layers of ABI
  coding that differ between callbacks are left out, as are the deferrals of
  setAddr, setText, setContenthash and multicall (the same revert as register,
  with the other target).

Metadata service:

* A row has the columns that queries tell apart. Strings are ordinary, empty, or
  filtered (`Null`, the zero address or `0x`). The expiry is left out of answers.
* A call that writes is made by any user of the repository; nothing of the
  running system does at present, tests and scripts apart. The getters of single
  records, which only handlers of tests use, are left out.
* The contenthash that a call passes to the in-memory repository after a
  registration is kept, but not compared.

Request builder: `uint8` numbers never wrap below the bound on calls; a constant
is a word whatever its length.

Not modelled: the batch query handler (a loop without state of its own); the
logger, call data parsing, deployment scripts and generated ABIs (no behaviour).

## Plan

Done: the database gateway, resolver and proof gateway; `FetchBuilder`,
`L1Gateway` with `L1Resolver` and the registration on the other chain, and
`MetadataStore`; for all of them the proofs of the safety properties that the
runs check, and both refinements. Left, in order of weight:

1. Weaker assumptions: in `L1ResolverProofs` records of more than one word (the
   dynamic values of `StorageProof` have them), and more than one record with a
   registration.
2. Action properties that the invariants already give, such as `NothingIsLost`
   for the collection of the database gateway: documents are neither removed nor
   moved to another node.
3. The getters of single records of the Postgres repository, should anything
   but tests come to call them.
