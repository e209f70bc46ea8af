--------------------------- MODULE DatabaseResolver ---------------------------
(***************************************************************************)
(* The contract contracts/src/DatabaseResolver.sol and the two protocols   *)
(* it starts.  A read reverts with OffchainLookup: the client asks the     *)
(* gateway at the URL it was given, for an answer it could hand to         *)
(* resolveWithProof (EIP-3668).  A write reverts with                      *)
(* StorageHandledByOffChainDatabase: the client signs the message of the   *)
(* revert and posts it to the gateway (EIP-5559).  The middleware of the   *)
(* gateway signs no read (withSigner throws on it): what it signs are the  *)
(* replies to setText, and to a multicall that has one, and these carry    *)
(* the hash of the node's record.  The caller of resolveWithProof supplies *)
(* the call data and the sender it takes the answer to be about.           *)
(*                                                                         *)
(* Meanwhile the owner changes signers and URL, the gateways store new     *)
(* values, time passes, and answers arrive late, twice or for another      *)
(* call.                                                                   *)
(*                                                                         *)
(* A transaction is atomic.  Those that loop over a list of signers take   *)
(* one step for each, during which nothing else happens.                   *)
(***************************************************************************)
EXTENDS EnumerableSet

CONSTANTS
  Urls,            \* gateway URLs
  KeyOf,           \* the key of the gateway at a URL, that signs its answers
  Data,            \* call data, of reads and of writes
  Signable,        \* call data of setText, or of a multicall that has one
  Nodes, NodeOf,   \* the node whose record the reply to call data is about
  Values,          \* hashes of records
  Clients,         \* client calls
  Senders,         \* accounts that send them
  Resolver,        \* the address of the contract
  SignerLists,     \* lists addSigners and removeSigners are called with
  InitialSigners,  \* the list given to the constructor
  InitialUrl,
  Timeouts,        \* durations for deferred writes
  InitialTimeout,
  TTL,             \* life time that the gateway gives to its signatures
  MaxTime,         \* bound on the clock
  MaxChanges,      \* bound on transactions of the owner
  MaxWrites        \* bound on writes that reach the gateways

ASSUME ResolverAssumption ==
  /\ KeyOf \in [Urls -> Elements] /\ InitialUrl \in Urls
  /\ Signable \subseteq Data /\ NodeOf \in [Data -> Nodes]
  /\ Resolver \notin Senders
  /\ SignerLists \subseteq Seq(Elements) /\ InitialSigners \in Seq(Elements)
  /\ Timeouts \subseteq Nat /\ InitialTimeout \in Timeouts
  /\ TTL \in Nat /\ MaxTime \in Nat
  /\ MaxChanges \in Nat /\ MaxWrites \in Nat

VARIABLES
  signers,     \* _signers
  gatewayUrl, timeout,
  tx,          \* the loop of the transaction under way: op and todo
  now,         \* block.timestamp, which the clock of the gateways agrees with
  stored,      \* stored[n]: the hash of the record that the gateways store of n
  answers,     \* signed answers, any of which may reach any client
  client,      \* progress of each client call
  changes, writes,
  held,        \* held[t][n]: values stored of n at time t, for the properties
  made         \* made[t]: call data of the client writes made at t, likewise

vars == <<signers, gatewayUrl, timeout, tx, now, stored, answers, client,
          changes, writes, held, made>>
contract == <<signers, gatewayUrl, timeout, tx, changes>>
world == <<now, stored, writes, held, made>>

Answer == [key : Elements, expires : Nat, sender : Senders, data : Data,
           value : Values]

NoClient == [pc |-> "idle"]
Refused == [pc |-> "refused"]
Reading == [pc : {"asked"}, url : Urls, data : Data, sender : {Resolver}]
Writing == [pc : {"deferred", "posted"}, url : Urls, data : Data,
            sender : Senders, expires : Nat]
Stamped == [pc : {"stamped", "signed"}, url : Urls, data : Data,
            sender : Senders, ttl : Nat]
Accepted == [pc : {"accepted"}, data : Data, answer : Answer, at : Nat]

Idle == tx.todo = <<>>

Init ==
  /\ signers = EmptySet
  /\ gatewayUrl = InitialUrl /\ timeout = InitialTimeout
  /\ tx = [op |-> "add", todo |-> InitialSigners]
  /\ now = 0 /\ changes = 0 /\ writes = 0
  /\ stored \in [Nodes -> Values]
  /\ held = [t \in 0..MaxTime |-> [n \in Nodes |->
               IF t = 0 THEN {stored[n]} ELSE {}]]
  /\ made = [t \in 0..MaxTime |-> {}]
  /\ answers = {}
  /\ client = [c \in Clients |-> NoClient]

-----------------------------------------------------------------------------
(* The owner: addSigners, removeSigners, setGatewayUrl and                 *)
(* setOffChainDatabaseTimoutDuration                                       *)

Change ==
  /\ Idle /\ changes < MaxChanges /\ changes' = changes + 1
  /\ UNCHANGED <<signers, world, answers, client>>

ChangeSigners ==
  /\ Change
  /\ \E op \in {"add", "remove"}, list \in SignerLists :
       tx' = [op |-> op, todo |-> list]
  /\ UNCHANGED <<gatewayUrl, timeout>>

SetGatewayUrl ==
  /\ Change
  /\ gatewayUrl' \in Urls \ {gatewayUrl}
  /\ UNCHANGED <<timeout, tx>>

SetTimeout ==
  /\ Change
  /\ timeout' \in Timeouts \ {timeout}
  /\ UNCHANGED <<gatewayUrl, tx>>

\* one turn of the loop of _addSigners or removeSigners
Loop ==
  /\ ~ Idle
  /\ LET e == Head(tx.todo) IN
     signers' = IF tx.op = "add" THEN Add(signers, e) ELSE Remove(signers, e)
  /\ tx' = [tx EXCEPT !.todo = Tail(tx.todo)]
  /\ UNCHANGED <<gatewayUrl, timeout, changes, world, answers, client>>

-----------------------------------------------------------------------------
(* Reads *)

Become(c, k) ==
  /\ client' = [client EXCEPT ![c] = k]
  /\ UNCHANGED <<contract, world>>

\* resolve, text, addr, ...: _offChainLookup
Lookup(c) ==
  /\ Idle /\ client[c].pc = "idle"
  /\ \E d \in Data :
       Become(c, [pc |-> "asked", url |-> gatewayUrl, data |-> d, sender |-> Resolver])
  /\ UNCHANGED answers

\* The gateway has no signature for a read: withSigner throws, or passes an
\* empty answer on as it is; a write in place of a read is refused before it
AnswerLookup(c) ==
  /\ Idle /\ client[c].pc = "asked"
  /\ Become(c, Refused)
  /\ UNCHANGED answers

\* Mutant of Verifies: the expiration is not looked at
VerifiesForever(a, d, sender) ==
  a.data = d /\ a.sender = sender /\ Contains(signers, a.key)

\* Mutant of Verifies: any key will do
VerifiesAnySigner(a, d, sender) ==
  a.data = d /\ a.sender = sender /\ a.expires >= now

\* SignatureVerifier.verify and isSigner: the hash that was signed is that of
\* the call data and the sender, or else the signer recovered is nobody's
\* address
Verifies(a, d, sender) ==
  /\ a.data = d /\ a.sender = sender /\ a.expires >= now
  /\ Contains(signers, a.key)

\* extraData is that of the lookup, or the call data and sender of the write
ResolveWithProof(c) ==
  /\ Idle /\ client[c].pc \in {"asked", "signed"}
  /\ \E a \in answers :
       Become(c, IF Verifies(a, client[c].data, client[c].sender)
                 THEN [pc |-> "accepted", data |-> client[c].data, answer |-> a,
                       at |-> now]
                 ELSE Refused)
  /\ UNCHANGED answers

-----------------------------------------------------------------------------
(* Deferred writes *)

\* what a deferred write is that expires at the instant given
Message(d, sender, expires) ==
  [pc |-> "deferred", url |-> gatewayUrl, data |-> d, sender |-> sender,
   expires |-> expires]

\* Mutant of Defer: what is left of the duration instead of an instant
DeferForRest(c) ==
  /\ Idle /\ client[c].pc = "idle"
  /\ \E d \in Data, s \in Senders : Become(c, Message(d, s, timeout - now))
  /\ UNCHANGED answers

\* setText, setAddr, register, transfer, multicall, ...: _offChainStorage
Defer(c) ==
  /\ Idle /\ client[c].pc = "idle"
  /\ \E d \in Data, s \in Senders : Become(c, Message(d, s, now + timeout))
  /\ UNCHANGED answers

\* handleDBStorage signs and posts; the handler of the gateway makes the
\* write, or refuses it.  Nobody looks at expirationTimestamp
Post(c) ==
  /\ Idle /\ client[c].pc = "deferred"
  /\ LET n == NodeOf[client[c].data] IN
     \/ /\ client' = [client EXCEPT ![c].pc = "posted"]
        /\ \E v \in Values : /\ stored' = [stored EXCEPT ![n] = v]
                             /\ held' = [held EXCEPT ![now][n] = @ \cup {v}]
        /\ made' = [made EXCEPT ![now] = @ \cup {client[c].data}]
        /\ UNCHANGED <<now, writes>>
     \/ /\ client' = [client EXCEPT ![c] = Refused]
        /\ UNCHANGED world
  /\ UNCHANGED <<contract, answers>>

\* withSigner sets the life time of the reply before it reads the record
Stamp(c) ==
  /\ Idle /\ client[c].pc = "posted" /\ client[c].data \in Signable
  /\ Become(c, [pc |-> "stamped", url |-> client[c].url, data |-> client[c].data,
                sender |-> client[c].sender, ttl |-> now + TTL])
  /\ UNCHANGED answers

\* it reads the record again and signs its hash (makeMessageHash)
Sign(c) ==
  /\ Idle /\ client[c].pc = "stamped"
  /\ LET k == client[c] IN
     answers' = answers \cup
       {[key |-> KeyOf[k.url], expires |-> k.ttl, sender |-> k.sender,
         data |-> k.data, value |-> stored[NodeOf[k.data]]]}
  /\ Become(c, [client[c] EXCEPT !.pc = "signed"])

-----------------------------------------------------------------------------
(* The environment *)

\* a write of somebody else reaches the gateways
StoreValue ==
  /\ Idle /\ writes < MaxWrites /\ writes' = writes + 1
  /\ \E n \in Nodes : \E v \in Values \ {stored[n]} :
       /\ stored' = [stored EXCEPT ![n] = v]
       /\ held' = [held EXCEPT ![now][n] = @ \cup {v}]
  /\ UNCHANGED <<contract, now, made, answers, client>>

Tick ==
  /\ Idle /\ now < MaxTime
  /\ now' = now + 1
  /\ held' = [held EXCEPT ![now + 1] = [n \in Nodes |-> {stored[n]}]]
  /\ UNCHANGED <<contract, stored, made, writes, answers, client>>

Next ==
  \/ ChangeSigners \/ SetGatewayUrl \/ SetTimeout \/ Loop
  \/ \E c \in Clients : \/ Lookup(c) \/ AnswerLookup(c) \/ ResolveWithProof(c)
                        \/ Defer(c) \/ Post(c) \/ Stamp(c) \/ Sign(c)
  \/ StoreValue \/ Tick

Spec == Init /\ [][Next]_vars

-----------------------------------------------------------------------------
(* Properties *)

TypeOK ==
  /\ signers \in Sets
  /\ gatewayUrl \in Urls /\ timeout \in Timeouts
  /\ tx \in [op : {"add", "remove"}, todo : Seq(Elements)]
  /\ now \in 0..MaxTime /\ changes \in 0..MaxChanges
  /\ writes \in 0..MaxWrites
  /\ stored \in [Nodes -> Values]
  /\ held \in [0..MaxTime -> [Nodes -> SUBSET Values]]
  /\ made \in [0..MaxTime -> SUBSET Data]
  /\ answers \subseteq Answer
  /\ client \in [Clients -> {NoClient, Refused} \cup Reading \cup Writing
                             \cup Stamped \cup Accepted]

\* After any additions and removals, the array and the mapping of the set of
\* signers are inverse to each other, also for the value that removal moves
\* (EnumerableSetUpgradeable.sol:81-113).
SignersAreConsistent == Consistent(signers)

\* What a client accepts is the hash that the node's record had at some instant
\* in the life time of the signature, no earlier than a client's write of the
\* same call data took effect, although other writes come between the write,
\* the time stamp and the second read of the record, and answers are delayed,
\* repeated and mixed up (signer.ts:33-105, DatabaseResolver.sol:417,
\* SignatureVerifier.sol:24).
AcceptedWasStored ==
  \A c \in Clients : client[c].pc = "accepted" =>
    \E w \in 0..client[c].at, t \in 0..client[c].at :
      /\ client[c].data \in made[w] /\ w <= t
      /\ client[c].answer.value \in held[t][NodeOf[client[c].data]]
      /\ client[c].at - t <= TTL

\* A client accepts an answer only while its key is in the list of signers:
\* removing a signer revokes the answers it has already signed.
AcceptedIsVouchedFor ==
  [][\A c \in Clients :
       (client'[c].pc = "accepted" /\ client[c].pc # "accepted")
         => client'[c].answer.key \in Listed(signers)]_vars

Abstract == INSTANCE SignerSet WITH
  members <- {e \in Elements : Contains(signers, e)},
  listed <- Listed(signers)

\* The set of signers behaves like a set: each turn of addSigners or
\* removeSigners adds or removes the one signer it is about.
ImplementsSignerSet == Abstract!Spec

=============================================================================
