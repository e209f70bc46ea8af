-------------------------- MODULE MCDatabaseGateway --------------------------
(***************************************************************************)
(* Small instances of DatabaseGateway: the fields, their order, and the    *)
(* sets of requests the runs draw from.                                    *)
(***************************************************************************)
EXTENDS DatabaseGateway, TLC

CONSTANTS n1, n2, alice, bob, wrapper, multisig, m1, m2, nobody, v1, v2,
          absent, r1, r2

MCFields == {"ABI", "address", "avatar", "owner", "url"}

\* "avatar" sorts before "nodeHash", "url" after every other field
MCFieldOrder == [f \in MCFields |->
  CASE f = "ABI" -> -3 [] f = "address" -> -2 [] f = "avatar" -> -1
    [] f = "owner" -> 1 [] f = "url" -> 2]

MCAccounts == {alice, bob}
MCValues == {alice, bob, wrapper, multisig, v1, v2}

C(kind, n, f, v) == [kind |-> kind, node |-> n, field |-> f, value |-> v]
One(a, c) == [account |-> a, chainOk |-> TRUE, multi |-> FALSE, calls |-> <<c>>]
Many(a, cs) == [account |-> a, chainOk |-> TRUE, multi |-> TRUE, calls |-> cs]

SetAvatar(v) == C("setText", n1, "avatar", v)
SetUrl(v) == C("setText", n1, "url", v)
SetAddr == C("setField", n1, "address", v1)

\* two nodes, whose stubs compete for the one missing LEI, and registrations
NodesScripts ==
  {One(alice, SetAvatar(v1)), One(alice, C("setText", n2, "avatar", v2)),
   One(bob, C("register", n1, "avatar", v1)),
   One(bob, C("register", n2, "avatar", v1)),
   Many(alice, <<SetUrl(v1), C("setText", n2, "url", v1)>>)}

Held(owner, wrapped, legacy) == [owner |-> owner, wrapped |-> wrapped, legacy |-> legacy]
Team(manager, role) ==
  [manager |-> manager, roles |-> [m \in {m1, m2} |-> IF m = m1 THEN role ELSE {}]]

AccountHolders == {Held(alice, nobody, nobody), Held(bob, nobody, nobody)}
OneTeam == {Team(m1, {alice})}

\* one holder of every kind
AllHolders == {Held(alice, nobody, nobody), Held(wrapper, alice, nobody),
               Held(multisig, nobody, nobody), Held(bob, nobody, alice)}

\* registry and wrapper name alice at one time and bob at another, the
\* registrar alice or nobody
MovingHolders == AllHolders \cup {Held(wrapper, bob, nobody)}
MovingTeams == {Team(m1, {alice}), Team(m1, {bob}), Team(m2, {alice})}

Register == C("register", n1, "avatar", v1)

\* two texts of one record, whose handlers overlap, and a registration
\* beside a transfer
OwnerScripts == {Many(alice, <<SetAvatar(v1), SetUrl(v1)>>),
                 Many(alice, <<Register, C("transfer", n1, "owner", v1)>>)}

\* a node that leaves the multisig before the multisig takes alice in
ManagedHolders == {Held(multisig, nobody, nobody), Held(bob, nobody, nobody)}
ManagedTeams == {Team(m1, {}), Team(m1, {alice})}
ManagedScripts == {Many(alice, <<Register, SetAddr>>)}

\* every kind of call, and a multicall whose last call does not sign
FaultScripts ==
  {One(alice, SetAvatar(v1)), One(alice, SetAddr),
   One(alice, C("transfer", n1, "owner", bob)),
   One(alice, C("setNothing", n1, "url", v1)),
   One(alice, C("setText", n1, "ABI", v1)),
   [One(alice, SetUrl(v1)) EXCEPT !.chainOk = FALSE],
   One(alice, C("text", n1, "avatar", v1)), One(bob, C("addr", n1, "address", v1)),
   One(bob, C("contenthash", n1, "url", v1)),
   One(alice, C("register", n1, "avatar", v2)),
   Many(alice, <<SetUrl(v2), C("addr", n1, "address", v1)>>)}

(* Runs about single statements draw from smaller sets. *)

\* two texts of one record
TextScripts == {One(alice, SetAvatar(v1)), One(alice, SetUrl(v2))}

TransferScripts == {One(alice, C("transfer", n1, "owner", bob)),
                    One(bob, Register)}

\* requests are interchangeable
Symmetry == Permutations(Requests)
=============================================================================
