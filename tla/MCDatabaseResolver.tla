-------------------------- MODULE MCDatabaseResolver --------------------------
(***************************************************************************)
(* A small instance of DatabaseResolver: two gateways with a key each, and *)
(* a third signer, so that a removal can move a value of the array.  Of    *)
(* the calls of one account, two are writes that the gateway signs a reply *)
(* to and one is not.                                                      *)
(***************************************************************************)
EXTENDS DatabaseResolver, TLC

CONSTANTS k1, k2, k3, u1, u2, n1, d1, d2, r1

MCElements == {k1, k2, k3}
MCKeyOf == [u \in {u1, u2} |-> IF u = u1 THEN k1 ELSE k2]
MCSignerLists == {<<k1>>, <<k2, k3>>}
MCInitialSigners == <<k1, k3, k2>>
MCSymmetry == Permutations(Signable) \cup Permutations(Values) \cup Permutations(Clients)
MCNodeOf == [d \in {d1, d2, r1} |-> n1]
MCTimeouts == {1, 2}

=============================================================================
