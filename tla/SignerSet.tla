------------------------------ MODULE SignerSet ------------------------------
(***************************************************************************)
(* What the resolver's owner relies on: the signers are a set.  A signer   *)
(* that is added is in it, one that is removed is not, and no call touches *)
(* another signer.  Both views of the set, the membership test and the     *)
(* list, always agree.                                                     *)
(***************************************************************************)
CONSTANT Elements

VARIABLES
  members,   \* the addresses isSigner answers true for
  listed     \* the addresses signers() lists

Init == members = {} /\ listed = {}

Change(S) == members' = S /\ listed' = S

Next == \E e \in Elements : Change(members \cup {e}) \/ Change(members \ {e})

Spec == Init /\ [][Next]_<<members, listed>>

=============================================================================
