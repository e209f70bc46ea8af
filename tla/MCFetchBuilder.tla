---------------------------- MODULE MCFetchBuilder ----------------------------
(***************************************************************************)
(* A small instance of FetchBuilder: commands of four bytes, operands of   *)
(* two bits, room for two commands and four constants, so that eight calls *)
(* exceed every limit.                                                     *)
(***************************************************************************)
EXTENDS FetchBuilder

CONSTANTS zero, one

MCWords == {zero, one}
MCLong == [w \in MCWords |-> 0]
MCUnpadded == [w \in MCWords |-> w]

=============================================================================
