---------------------------- MODULE MCL1Resolver ----------------------------
(***************************************************************************)
(* A small instance of L1Resolver: one name with a text and addresses,     *)
(* two registrars of different prices, two resolvers.                      *)
(***************************************************************************)
EXTENDS L1Resolver

CONSTANTS node, key, long, twenty, oldRegistrar, newRegistrar

MCWords == {0, 1, 2, 3, 10, 60, node, key, long, twenty} \cup Requests
MCLong == [w \in MCWords |-> 0]
MCUnpadded == [w \in MCWords |-> w]
MCAddressOf == [w \in MCWords |-> IF w = long THEN twenty ELSE w]
MCPrices == [t \in {oldRegistrar, newRegistrar} |-> IF t = oldRegistrar THEN 1 ELSE 2]

MCFirstTargets == [resolver |-> CHOOSE t \in Resolvers : TRUE, registrar |-> oldRegistrar]
MCQuestions == {AddrOf(node)}

=============================================================================
