--------------------------- MODULE MCMetadataStore ---------------------------
(***************************************************************************)
(* A small instance of MetadataStore: a node and its subdomain, written by *)
(* two calls while one query reads.                                        *)
(***************************************************************************)
EXTENDS MetadataStore

CONSTANTS node, below, eth, twitter, value, other, alice, bob, ours, foreign

MCParentOf == [n \in {node, below} |-> IF n = below THEN node ELSE NoNode]

Addr(k) == [table |-> "address", key |-> k]
Text(k) == [table |-> "text", key |-> k]
Hash == [table |-> "contenthash", key |-> "only"]

Register(n, owner, r, fields) ==
  [op |-> "register", node |-> n, row |-> [owner |-> owner, resolver |-> r],
   records |-> [f \in Field |-> IF f \in fields THEN value ELSE NoValue]]
SetTo(n, f, v) == [op |-> "set", node |-> n, field |-> f, value |-> v]

MCScripts ==
  {Register(node, alice, ours, {Addr(eth), Text(twitter), Hash}),
   Register(node, bob, foreign, {Text("ABI")}),
   Register(below, alice, ours, {Addr(eth), Text(twitter)}),
   SetTo(node, Text(twitter), other), SetTo(node, Addr(eth), Null),
   SetTo(node, Hash, other),
   [op |-> "transfer", node |-> node, owner |-> bob]}

MCFirstRegistry ==
  [n \in {node, below} |-> [owner |-> bob, resolver |-> IF n = node THEN ours ELSE foreign]]

=============================================================================
