---------------------------- MODULE MCProofGateway ----------------------------
(***************************************************************************)
(* A small instance of ProofGateway: the versioned texts of a resolver,    *)
(* read as L1Resolver reads them, in a contract that holds nothing, one    *)
(* that holds a text whose data word lost many leading zeros, and one that *)
(* was cleared and holds a text whose data word lost few; a run of its own *)
(* has a text of two data words.                                           *)
(***************************************************************************)
EXTENDS ProofGateway

CONSTANTS zero, one, ver, txt, short, head1, head2, plain, low, thin, rest

MCWords == {zero, one, ver, txt, short, head1, head2, plain, low, thin, rest}
MCLong == [w \in MCWords |-> CASE w = head1 -> 1 [] w = head2 -> 2 [] OTHER -> 0]
MCUnpadded == [w \in MCWords |-> IF w \in {low, thin} THEN rest ELSE w]

Version == <<ver>>
Text(version) == <<txt, version>>
Slot0(path) == [path |-> path, part |-> 0]
Part(path, k) == [path |-> path, part |-> k]

NoText == [s \in {} |-> zero]

\* one text that fits its header, at version zero
ShortText == [s \in {Slot0(Text(zero))} |-> short]

\* after clearRecords: version one, a text with header h and its words
LongText(h, words) ==
  [s \in {Slot0(Version), Slot0(Text(zero)), Slot0(Text(one))}
         \cup {Part(Text(one), k) : k \in DOMAIN words} |->
     IF s = Slot0(Version) THEN one
     ELSE IF s = Slot0(Text(zero)) THEN short
     ELSE IF s.part = 0 THEN h ELSE words[s.part]]

\* one text of a data word with many leading zeros, at version zero
ThinText == [s \in {Slot0(Text(zero)), Part(Text(zero), 1)} |->
               IF s.part = 0 THEN head1 ELSE thin]

MCContents == {NoText, ThinText, LongText(head1, <<low>>)}
LongerContents == {ShortText, LongText(head2, <<plain, low>>)}

MCText == <<Static(<<Const(ver)>>), Dynamic(<<Const(txt), Ref(1)>>)>>
MCOfItself == <<Static(<<Const(txt), Ref(1)>>)>>

MCPrograms == {MCText, MCOfItself}

=============================================================================
