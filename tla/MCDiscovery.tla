----------------------------- MODULE MCDiscovery -----------------------------
(***************************************************************************)
(* Nodes at up to three addresses around the bench's own and one behind    *)
(* the range; two nodes share their leading digit, and one has no serial   *)
(* number or does not tell it.                                             *)
(***************************************************************************)
EXTENDS Discovery

Sn(lead, rest) == [lead |-> lead, rest |-> rest]
Node(sn, keyw) == [sn |-> sn, keyw |-> keyw]

MCNodes == {Node(Sn("a", "1"), "one"), Node(Sn("a", "2"), "empty"),
            Node(Sn("b", "1"), "none"), Node(NoSn, "one"), Node(NoKey, "one"), NoNode}
MCAddresses == 2..6
MCOwn == 3
MCNetworks == {n \in [MCAddresses -> MCNodes] :
                 n[3] = NoNode /\ n[6] = Node(Sn("a", "1"), "one")}
MCRanges == {[first |-> 2, end |-> 6], [first |-> 6, end |-> 6]}
MCWanted == {Sn("a", "1"), NoSn}
===============================================================================
