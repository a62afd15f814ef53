----------------------------- MODULE MCLoadTest -----------------------------
(* Small instances of LoadTest.  Power levels: 1 too low, 2 right, 3 high. *)
EXTENDS LoadTest

MCWindows == {<<1>>, <<2>>, <<3, 2>>, <<2, 2, 1>>}

MinLoad == [valid |-> TRUE, min |-> 2, max |-> NoBound, sweep |-> FALSE, off |-> "general"]
DimLoad == [MinLoad EXCEPT !.min = NoBound, !.max = 1]
BandLoad == [MinLoad EXCEPT !.max = 2]
Skipped == [MinLoad EXCEPT !.valid = FALSE]

Classic == [kind |-> "loads", custom |-> FALSE, supernode |-> FALSE, relays |-> <<1, 2>>, sweep |-> FALSE,
            off |-> TRUE, open |-> TRUE, loads |-> <<MinLoad, DimLoad, Skipped>>]

MCScenarios ==
  {Classic,
   [Classic EXCEPT !.sweep = TRUE, !.off = FALSE,
      !.loads = <<BandLoad, [DimLoad EXCEPT !.off = "yes"]>>],
   [Classic EXCEPT !.off = FALSE, !.loads = <<BandLoad>>],
   [Classic EXCEPT !.off = FALSE, !.loads = <<DimLoad, MinLoad>>],
   [Classic EXCEPT !.loads = <<MinLoad, [BandLoad EXCEPT !.sweep = TRUE]>>],
   [Classic EXCEPT !.loads = <<[BandLoad EXCEPT !.sweep = TRUE]>>],
   [Classic EXCEPT !.relays = <<1>>, !.off = FALSE, !.loads = <<MinLoad, MinLoad>>],
   [Classic EXCEPT !.open = FALSE],
   [Classic EXCEPT !.loads = <<>>],
   [Classic EXCEPT !.kind = "load", !.loads = <<BandLoad>>],
   [Classic EXCEPT !.kind = "load", !.loads = <<[MinLoad EXCEPT !.off = "no"]>>],
   [Classic EXCEPT !.supernode = TRUE],
   [Classic EXCEPT !.supernode = TRUE, !.kind = "load", !.loads = <<MinLoad>>],
   [Classic EXCEPT !.custom = TRUE, !.relays = <<1>>, !.loads = <<DimLoad, MinLoad>>],
   [Classic EXCEPT !.custom = TRUE, !.relays = <<1>>, !.off = FALSE,
      !.loads = <<DimLoad, MinLoad>>]}
=============================================================================
