------------------------------ MODULE MCMuxSet ------------------------------
(***************************************************************************)
(* Small instances of MuxSet: channels whose codes differ in one and in    *)
(* all bits, the counter of period 50 and limit 200 scaled to 3 and 12.    *)
(***************************************************************************)
EXTENDS MuxSet

MCTwoTargets == {3, 4}
=============================================================================
