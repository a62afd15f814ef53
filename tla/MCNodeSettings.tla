---------------------------- MODULE MCNodeSettings ----------------------------
(***************************************************************************)
(* Small instances of NodeSettings: a classic node with two actuators, of  *)
(* which 3 names both, and loads that change max watt and cccv to and fro. *)
(***************************************************************************)
EXTENDS NodeSettings

Cfg(maxw, cccv) == [kind |-> "cfg", maxw |-> maxw, cccv |-> cccv, cuv |-> 0, dim |-> 0]
MCLoad(maxw, cccv, cuv, dim) ==
  [kind |-> "load", maxw |-> maxw, cccv |-> cccv, cuv |-> cuv, dim |-> dim]

Commission(value) == [kind |-> "commission", maxw |-> 0, cccv |-> 0, cuv |-> value, dim |-> 0]

MCPlans ==
  {<<Cfg(713, 1), MCLoad(300, 1, 0, 0), MCLoad(713, 0, 0, 0)>>,
   <<MCLoad(300, 2, 0, 0), Cfg(300, 1), MCLoad(300, 2, 0, 0)>>,
   <<MCLoad(2, 1, 5, 0), MCLoad(2, 2, 0, 98)>>,
   <<Commission(7), Commission(0)>>}
===============================================================================
