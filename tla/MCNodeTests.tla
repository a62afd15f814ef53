----------------------------- MODULE MCNodeTests -----------------------------
(***************************************************************************)
(* Small instances of NodeTests: a good node, and nodes of which one       *)
(* actuator does not follow one input.                                     *)
(***************************************************************************)
EXTENDS NodeTests

MCPlans == {<<"sensor1", "pdline">>, <<"pdline">>, <<"trigger", "sensor1">>}

MCGood == [i \in Inputs |-> Actuators]
MCNodes == {MCGood} \cup {[MCGood EXCEPT ![i] = @ \ {a}] : i \in Inputs, a \in Actuators}
===============================================================================
