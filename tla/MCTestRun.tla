----------------------------- MODULE MCTestRun -----------------------------
(* Small instances of TestRun: the launches each run of TLC tries. *)
EXTENDS TestRun

MCUnits == {"60010", "60011"}

Base == [device |-> "classic", unit |-> "60010", sn |-> "60010", custom_sn |-> "",
         rev |-> "R6", set_sn |-> FALSE, csv |-> FALSE, stop |-> FALSE,
         present |-> {}, on |-> {}]
With(keys) == [Base EXCEPT !.present = keys, !.on = keys]

\* Every step, device word and way to end, without records: the steps are
\* spread over several launches to keep the combinations of failures few.
PipelineLaunches ==
  {With({"code_version", "trigger_1", "update_db", "subnet", "cccv", "maxw"}),
   With({"load", "sensor1", "pdline", "dc_in", "commission", "cmd"}),
   [With({"code_version", "subnet", "cccv", "maxw", "load", "sensor1", "pdline", "dc_in"})
      EXCEPT !.stop = TRUE],
   [With({"loads", "maxw", "dc_in"}) EXCEPT !.device = "super"],
   [With({"loads", "dc_in"}) EXCEPT !.device = "super", !.on = {"dc_in"}],
   [With({"cccv", "rs485"}) EXCEPT !.device = "battery"],
   [With({"code_version"}) EXCEPT !.set_sn = TRUE],
   [With({}) EXCEPT !.device = "none"],
   [With({}) EXCEPT !.device = "els"],
   [With({}) EXCEPT !.device = "core"]}

\* Two units tested again and again, with short configurations.
RecordLaunches ==
  {[With({"load"}) EXCEPT !.csv = TRUE],
   [With({"load"}) EXCEPT !.csv = TRUE, !.unit = "60011", !.sn = "60011"],
   [With({"loads"}) EXCEPT !.csv = TRUE, !.device = "battery", !.custom_sn = "BB7"]}

MCLaunches == PipelineLaunches \cup RecordLaunches

\* The launch of the run that shows a disagreement.
StartLaunches == {[With({"load"}) EXCEPT !.csv = TRUE]}
=============================================================================
