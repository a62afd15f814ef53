--------------------------- MODULE MCMonitorLaunch ---------------------------
(***************************************************************************)
(* Three processes of each kind; two programs that end their monitor.      *)
(***************************************************************************)
EXTENDS MonitorLaunch

CONSTANTS first, second

MCPrograms == {first, second}
=============================================================================
