------------------------------ MODULE MCRecords ------------------------------
(***************************************************************************)
(* Three processes: a unit, the same unit with a serial number that could  *)
(* not be read, and another one, against a file without rows and one that  *)
(* holds a third unit.                                                     *)
(***************************************************************************)
EXTENDS Records

MCUnit(sn, mac, date) == [sn |-> sn, mac |-> mac, rev |-> "r1", date |-> date]

MCText == STRING
MCProcs == 1..3
MCNewRow == <<MCUnit("s1", "m1", 2), MCUnit(NotRead, "m1", 3), MCUnit("s2", "m2", 4)>>
MCOldFiles == {<<>>, <<MCUnit("s3", "m3", 1)>>}
=============================================================================
