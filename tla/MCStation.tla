------------------------------ MODULE MCStation ------------------------------
(***************************************************************************)
(* A session of Station with two launches.                                 *)
(***************************************************************************)
EXTENDS Station
===============================================================================
