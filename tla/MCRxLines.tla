------------------------------ MODULE MCRxLines ------------------------------
(***************************************************************************)
(* A small instance of RxLines: the limit of 30 lines is 2, so that seven  *)
(* lines overrun it, with flushes and reads at every point.                *)
(***************************************************************************)
EXTENDS RxLines

MCLimit == 2
MCPops == 2
MCMaxLines == 7
===============================================================================
