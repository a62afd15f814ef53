------------------------------- MODULE LineFifo -------------------------------
(***************************************************************************)
(* What the host may rely on when it reads the test controller's console:  *)
(* a FIFO of lines that may forget its oldest lines but never reorders,    *)
(* duplicates or invents one.  services/controller.py implements it with a *)
(* Python list shared by the receiver thread and the main thread (RxLines).*)
(* A line is identified by its arrival number.                             *)
(***************************************************************************)
EXTENDS Naturals, Sequences

VARIABLES
  queue,   \* the lines received and not yet taken, oldest first
  last,    \* the line taken last, 0 before the first one
  heard    \* the number of lines the controller has sent so far

vars == <<queue, last, heard>>

Init == queue = <<>> /\ last = 0 /\ heard = 0

\* A line arrives and is kept.
Arrive ==
  /\ heard' = heard + 1
  /\ queue' = Append(queue, heard + 1)
  /\ UNCHANGED last

\* A line arrives and is not kept.
Ignore == heard' = heard + 1 /\ UNCHANGED <<queue, last>>

\* The reader takes the oldest line.
Take ==
  /\ queue # <<>>
  /\ last' = Head(queue)
  /\ queue' = Tail(queue)
  /\ UNCHANGED heard

\* The oldest line is forgotten.
Forget == queue # <<>> /\ queue' = Tail(queue) /\ UNCHANGED <<last, heard>>

\* All lines are forgotten.
ForgetAll == queue' = <<>> /\ UNCHANGED <<last, heard>>

Next == Arrive \/ Ignore \/ Take \/ Forget \/ ForgetAll

Spec == Init /\ [][Next]_vars
===============================================================================
