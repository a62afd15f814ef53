-------------------------------- MODULE RxLines --------------------------------
(***************************************************************************)
(* The list `lines` of services/controller.py, shared without a lock by    *)
(* the receiver thread (rxThreadFunction) and the main thread (flushLines, *)
(* popFirstLine).  One action is one Python statement on the list, the     *)
(* grain at which the interpreter switches threads.  A line is identified  *)
(* by its arrival number.                                                  *)
(***************************************************************************)
EXTENDS Naturals, Sequences

CONSTANTS
  Limit,     \* the length above which the receiver drops a line (30)
  Pops,      \* the most lines taken between two flushes (every command of
             \* the module flushes first and reads at most 5 lines)
  MaxLines   \* bound of the model: the lines the controller sends

ASSUME LimitAssumption == Limit \in Nat /\ Pops \in Nat /\ MaxLines \in Nat

(* A reader that takes no more than Limit lines between two flushes: true  *)
(* of the code by a wide margin.                                           *)
ASSUME PopsAssumption == Pops <= Limit

VARIABLES
  lines,     \* the shared list
  heard,     \* history: the lines the controller has sent
  rxpc,      \* the statement the receiver thread is at
  running,   \* rx_thread_running
  mainpc,    \* the statement of popFirstLine the main thread is at
  one,       \* popFirstLine's local: the line it will return
  last,      \* history: the line returned last
  popped,    \* history: lines taken since the last flush
  since,     \* history: lines sent since the last flush
  burst      \* history: the most lines sent between two flushes so far

vars == <<lines, heard, rxpc, running, mainpc, one, last, popped, since, burst>>
rxVars == <<heard, rxpc, burst>>
mainVars == <<running, mainpc, one, last, popped>>

RxStates == {"read", "drop", "append", "stopped", "dead"}
MainStates == {"idle", "take", "del", "raised", "closed"}

Init ==
  /\ lines = <<>> /\ heard = 0 /\ rxpc = "read" /\ running = TRUE
  /\ mainpc = "idle" /\ one = 0 /\ last = 0 /\ popped = 0
  /\ since = 0 /\ burst = 0

-------------------------------------------------------------------------------
(* The receiver thread.                                                    *)

\* History: the controller sends one more line.
Sent ==
  /\ heard < MaxLines
  /\ heard' = heard + 1 /\ since' = since + 1
  /\ burst' = IF since' > burst THEN since' ELSE burst

\* A complete line that is empty or one of the messages the filter drops.
ReadNoise ==
  /\ rxpc = "read" /\ running /\ Sent
  /\ UNCHANGED <<lines, rxpc, mainVars>>

\* Mutants: no length test; a length test against one line.
ReadLineUnbounded ==
  /\ rxpc = "read" /\ running /\ Sent
  /\ rxpc' = "append"
  /\ UNCHANGED <<lines, mainVars>>

ReadLineKeepOne ==
  /\ rxpc = "read" /\ running /\ Sent
  /\ rxpc' = IF Len(lines) > 0 THEN "drop" ELSE "append"
  /\ UNCHANGED <<lines, mainVars>>

\* A complete line worth keeping: the length test decides what comes next.
ReadLine ==
  /\ rxpc = "read" /\ running /\ Sent
  /\ rxpc' = IF Len(lines) > Limit THEN "drop" ELSE "append"
  /\ UNCHANGED <<lines, mainVars>>

\* Mutant: the newest line is dropped.
DropNewest ==
  /\ rxpc = "drop"
  /\ IF lines = <<>>
     THEN rxpc' = "dead" /\ UNCHANGED lines
     ELSE rxpc' = "append" /\ lines' = SubSeq(lines, 1, Len(lines) - 1)
  /\ UNCHANGED <<heard, burst, since, mainVars>>

\* del lines[0]: raises IndexError, and ends the thread, on an empty list.
DropOldest ==
  /\ rxpc = "drop"
  /\ IF lines = <<>>
     THEN rxpc' = "dead" /\ UNCHANGED lines
     ELSE rxpc' = "append" /\ lines' = Tail(lines)
  /\ UNCHANGED <<heard, burst, since, mainVars>>

AppendLine ==
  /\ rxpc = "append"
  /\ lines' = Append(lines, heard)
  /\ rxpc' = "read"
  /\ UNCHANGED <<heard, burst, since, mainVars>>

\* The loop condition fails, or the closed port raises out of ser.read().
RxStop ==
  /\ rxpc = "read" /\ ~running
  /\ rxpc' = "stopped"
  /\ UNCHANGED <<lines, heard, burst, since, mainVars>>

RxThread == ReadNoise \/ ReadLine \/ DropOldest \/ AppendLine \/ RxStop

-------------------------------------------------------------------------------
(* The main thread.                                                        *)

flushLines ==
  /\ mainpc = "idle"
  /\ lines' = <<>> /\ popped' = 0 /\ since' = 0
  /\ UNCHANGED <<rxVars, running, mainpc, one, last>>

\* Mutant: the test lets an empty list through.
PopCheckLate ==
  /\ mainpc = "idle" /\ popped < Pops /\ Len(lines) >= 0
  /\ mainpc' = "take"
  /\ UNCHANGED <<lines, rxVars, since, running, one, last, popped>>

\* if len(lines) > 0 (the other branch returns None and changes nothing)
PopCheck ==
  /\ mainpc = "idle" /\ popped < Pops /\ Len(lines) > 0
  /\ mainpc' = "take"
  /\ UNCHANGED <<lines, rxVars, since, running, one, last, popped>>

\* one = lines[0]: raises IndexError out of popFirstLine on an empty list.
PopTake ==
  /\ mainpc = "take"
  /\ IF lines = <<>>
     THEN mainpc' = "raised" /\ UNCHANGED <<one, last>>
     ELSE mainpc' = "del" /\ one' = Head(lines) /\ last' = Head(lines)
  /\ UNCHANGED <<lines, rxVars, since, running, popped>>

\* Mutant: the line stays in the list.
PopDelNothing ==
  /\ mainpc = "del"
  /\ mainpc' = "idle" /\ popped' = popped + 1
  /\ UNCHANGED <<lines, rxVars, since, running, one, last>>

\* del lines[0]; return one
PopDel ==
  /\ mainpc = "del"
  /\ IF lines = <<>>
     THEN mainpc' = "raised" /\ UNCHANGED <<lines, popped>>
     ELSE mainpc' = "idle" /\ lines' = Tail(lines) /\ popped' = popped + 1
  /\ UNCHANGED <<rxVars, since, running, one, last>>

close ==
  /\ mainpc = "idle"
  /\ mainpc' = "closed" /\ running' = FALSE
  /\ UNCHANGED <<lines, rxVars, since, one, last, popped>>

\* A command of the module is a flush, a write and a few calls of readLine, like
\* writeConsoleReadCOM (setLoadLED does without); here they come in any order.
Command == flushLines \/ PopCheck \/ PopTake \/ PopDel

MainThread == Command \/ close

Next == RxThread \/ MainThread

Spec == Init /\ [][Next]_vars

-------------------------------------------------------------------------------
(* Each variable has its type: the list holds lines the controller sent.   *)
TypeOK ==
  /\ lines \in Seq(1..MaxLines) /\ heard \in 0..MaxLines /\ rxpc \in RxStates
  /\ running \in BOOLEAN /\ mainpc \in MainStates
  /\ one \in 0..MaxLines /\ last \in 0..MaxLines /\ popped \in 0..Pops
  /\ since \in 0..heard /\ burst \in 0..heard

(* The receiver's test-then-drop keeps the list at most one over the       *)
(* limit, whatever the main thread does between its two statements         *)
(* (controller.py "pop a line to limit length of list").                   *)
Bounded == Len(lines) <= Limit + 1

(* popFirstLine tests the list and then indexes it, with the receiver      *)
(* deleting from the same end in between: it never raises IndexError.      *)
MainNeverRaises == mainpc # "raised"

(* The receiver thread ends by an exception only after the controller has  *)
(* sent more than Limit lines between two flushes: a program that flushes  *)
(* before each command, and whose commands answer in a few lines, keeps    *)
(* its receiver (the window between the length test and the delete).       *)
DeadOnlyAfterBurst == rxpc = "dead" => burst > Limit

(* popFirstLine returns lines in the order the controller sent them, and   *)
(* none twice, although a drop may fall between its read and its delete.   *)
NeverTwice == [][mainpc = "take" /\ mainpc' = "del" => last' > last]_vars

-------------------------------------------------------------------------------
(* The list implements the abstract FIFO: a line is taken at the read of   *)
(* lines[0], and arrives at the append (or is lost with the thread).       *)
Fifo == INSTANCE LineFifo WITH
  queue <- IF mainpc = "del" /\ lines # <<>> THEN Tail(lines) ELSE lines,
  last <- last,
  heard <- IF rxpc \in {"drop", "append"} THEN heard - 1 ELSE heard

(* Every behaviour of the two threads is one of the FIFO: nothing either   *)
(* does between two statements of the other reorders, duplicates or        *)
(* invents a line, and only the oldest lines are ever lost.                *)
ImplementsFifo == Fifo!Spec
===============================================================================
