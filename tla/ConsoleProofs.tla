---------------------------- MODULE ConsoleProofs ----------------------------
(***************************************************************************)
(* Theorems about what passes through services/controller.py, and their    *)
(* proofs: first the list of lines, for every limit and every number of    *)
(* lines, then the selection of a mux channel through it.                  *)
(***************************************************************************)
EXTENDS RxLines, MuxSet, TLAPS

(* The receiver that stands before its delete saw more than Limit lines;   *)
(* the main thread has since flushed them or taken at most `popped`.       *)
DropGuarded == rxpc = "drop" => lines = <<>> \/ Len(lines) + popped > Limit

(* While popFirstLine runs the list keeps at least a line.                 *)
PopGuarded == mainpc \in {"take", "del"} => lines # <<>> /\ popped < Pops

(* The list is over the limit only between an append and the next drop.    *)
Room == Len(lines) <= Limit + (IF rxpc = "append" THEN 0 ELSE 1)

(* All lines but at most one (in flight at the flush) came since the flush.*)
Recent == Len(lines) + (IF rxpc = "append" THEN 1 ELSE 0) <= since + 1

DropAfterBurst == rxpc \in {"drop", "dead"} => burst > Limit

(* The newest line that is in the list or was taken.                       *)
Newest == IF rxpc \in {"drop", "append"} THEN heard - 1 ELSE heard

(* The list is sorted, newer than the last line returned (the head may be  *)
(* that line while its delete is pending), and no newer than Newest.       *)
Sorted ==
  /\ rxpc \in {"drop", "append"} => heard > 0
  /\ last <= Newest
  /\ \A i \in 1..Len(lines) : lines[i] <= Newest /\ last <= lines[i]
  /\ \A i \in 1..Len(lines) : i > 1 \/ mainpc # "del" => last < lines[i]
  /\ \A i, j \in 1..Len(lines) : i < j => lines[i] < lines[j]

IInv ==
  /\ TypeOK /\ MainNeverRaises
  /\ DropGuarded /\ PopGuarded /\ Room /\ Recent /\ DropAfterBurst /\ Sorted

-------------------------------------------------------------------------------
(* The tail of a list: its length and its elements, in their order.        *)
LEMMA TailOf ==
  ASSUME NEW S, NEW s \in Seq(S), s # <<>>
  PROVE /\ Tail(s) \in Seq(S)
        /\ Len(Tail(s)) = Len(s) - 1 /\ Len(s) >= 1
        /\ \A i \in 1..Len(Tail(s)) : Tail(s)[i] = s[i + 1]
        /\ Head(s) = s[1]
  OBVIOUS

(* A line of the list was sent by the controller.                          *)
LEMMA ElementOf ==
  ASSUME NEW S, NEW s \in Seq(S), NEW i \in 1..Len(s)
  PROVE s[i] \in S
  OBVIOUS

(* Appending: the new line is last and the others keep their places.       *)
LEMMA AppendOf ==
  ASSUME NEW S, NEW s \in Seq(S), NEW e \in S
  PROVE /\ Append(s, e) \in Seq(S)
        /\ Len(Append(s, e)) = Len(s) + 1
        /\ \A i \in 1..Len(s) : Append(s, e)[i] = s[i]
        /\ Append(s, e)[Len(s) + 1] = e
        /\ Append(s, e) # <<>>
  OBVIOUS

(* On a list that is not empty, the tail of an append is the append of     *)
(* the tail.                                                               *)
LEMMA TailAppend ==
  ASSUME NEW S, NEW s \in Seq(S), s # <<>>, NEW e \in S
  PROVE Tail(Append(s, e)) = Append(Tail(s), e)
<1>1. Tail(Append(s, e)) \in Seq(S) /\ Append(Tail(s), e) \in Seq(S)
  BY TailOf, AppendOf
<1>2. Len(Tail(Append(s, e))) = Len(Append(Tail(s), e))
  BY TailOf, AppendOf
<1>3. \A i \in 1..Len(s) : Tail(Append(s, e))[i] = Append(Tail(s), e)[i]
  BY TailOf, AppendOf
<1> QED BY <1>1, <1>2, <1>3

(* The empty list of lines.                                                *)
LEMMA Empty == <<>> \in Seq(1..MaxLines) /\ Len(<<>>) = 0
  OBVIOUS

-------------------------------------------------------------------------------
(* Initially the list is empty and nobody is inside a statement.           *)
LEMMA InitIInv == Init => IInv
<1> SUFFICES ASSUME Init PROVE IInv
  OBVIOUS
<1> USE LimitAssumption
<1>1. TypeOK
  <2>1. lines \in Seq(1..MaxLines) BY Empty DEF Init
  <2>2. running \in BOOLEAN BY DEF Init
  <2> QED BY <2>1, <2>2 DEF Init, TypeOK, RxStates, MainStates
<1>2. Room /\ Recent /\ Sorted BY Empty DEF Init, Room, Recent, Sorted, Newest
<1> QED BY <1>1, <1>2 DEF Init, IInv, MainNeverRaises, DropGuarded, PopGuarded, DropAfterBurst

(* A line arrives: no statement changes the list.                          *)
LEMMA ReadKeeps == IInv /\ (ReadNoise \/ ReadLine) => IInv'
<1> SUFFICES ASSUME IInv, ReadNoise \/ ReadLine PROVE IInv'
  OBVIOUS
<1> USE LimitAssumption
<1>1. /\ lines' = lines /\ rxpc = "read" /\ UNCHANGED mainVars
      /\ heard < MaxLines /\ heard' = heard + 1 /\ since' = since + 1
      /\ burst' = IF since' > burst THEN since' ELSE burst
      /\ \/ rxpc' = "read"
         \/ rxpc' = "drop" /\ Len(lines) > Limit
         \/ rxpc' = "append" /\ Len(lines) <= Limit
  BY DEF ReadNoise, ReadLine, Sent, IInv, TypeOK
<1>2. TypeOK' BY <1>1 DEF IInv, TypeOK, RxStates, mainVars
<1>3. MainNeverRaises' /\ DropGuarded' /\ PopGuarded' /\ Room' /\ Recent'
  BY <1>1 DEF IInv, TypeOK, MainNeverRaises, DropGuarded, PopGuarded, Room, Recent, mainVars
<1>4. DropAfterBurst'
  BY <1>1 DEF IInv, TypeOK, DropAfterBurst, Recent
<1>5. Sorted'
  BY <1>1 DEF IInv, TypeOK, Sorted, Newest, mainVars
<1> QED BY <1>2, <1>3, <1>4, <1>5 DEF IInv

(* The drop falls anywhere between two statements of popFirstLine: the     *)
(* list is still longer than what the main thread may have seen as its     *)
(* only line.                                                              *)
LEMMA DropKeeps == IInv /\ DropOldest => IInv'
<1> SUFFICES ASSUME IInv, DropOldest PROVE IInv'
  OBVIOUS
<1> USE LimitAssumption, PopsAssumption
<1>1. CASE lines = <<>>
  <2>1. rxpc = "drop" /\ rxpc' = "dead" /\ UNCHANGED <<lines, heard, burst, since, mainVars>>
    BY <1>1 DEF DropOldest
  <2> QED
    BY <2>1 DEF IInv, TypeOK, RxStates, MainNeverRaises, DropGuarded, PopGuarded, Room,
         Recent, DropAfterBurst, Sorted, Newest, mainVars
<1>2. CASE lines # <<>>
  <2>1. /\ rxpc = "drop" /\ rxpc' = "append" /\ lines' = Tail(lines)
        /\ UNCHANGED <<heard, burst, since, mainVars>>
    BY <1>2 DEF DropOldest
  <2>2. /\ lines' \in Seq(1..MaxLines) /\ Len(lines') = Len(lines) - 1 /\ Len(lines) >= 1
        /\ \A i \in 1..Len(lines') : lines'[i] = lines[i + 1]
    BY <1>2, <2>1, TailOf DEF IInv, TypeOK
  <2>3. TypeOK' BY <2>1, <2>2 DEF IInv, TypeOK, RxStates, mainVars
  <2>4. PopGuarded'
    <3>1. CASE mainpc \in {"take", "del"}
      <4>1. popped < Pops /\ Len(lines) + popped > Limit
        BY <1>2, <2>1, <3>1 DEF IInv, PopGuarded, DropGuarded
      <4>2. Len(lines') >= 1
        BY <4>1, <2>2 DEF IInv, TypeOK
      <4>3. lines' # <<>> BY <4>2, Empty
      <4> QED BY <4>1, <4>3, <2>1 DEF PopGuarded, mainVars
    <3> QED BY <3>1, <2>1 DEF PopGuarded, mainVars
  <2>5. MainNeverRaises' /\ DropGuarded' /\ Room' /\ Recent' /\ DropAfterBurst'
    BY <2>1, <2>2 DEF IInv, TypeOK, MainNeverRaises, DropGuarded, Room, Recent,
         DropAfterBurst, mainVars
  <2>6. Sorted'
    BY <2>1, <2>2 DEF IInv, TypeOK, Sorted, Newest, mainVars
  <2> QED BY <2>3, <2>4, <2>5, <2>6 DEF IInv
<1> QED BY <1>1, <1>2

(* The stored line is the newest of all.                                   *)
LEMMA AppendKeeps == IInv /\ AppendLine => IInv'
<1> SUFFICES ASSUME IInv, AppendLine PROVE IInv'
  OBVIOUS
<1> USE LimitAssumption
<1>1. /\ rxpc = "append" /\ rxpc' = "read" /\ lines' = Append(lines, heard)
      /\ UNCHANGED <<heard, burst, since, mainVars>>
  BY DEF AppendLine
<1>2. heard \in 1..MaxLines
  BY <1>1 DEF IInv, TypeOK, Sorted
<1>3. /\ lines' \in Seq(1..MaxLines) /\ Len(lines') = Len(lines) + 1 /\ lines' # <<>>
      /\ \A i \in 1..Len(lines) : lines'[i] = lines[i]
      /\ lines'[Len(lines) + 1] = heard
  BY <1>1, <1>2, AppendOf DEF IInv, TypeOK
<1>4. TypeOK' BY <1>1, <1>3 DEF IInv, TypeOK, RxStates, mainVars
<1>5. MainNeverRaises' /\ DropGuarded' /\ PopGuarded' /\ Room' /\ Recent' /\ DropAfterBurst'
  BY <1>1, <1>3 DEF IInv, TypeOK, MainNeverRaises, DropGuarded, PopGuarded, Room, Recent,
       DropAfterBurst, mainVars
<1>6. Sorted'
  BY <1>1, <1>2, <1>3 DEF IInv, TypeOK, Sorted, Newest, mainVars
<1> QED BY <1>4, <1>5, <1>6 DEF IInv

(* Stopping either thread keeps the invariant.                             *)
LEMMA StopKeeps == IInv /\ (RxStop \/ close) => IInv'
  BY DEF RxStop, close, IInv, TypeOK, RxStates, MainStates, MainNeverRaises, DropGuarded,
     PopGuarded, Room, Recent, DropAfterBurst, Sorted, Newest, mainVars, rxVars

(* A flush forgets the lines and everything taken before it.               *)
LEMMA FlushKeeps == IInv /\ flushLines => IInv'
<1> SUFFICES ASSUME IInv, flushLines PROVE IInv'
  OBVIOUS
<1> USE LimitAssumption
<1>1. /\ mainpc = "idle" /\ mainpc' = "idle" /\ lines' = <<>> /\ popped' = 0 /\ since' = 0
      /\ UNCHANGED <<heard, rxpc, burst, running, one, last>>
  BY DEF flushLines, rxVars
<1>2. lines' \in Seq(1..MaxLines) /\ Len(lines') = 0
  BY <1>1, Empty
<1>3. TypeOK' BY <1>1, <1>2 DEF IInv, TypeOK
<1>4. MainNeverRaises' /\ DropGuarded' /\ PopGuarded' /\ Room' /\ Recent' /\ DropAfterBurst'
  BY <1>1, <1>2 DEF IInv, TypeOK, MainNeverRaises, DropGuarded, PopGuarded, Room, Recent,
       DropAfterBurst
<1>5. Sorted'
  BY <1>1, <1>2 DEF IInv, TypeOK, Sorted, Newest
<1> QED BY <1>3, <1>4, <1>5 DEF IInv

(* popFirstLine: the length test, the read and the delete.                 *)
LEMMA PopCheckKeeps == IInv /\ PopCheck => IInv'
<1> SUFFICES ASSUME IInv, PopCheck PROVE IInv'
  OBVIOUS
<1>1. lines # <<>>
  BY Empty DEF PopCheck
<1> QED
  BY <1>1 DEF PopCheck, IInv, TypeOK, MainStates, MainNeverRaises, DropGuarded, PopGuarded,
     Room, Recent, DropAfterBurst, Sorted, Newest, rxVars

(* Reading the head: the list is not empty, so nothing is raised.          *)
LEMMA PopTakeKeeps == IInv /\ PopTake => IInv'
<1> SUFFICES ASSUME IInv, PopTake PROVE IInv'
  OBVIOUS
<1>1. /\ mainpc = "take" /\ lines # <<>>
      /\ mainpc' = "del" /\ one' = Head(lines) /\ last' = Head(lines)
      /\ UNCHANGED <<lines, heard, rxpc, burst, since, running, popped>>
  BY DEF PopTake, IInv, PopGuarded, rxVars
<1>2. lines \in Seq(1..MaxLines) /\ Head(lines) = lines[1] /\ Len(lines) >= 1
  BY <1>1, TailOf DEF IInv, TypeOK
<1>3. 1 \in 1..Len(lines)
  BY <1>2
<1>4. TypeOK'
  <2>1. lines[1] \in 1..MaxLines BY <1>2, <1>3, ElementOf
  <2>2. one' \in 0..MaxLines /\ last' \in 0..MaxLines BY <1>1, <1>2, <2>1
  <2> QED BY <1>1, <2>2 DEF IInv, TypeOK, MainStates
<1>5. MainNeverRaises' /\ DropGuarded' /\ PopGuarded' /\ Room' /\ Recent' /\ DropAfterBurst'
  BY <1>1 DEF IInv, MainNeverRaises, DropGuarded, PopGuarded, Room, Recent, DropAfterBurst
<1>6. \A i \in 1..Len(lines) : lines[i] \in 1..MaxLines
  BY <1>2, ElementOf
<1>7. Newest' = Newest /\ last' = lines[1] /\ last' <= Newest
  BY <1>1, <1>2, <1>3 DEF IInv, Sorted, Newest
<1>8. \A i \in 1..Len(lines) : i > 1 => lines[1] < lines[i]
  BY <1>3 DEF IInv, Sorted
<1>9. Sorted'
  BY <1>1, <1>3, <1>6, <1>7, <1>8 DEF IInv, Sorted
<1> QED BY <1>4, <1>5, <1>9 DEF IInv

(* Deleting the head: whatever the receiver dropped in between.            *)
LEMMA PopDelKeeps == IInv /\ PopDel => IInv'
<1> SUFFICES ASSUME IInv, PopDel PROVE IInv'
  OBVIOUS
<1> USE LimitAssumption
<1>1. /\ mainpc = "del" /\ lines # <<>> /\ popped < Pops
      /\ mainpc' = "idle" /\ lines' = Tail(lines) /\ popped' = popped + 1
      /\ UNCHANGED <<heard, rxpc, burst, since, running, one, last>>
  BY DEF PopDel, IInv, PopGuarded, rxVars
<1>2. /\ lines' \in Seq(1..MaxLines) /\ Len(lines') = Len(lines) - 1 /\ Len(lines) >= 1
      /\ \A i \in 1..Len(lines') : lines'[i] = lines[i + 1]
  BY <1>1, TailOf DEF IInv, TypeOK
<1>3. TypeOK' BY <1>1, <1>2 DEF IInv, TypeOK, MainStates
<1>4. MainNeverRaises' /\ DropGuarded' /\ PopGuarded' /\ Room' /\ Recent' /\ DropAfterBurst'
  BY <1>1, <1>2 DEF IInv, TypeOK, MainNeverRaises, DropGuarded, PopGuarded, Room, Recent,
       DropAfterBurst
<1>5. Sorted'
  BY <1>1, <1>2 DEF IInv, TypeOK, Sorted, Newest
<1> QED BY <1>3, <1>4, <1>5 DEF IInv

(* The strengthened invariant holds in every reachable state.              *)
THEOREM Invariance == Spec => []IInv
<1>1. IInv /\ [Next]_vars => IInv'
  <2> SUFFICES ASSUME IInv, [Next]_vars PROVE IInv'
    OBVIOUS
  <2>1. CASE RxThread
    BY <2>1, ReadKeeps, DropKeeps, AppendKeeps, StopKeeps DEF RxThread
  <2>2. CASE MainThread
    BY <2>2, FlushKeeps, PopCheckKeeps, PopTakeKeeps, PopDelKeeps, StopKeeps DEF MainThread, Command
  <2>3. CASE UNCHANGED vars
    BY <2>3 DEF vars, IInv, TypeOK, MainNeverRaises, DropGuarded, PopGuarded, Room, Recent,
       DropAfterBurst, Sorted, Newest
  <2> QED BY <2>1, <2>2, <2>3 DEF Next
<1> QED BY InitIInv, <1>1, PTL DEF Spec

(* Type correctness, for every limit and number of lines.                  *)
THEOREM TypeCorrect == Spec => []TypeOK
BY Invariance, PTL DEF IInv

(* The list never holds more than one line above the limit.                *)
THEOREM ListBounded == Spec => []Bounded
<1>1. IInv => Bounded
  BY LimitAssumption DEF IInv, TypeOK, Room, Bounded
<1> QED BY <1>1, Invariance, PTL

(* popFirstLine never raises, for every number of reads between flushes up *)
(* to the limit.                                                           *)
THEOREM PopIsSafe == Spec => []MainNeverRaises
BY Invariance, PTL DEF IInv

(* The receiver dies only after a burst above the limit.                   *)
THEOREM ReceiverSurvives == Spec => []DeadOnlyAfterBurst
<1>1. IInv => DeadOnlyAfterBurst
  BY DEF IInv, DropAfterBurst, DeadOnlyAfterBurst
<1> QED BY <1>1, Invariance, PTL

(* The line popFirstLine takes is newer than the one it took before.       *)
THEOREM ReadsForward == Spec => NeverTwice
<1>1. IInv /\ [Next]_vars => [mainpc = "take" /\ mainpc' = "del" => last' > last]_vars
  <2> SUFFICES ASSUME IInv, Next, mainpc = "take", mainpc' = "del" PROVE last' > last
    BY DEF vars
  <2>1. last' = Head(lines) /\ lines # <<>>
    BY DEF Next, RxThread, ReadNoise, ReadLine, DropOldest, AppendLine, RxStop, MainThread, Command,
       flushLines, PopCheck, PopTake, PopDel, close, mainVars
  <2>2. lines \in Seq(1..MaxLines) /\ Head(lines) = lines[1] /\ Len(lines) >= 1
    BY <2>1, TailOf DEF IInv, TypeOK
  <2>3. 1 \in 1..Len(lines)
    BY <2>2
  <2>4. last < lines[1]
    BY <2>3 DEF IInv, Sorted
  <2>5. lines[1] \in 1..MaxLines
    BY <2>2, <2>3, ElementOf
  <2>6. last \in 0..MaxLines
    BY DEF IInv, TypeOK
  <2> QED BY <2>1, <2>2, <2>4, <2>5, <2>6
<1> QED BY <1>1, Invariance, PTL DEF Spec, NeverTwice

-------------------------------------------------------------------------------
(* The abstract queue and arrival count of Fifo's refinement mapping.      *)
AbsQueue == IF mainpc = "del" /\ lines # <<>> THEN Tail(lines) ELSE lines
AbsHeard == IF rxpc \in {"drop", "append"} THEN heard - 1 ELSE heard

(* A step of the receiver is an arrival, a loss, or nothing to the reader. *)
LEMMA RxImplements ==
  ASSUME IInv, RxThread
  PROVE  Fifo!Next \/ UNCHANGED <<AbsQueue, last, AbsHeard>>
<1> USE DEF AbsQueue, AbsHeard
<1>1. CASE ReadNoise
  <2>1. AbsHeard' = AbsHeard + 1 /\ AbsQueue' = AbsQueue /\ last' = last
    BY <1>1 DEF ReadNoise, Sent, mainVars
  <2> QED BY <2>1 DEF Fifo!Next, Fifo!Ignore
<1>2. CASE ReadLine
  <2>1. UNCHANGED <<AbsQueue, last, AbsHeard>>
    BY <1>2 DEF ReadLine, Sent, mainVars, IInv, TypeOK
  <2> QED BY <2>1
<1>3. CASE DropOldest
  <2>1. CASE lines = <<>>
    <3>1. AbsHeard' = AbsHeard + 1 /\ AbsQueue' = AbsQueue /\ last' = last
      BY <1>3, <2>1 DEF DropOldest, mainVars, IInv, TypeOK
    <3> QED BY <3>1 DEF Fifo!Next, Fifo!Ignore
  <2>2. CASE lines # <<>>
    <3>1. /\ rxpc = "drop" /\ rxpc' = "append" /\ lines' = Tail(lines)
          /\ UNCHANGED <<heard, mainpc, last>>
      BY <1>3, <2>2 DEF DropOldest, mainVars
    <3>2. AbsQueue # <<>> /\ AbsQueue' = Tail(AbsQueue)
      <4>1. CASE mainpc = "del"
        <5>1. Len(lines) + popped > Limit /\ popped < Pops
          BY <2>2, <3>1, <4>1 DEF IInv, DropGuarded, PopGuarded
        <5>2. Len(lines') >= 1
          BY <5>1, <2>2, <3>1, TailOf, LimitAssumption, PopsAssumption DEF IInv, TypeOK
        <5>3. lines' # <<>>
          BY <5>2, Empty
        <5> QED BY <2>2, <3>1, <4>1, <5>3
      <4>2. CASE mainpc # "del"
        BY <2>2, <3>1, <4>2
      <4> QED BY <4>1, <4>2
    <3>3. AbsHeard' = AbsHeard
      BY <3>1
    <3> QED BY <3>1, <3>2, <3>3 DEF Fifo!Next, Fifo!Forget
  <2> QED BY <2>1, <2>2
<1>4. CASE AppendLine
  <2>1. /\ rxpc = "append" /\ rxpc' = "read" /\ lines' = Append(lines, heard)
        /\ UNCHANGED <<heard, mainpc, last>>
    BY <1>4 DEF AppendLine, mainVars
  <2>2. heard \in 1..MaxLines /\ lines \in Seq(1..MaxLines)
    BY <2>1 DEF IInv, TypeOK, Sorted
  <2>3. lines' # <<>>
    BY <2>1, <2>2, AppendOf
  <2>4. AbsHeard' = heard /\ heard = AbsHeard + 1
    BY <2>1, <2>2
  <2>5. AbsQueue' = Append(AbsQueue, heard)
    <3>1. CASE mainpc = "del"
      <4>1. lines # <<>>
        BY <3>1 DEF IInv, PopGuarded
      <4>2. Tail(Append(lines, heard)) = Append(Tail(lines), heard)
        BY <2>2, <4>1, TailAppend
      <4> QED BY <2>1, <2>3, <3>1, <4>1, <4>2
    <3>2. CASE mainpc # "del"
      BY <2>1, <3>2
    <3> QED BY <3>1, <3>2
  <2> QED BY <2>1, <2>4, <2>5 DEF Fifo!Next, Fifo!Arrive
<1>5. CASE RxStop
  BY <1>5 DEF RxStop, mainVars
<1> QED BY <1>1, <1>2, <1>3, <1>4, <1>5 DEF RxThread

(* A step of the main thread takes the oldest line, forgets all, or is     *)
(* invisible: the delete was already counted at the read.                  *)
LEMMA MainImplements ==
  ASSUME IInv, MainThread
  PROVE  Fifo!Next \/ UNCHANGED <<AbsQueue, last, AbsHeard>>
<1> USE DEF AbsQueue, AbsHeard
<1>1. CASE flushLines
  <2>1. AbsQueue' = <<>> /\ UNCHANGED <<last, AbsHeard>>
    BY <1>1 DEF flushLines, rxVars
  <2> QED BY <2>1 DEF Fifo!Next, Fifo!ForgetAll
<1>2. CASE PopCheck \/ close
  BY <1>2 DEF PopCheck, close, rxVars
<1>3. CASE PopTake
  <2>1. /\ mainpc = "take" /\ lines # <<>> /\ mainpc' = "del" /\ last' = Head(lines)
        /\ UNCHANGED <<lines, heard, rxpc>>
    BY <1>3 DEF PopTake, rxVars, IInv, PopGuarded
  <2>2. /\ AbsQueue # <<>> /\ last' = Head(AbsQueue) /\ AbsQueue' = Tail(AbsQueue)
        /\ AbsHeard' = AbsHeard
    BY <2>1
  <2> QED BY <2>2 DEF Fifo!Next, Fifo!Take
<1>4. CASE PopDel
  BY <1>4 DEF PopDel, rxVars, IInv, PopGuarded
<1> QED BY <1>1, <1>2, <1>3, <1>4 DEF MainThread, Command

(* The shared list implements the abstract FIFO, for every limit, every    *)
(* number of lines and every interleaving of the two threads.              *)
THEOREM Refinement == Spec => ImplementsFifo
<1>1. Init => Fifo!Init
  BY DEF Init, Fifo!Init
<1>2. IInv /\ [Next]_vars => [Fifo!Next]_(Fifo!vars)
  <2> SUFFICES ASSUME IInv, [Next]_vars
      PROVE Fifo!Next \/ UNCHANGED <<AbsQueue, last, AbsHeard>>
    BY DEF Fifo!vars, AbsQueue, AbsHeard
  <2>1. CASE Next
    BY <2>1, RxImplements, MainImplements DEF Next
  <2>2. CASE UNCHANGED vars
    BY <2>2 DEF vars, AbsQueue, AbsHeard
  <2> QED BY <2>1, <2>2
<1> QED BY <1>1, <1>2, Invariance, PTL DEF Spec, ImplementsFifo, Fifo!Spec
-------------------------------------------------------------------------------
(***************************************************************************)
(* Selecting a mux channel, for every set of channels, number of calls,    *)
(* losses and late answers.                                                *)
(***************************************************************************)
Commands == [op : {"set", "get"}, ch : Nat \cup {None}]

MuxTypeOK ==
  /\ pc \in {"idle", "get", "wait", "read", "test", "raised"}
  /\ target \in Nat \cup {None} /\ current \in Nat \cup {None}
  /\ count \in 0..Period /\ tries \in Nat
  /\ first \in BOOLEAN /\ confirmed \in BOOLEAN /\ missed \in BOOLEAN
  /\ wire \in Seq(Commands)
  /\ inbound \in Seq(Nat \cup {Echo}) /\ stored \in Seq(Nat \cup {Echo})
  /\ pins \in [Bits -> {0, 1}] /\ bit \in Bits \cup {Idle} /\ channel \in Nat \cup {None}
  /\ lost \in Nat /\ late \in Nat /\ calls \in Nat

(* set() has seen its channel, and has returned or is about to.            *)
Seen == (pc = "test" /\ current = target) \/ (pc = "idle" /\ confirmed)

(* set() returns only when it has seen its channel.                        *)
Called ==
  /\ pc # "idle" => target \in Nat
  /\ pc = "idle" /\ confirmed => target \in Nat
  /\ pc = "idle" /\ ~confirmed => wire = <<>> /\ inbound = <<>> /\ bit = Idle

(* The outputs select the channel, and no command under way changes that.  *)
Settled ==
  /\ Value(pins) = target
  /\ bit # Idle => channel = target
  /\ \A i \in 1..Len(wire) : wire[i].op = "set" => wire[i].ch = target

(* A set_mux of an earlier call selects what is selected, and comes before *)
(* those of this call.                                                     *)
SetsOrdered ==
  /\ \A i \in 1..Len(wire) : wire[i].op = "set" /\ wire[i].ch # target =>
       wire[i].ch = Value(pins) /\ (bit # Idle => channel = Value(pins))
  /\ \A i, j \in 1..Len(wire) :
       i < j /\ wire[i].op = "set" /\ wire[j].op = "set" /\ wire[i].ch = target =>
         wire[j].ch = target
  /\ bit # Idle => channel \in {target, Value(pins)}

(* After an answer that names the channel, on its way, stored or read, all *)
(* answers name it.                                                        *)
Names(s) == \E i \in 1..Len(s) : s[i] = target
NoOther(s) == \A i \in 1..Len(s) : s[i] \in {target, Echo}
FromThenOn(s) == \A i, j \in 1..Len(s) : i < j /\ s[i] = target => s[j] \in {target, Echo}

AnswersOrdered ==
  target \in Nat =>
    /\ Names(stored) \/ Names(inbound) \/ Seen => Settled
    /\ FromThenOn(stored) /\ FromThenOn(inbound)
    /\ Names(stored) => NoOther(inbound)
    /\ Seen => NoOther(stored) /\ NoOther(inbound)

MuxInv == MuxTypeOK /\ Called /\ SetsOrdered /\ AnswersOrdered
-------------------------------------------------------------------------------
(* The outputs select a channel, and its bits are the outputs.             *)
LEMMA SameBit ==
  ASSUME pins \in [Bits -> {0, 1}]
  PROVE /\ Value(pins) \in Nat
        /\ \A i \in Bits : BitOf(Value(pins), i) = pins[i]
<1>1. pins[0] \in {0, 1} /\ pins[1] \in {0, 1} /\ pins[2] \in {0, 1}
  BY DEF Bits
<1>2. Value(pins) \in Nat
  BY <1>1 DEF Value
<1>3. /\ BitOf(Value(pins), 0) = pins[0]
      /\ BitOf(Value(pins), 1) = pins[1]
      /\ BitOf(Value(pins), 2) = pins[2]
  BY <1>1 DEF Value, BitOf
<1> QED BY <1>2, <1>3 DEF Bits

(* The poll counter starts over before it reaches the limit.               *)
LEMMA CountedIs == ASSUME NEW n \in 0..Period PROVE Counted(n) \in 0..Period
BY MuxAssumption DEF Counted

(* Where the host stands matters less than what it has seen: a step of the *)
(* host that sends nothing and reads nothing.                              *)
LEMMA HostKeeps ==
  ASSUME MuxInv, MuxTypeOK', Called', Seen' => Seen, stored' \in {stored, <<>>},
         UNCHANGED <<target, wire, inbound, pins, bit, channel>>
  PROVE MuxInv'
<1>1. SetsOrdered'
  BY DEF MuxInv, SetsOrdered
<1>2. AnswersOrdered'
  <2>1. CASE stored' = stored
    <3>1. Settled' <=> Settled
      BY DEF Settled
    <3> QED BY <2>1, <3>1 DEF MuxInv, AnswersOrdered, Names, NoOther, FromThenOn
  <2>2. CASE stored' = <<>>
    <3>1. Settled' <=> Settled
      BY DEF Settled
    <3>2. ~Names(stored)' /\ NoOther(stored)' /\ FromThenOn(stored)'
      BY <2>2 DEF Names, NoOther, FromThenOn
    <3> QED BY <3>1, <3>2 DEF MuxInv, AnswersOrdered, Names, NoOther, FromThenOn
  <2> QED BY <2>1, <2>2
<1> QED BY <1>1, <1>2 DEF MuxInv

LEMMA ReadLinesStep == ASSUME MuxInv, readLines PROVE MuxInv'
<1>1. /\ pc = "wait" /\ pc' = "read" /\ late' \in {late, late + 1}
      /\ UNCHANGED <<target, current, count, first, tries, confirmed, calls,
                     wire, inbound, stored, pins, bit, channel, lost, missed>>
  BY DEF readLines, fwVars
<1>2. MuxTypeOK' /\ Called'
  BY <1>1 DEF MuxInv, MuxTypeOK, Called
<1>3. ~Seen'
  BY <1>1 DEF Seen
<1> QED BY <1>1, <1>2, <1>3, HostKeeps

(* The loop ends only when the channel has been seen.                      *)
LEMMA TestStep == ASSUME MuxInv, test PROVE MuxInv'
<1>1. /\ pc = "test" /\ count' = IF first THEN count ELSE Counted(count)
      /\ first' = FALSE /\ confirmed' = (current = target)
      /\ pc' = IF current = target \/ count' > MaxPolls THEN "idle" ELSE "get"
      /\ UNCHANGED <<target, current, tries, late, calls, wire, inbound, stored, pins, bit,
                     channel, lost, missed>>
  BY DEF test, fwVars
<1>2. count' \in 0..Period
  BY <1>1, CountedIs DEF MuxInv, MuxTypeOK
<1>3. ~(count' > MaxPolls)
  BY <1>2, MuxAssumption, PeriodAssumption
<1>4. MuxTypeOK'
  BY <1>1, <1>2 DEF MuxInv, MuxTypeOK
<1>5. pc' = "idle" <=> current = target
  BY <1>1, <1>3
<1>6. Called'
  BY <1>1, <1>5 DEF MuxInv, Called
<1>7. Seen' => Seen
  BY <1>1, <1>5 DEF Seen
<1> QED BY <1>1, <1>4, <1>6, <1>7, HostKeeps

(* A line is read; an answer that names the channel proves it selected.    *)
LEMMA ReadLineStep == ASSUME MuxInv, readLine PROVE MuxInv'
<1>1. /\ pc = "read" /\ stored' = IF stored = <<>> THEN stored ELSE Tail(stored)
      /\ \/ stored # <<>> /\ current' = Head(stored) /\ pc' = "test" /\ tries' = tries
         \/ stored # <<>> /\ pc' = "raised" /\ current' = current /\ tries' = tries
         \/ /\ tries' = tries + 1
            /\ current' = IF tries = 2 THEN None ELSE current
            /\ pc' = IF tries = 2 THEN "test" ELSE "read"
      /\ UNCHANGED <<target, count, first, confirmed, late, calls, wire, inbound, pins, bit,
                     channel, lost, missed>>
  BY DEF readLine, FirstLine, fwVars
<1>2. MuxTypeOK /\ target \in Nat
  BY <1>1 DEF MuxInv, Called
<1>3. ASSUME stored # <<>>
      PROVE /\ stored' \in Seq(Nat \cup {Echo})
            /\ Len(stored) \in Nat /\ Len(stored') = Len(stored) - 1 /\ Len(stored) >= 1
            /\ \A i \in 1..Len(stored') : stored'[i] = stored[i + 1]
            /\ Head(stored) = stored[1] /\ Head(stored) \in Nat \cup {Echo}
  <2>1. stored' = Tail(stored) /\ stored \in Seq(Nat \cup {Echo})
    BY <1>1, <1>2, <1>3 DEF MuxTypeOK
  <2>2. stored[1] \in Nat \cup {Echo}
    BY <1>3, <2>1
  <2> QED BY <1>3, <2>1, <2>2, TailOf
<1>4. MuxTypeOK'
  <2>1. stored' \in Seq(Nat \cup {Echo})
    BY <1>1, <1>2, <1>3 DEF MuxTypeOK
  <2>2. current' \in Nat \cup {None} /\ tries' \in Nat
    BY <1>1, <1>2, <1>3 DEF MuxTypeOK, Echo, None
  <2> QED BY <1>1, <1>2, <2>1, <2>2 DEF MuxTypeOK
<1>5. Called' /\ SetsOrdered' /\ (Settled' <=> Settled) /\ ~Seen
  BY <1>1 DEF MuxInv, Called, SetsOrdered, Settled, Seen
<1>6. Names(stored)' => Names(stored)
  BY <1>1, <1>3 DEF Names
<1>7. FromThenOn(stored)'
  <2>1. FromThenOn(stored)
    BY <1>2 DEF MuxInv, AnswersOrdered
  <2>2. CASE stored = <<>>
    BY <1>1, <2>2 DEF FromThenOn
  <2>3. CASE stored # <<>>
    BY <1>1, <1>3, <2>1, <2>3 DEF FromThenOn
  <2> QED BY <2>2, <2>3
<1>8. Seen' => Names(stored) /\ NoOther(stored)'
  <2> SUFFICES ASSUME Seen' PROVE Names(stored) /\ NoOther(stored)'
    OBVIOUS
  <2>1. stored # <<>> /\ Head(stored) = target
    BY <1>1, <1>2 DEF Seen, None
  <2>2. Names(stored)
    BY <1>3, <2>1 DEF Names
  <2>3. NoOther(stored)'
    BY <1>1, <1>2, <1>3, <2>1 DEF MuxInv, AnswersOrdered, FromThenOn, NoOther
  <2> QED BY <2>2, <2>3
<1>9. AnswersOrdered'
  <2>1. /\ Names(inbound)' <=> Names(inbound)
        /\ FromThenOn(inbound)' <=> FromThenOn(inbound)
        /\ NoOther(inbound)' <=> NoOther(inbound)
    BY <1>1 DEF Names, FromThenOn, NoOther
  <2> QED BY <1>2, <1>5, <1>6, <1>7, <1>8, <2>1 DEF MuxInv, AnswersOrdered
<1> QED BY <1>4, <1>5, <1>9 DEF MuxInv

(* A call begins: what is under way is of a call that saw its channel, or  *)
(* there was none.                                                         *)
LEMMA SetStep == ASSUME MuxInv, NEW ch \in Targets, set(ch) PROVE MuxInv'
<1>1. /\ pc = "idle" /\ calls' = calls + 1 /\ target' = ch /\ count' = 0
      /\ first' = TRUE /\ confirmed' = FALSE /\ pc' = "get" /\ missed' = FALSE
      /\ stored' = <<>> /\ wire' = Append(wire, SetMux(ch))
      /\ UNCHANGED <<current, tries, late, inbound, pins, bit, channel, lost>>
  BY DEF set, Send, fwVars
<1>2. MuxTypeOK /\ ch \in Nat
  BY MuxAssumption DEF MuxInv
<1>3. SetMux(ch) \in Commands /\ SetMux(ch).op = "set" /\ SetMux(ch).ch = ch
  BY <1>2 DEF SetMux, Commands
<1>4. /\ wire' \in Seq(Commands) /\ Len(wire) \in Nat /\ Len(wire') = Len(wire) + 1
      /\ \A i \in 1..Len(wire) : wire'[i] = wire[i]
      /\ wire'[Len(wire) + 1] = SetMux(ch)
  BY <1>1, <1>2, <1>3, AppendOf DEF MuxTypeOK
<1>5. MuxTypeOK'
  <2>1. count' \in 0..Period /\ calls' \in Nat /\ stored' \in Seq(Nat \cup {Echo})
    BY <1>1, <1>2, MuxAssumption DEF MuxTypeOK
  <2> QED BY <1>1, <1>2, <1>4, <2>1 DEF MuxTypeOK
<1>6. Called'
  BY <1>1, <1>2 DEF Called
<1>7. ASSUME confirmed
      PROVE /\ target \in Nat /\ Settled /\ NoOther(inbound)
            /\ \A i \in 1..Len(wire) : wire'[i].op = "set" =>
                 wire'[i].ch = target /\ wire'[i].ch = Value(pins)
  <2>1. target \in Nat /\ Settled /\ NoOther(inbound)
    BY <1>1, <1>7 DEF MuxInv, Called, AnswersOrdered, Seen
  <2> QED BY <1>4, <2>1 DEF Settled
<1>8. ~confirmed => Len(wire) = 0 /\ Len(inbound) = 0 /\ bit = Idle
  BY <1>1 DEF MuxInv, Called
<1>9. \A i \in 1..Len(wire') : wire'[i] = SetMux(ch) \/ i \in 1..Len(wire)
  BY <1>4
<1>10. SetsOrdered'
  <2>1. CASE confirmed
    <3>1. \A i \in 1..Len(wire') : wire'[i].op = "set" =>
            wire'[i].ch = ch \/ (i \in 1..Len(wire) /\ wire'[i].ch = target)
      BY <1>3, <1>7, <1>9, <2>1
    <3>2. Value(pins) = target /\ (bit # Idle => channel = target)
      BY <1>7, <2>1 DEF Settled
    <3>3. \A i, j \in 1..Len(wire') :
            i < j /\ wire'[i].op = "set" /\ wire'[j].op = "set" /\ wire'[i].ch = ch =>
              wire'[j].ch = ch
      <4> SUFFICES ASSUME NEW i \in 1..Len(wire'), NEW j \in 1..Len(wire'), i < j,
                          wire'[i].op = "set", wire'[j].op = "set", wire'[i].ch = ch,
                          wire'[j].ch # ch
          PROVE FALSE
        OBVIOUS
      <4>1. j \in 1..Len(wire) /\ wire'[j].ch = target
        BY <3>1
      <4>2. i \in 1..Len(wire)
        BY <1>4, <4>1
      <4>3. wire'[i].ch = target
        BY <1>7, <2>1, <4>2
      <4> QED BY <4>1, <4>3
    <3> QED BY <1>1, <3>1, <3>2, <3>3 DEF SetsOrdered, Value
  <2>2. CASE ~confirmed
    BY <1>1, <1>3, <1>4, <1>8, <1>9, <2>2 DEF SetsOrdered
  <2> QED BY <2>1, <2>2
<1>11. AnswersOrdered'
  <2>1. ~Seen' /\ ~Names(stored)' /\ NoOther(stored)' /\ FromThenOn(stored)'
    BY <1>1 DEF Seen, Names, NoOther, FromThenOn
  <2>2. Names(inbound)' => confirmed /\ target' = target
    <3>1. ASSUME NEW i \in 1..Len(inbound), inbound[i] = ch
          PROVE confirmed /\ ch = target
      <4>1. confirmed
        BY <1>8, <3>1 DEF MuxTypeOK
      <4>2. inbound[i] \in {target, Echo}
        BY <1>7, <4>1 DEF NoOther
      <4> QED BY <1>2, <3>1, <4>1, <4>2 DEF Echo
    <3> QED BY <1>1, <3>1 DEF Names
  <2>3. Names(inbound)' => Settled'
    <3> SUFFICES ASSUME Names(inbound)' PROVE Settled'
      OBVIOUS
    <3>1. confirmed /\ target' = target /\ ch = target
      BY <1>1, <2>2
    <3>2. \A i \in 1..Len(wire') : wire'[i].op = "set" => wire'[i].ch = target
      BY <1>3, <1>7, <1>9, <3>1
    <3> QED BY <1>1, <1>7, <3>1, <3>2 DEF Settled, Value
  <2>4. FromThenOn(inbound)'
    <3>1. Names(inbound)' => NoOther(inbound)'
      BY <1>1, <1>7, <2>2 DEF NoOther
    <3> QED BY <3>1 DEF Names, NoOther, FromThenOn
  <2> QED BY <2>1, <2>3, <2>4 DEF AnswersOrdered
<1> QED BY <1>5, <1>6, <1>10, <1>11 DEF MuxInv

(* A get_mux_channel is sent; the commands that select a channel stay.     *)
LEMMA GetMuxStep == ASSUME MuxInv, getMux PROVE MuxInv'
<1>1. /\ pc = "get" /\ pc' = "wait" /\ tries' = 0
      /\ stored' = <<>> /\ wire' = Append(wire, GetMux)
      /\ UNCHANGED <<target, current, count, first, confirmed, late, calls, inbound, pins, bit,
                     channel, lost, missed>>
  BY DEF getMux, Send, fwVars
<1>2. GetMux \in Commands /\ GetMux.op # "set"
  BY DEF GetMux, Commands
<1>3. /\ wire' \in Seq(Commands) /\ Len(wire) \in Nat /\ Len(wire') = Len(wire) + 1
      /\ \A i \in 1..Len(wire) : wire'[i] = wire[i]
      /\ wire'[Len(wire) + 1] = GetMux
  BY <1>1, <1>2, AppendOf DEF MuxInv, MuxTypeOK
<1>4. MuxTypeOK'
  BY <1>1, <1>3 DEF MuxInv, MuxTypeOK
<1>5. Called'
  BY <1>1 DEF MuxInv, Called
<1>6. \A i \in 1..Len(wire') : wire'[i].op = "set" => i \in 1..Len(wire) /\ wire'[i] = wire[i]
  BY <1>2, <1>3
<1>7. SetsOrdered'
  BY <1>1, <1>6 DEF MuxInv, SetsOrdered, Value
<1>8. AnswersOrdered'
  <2>1. ~Seen' /\ ~Names(stored)' /\ NoOther(stored)' /\ FromThenOn(stored)'
    BY <1>1 DEF Seen, Names, NoOther, FromThenOn
  <2>2. Settled => Settled'
    BY <1>1, <1>6 DEF Settled, Value
  <2> QED BY <1>1, <2>1, <2>2 DEF MuxInv, AnswersOrdered, Names, FromThenOn
<1> QED BY <1>4, <1>5, <1>7, <1>8 DEF MuxInv

(* The first command leaves the wire, and the others keep their order.     *)
LEMMA WireTail ==
  ASSUME MuxTypeOK, wire # <<>>, wire' = Tail(wire)
  PROVE /\ wire' \in Seq(Commands)
        /\ Len(wire) \in Nat /\ Len(wire) >= 1 /\ Len(wire') = Len(wire) - 1
        /\ \A i \in 1..Len(wire') : wire'[i] = wire[i + 1] /\ i + 1 \in 1..Len(wire)
        /\ Head(wire) = wire[1] /\ Head(wire) \in Commands
<1>1. wire \in Seq(Commands)
  BY DEF MuxTypeOK
<1>2. wire[1] \in Commands
  BY <1>1
<1> QED BY <1>1, <1>2, TailOf

(* The command that selects a channel is executed.                         *)
LEMMA FwSetStep == ASSUME MuxInv, FwSet PROVE MuxInv'
<1> DEFINE accepted == Head(wire).ch > -1 /\ Head(wire).ch <= 8
<1>1. /\ bit = Idle /\ wire # <<>> /\ Head(wire).op = "set"
      /\ wire' = Tail(wire) /\ inbound' = Append(inbound, Echo)
      /\ IF accepted THEN bit' = 2 /\ channel' = Head(wire).ch ELSE UNCHANGED <<bit, channel>>
      /\ UNCHANGED <<pins, pc, target, current, count, first, tries, confirmed, late, calls,
                     stored, lost, missed>>
  BY DEF FwSet, hostVars
<1>2. /\ wire' \in Seq(Commands)
      /\ Len(wire) \in Nat /\ Len(wire) >= 1 /\ Len(wire') = Len(wire) - 1
      /\ \A i \in 1..Len(wire') : wire'[i] = wire[i + 1] /\ i + 1 \in 1..Len(wire)
      /\ Head(wire) = wire[1] /\ Head(wire).ch \in Nat \cup {None}
  BY <1>1, WireTail DEF MuxInv, Commands
<1>3. /\ inbound' \in Seq(Nat \cup {Echo}) /\ Len(inbound) \in Nat
      /\ Len(inbound') = Len(inbound) + 1 /\ inbound'[Len(inbound) + 1] = Echo
      /\ \A i \in 1..Len(inbound) : inbound'[i] = inbound[i]
  BY <1>1, AppendOf DEF MuxInv, MuxTypeOK
<1>4. \A i \in 1..Len(inbound') : inbound'[i] = Echo \/ i \in 1..Len(inbound)
  BY <1>3
<1>5. MuxTypeOK'
  BY <1>1, <1>2, <1>3 DEF MuxInv, MuxTypeOK, Bits
<1>6. Called' /\ pc = pc'
  BY <1>1 DEF MuxInv, Called
<1>7. SetsOrdered'
  <2>1. 1 \in 1..Len(wire) /\ \A i \in 1..Len(wire') : 1 < i + 1
    BY <1>2
  <2>2. CASE Head(wire).ch = target
    <3>1. \A i \in 1..Len(wire') : wire'[i].op = "set" => wire'[i].ch = target
      BY <1>1, <1>2, <2>1, <2>2 DEF MuxInv, SetsOrdered
    <3>2. bit' # Idle => channel' = target
      BY <1>1, <2>2
    <3> QED BY <1>1, <3>1, <3>2 DEF SetsOrdered, Value
  <2>3. CASE Head(wire).ch # target
    <3>1. Head(wire).ch = Value(pins)
      BY <1>1, <1>2, <2>1, <2>3 DEF MuxInv, SetsOrdered
    <3>2. bit' # Idle => channel' = Value(pins)
      BY <1>1, <3>1
    <3>3. \A i \in 1..Len(wire') : wire'[i].op = "set" /\ wire'[i].ch # target =>
            wire'[i].ch = Value(pins)
      BY <1>2 DEF MuxInv, SetsOrdered
    <3>4. \A i, j \in 1..Len(wire') :
            i < j /\ wire'[i].op = "set" /\ wire'[j].op = "set" /\ wire'[i].ch = target =>
              wire'[j].ch = target
      <4> SUFFICES ASSUME NEW i \in 1..Len(wire'), NEW j \in 1..Len(wire'), i < j,
                          wire[i + 1].op = "set", wire[j + 1].op = "set",
                          wire[i + 1].ch = target
          PROVE wire[j + 1].ch = target
        BY <1>2
      <4>1. i + 1 \in 1..Len(wire) /\ j + 1 \in 1..Len(wire) /\ i + 1 < j + 1
        BY <1>2
      <4> QED BY <4>1 DEF MuxInv, SetsOrdered
    <3> QED BY <1>1, <3>2, <3>3, <3>4 DEF SetsOrdered, Value
  <2> QED BY <2>2, <2>3
<1>8. Settled => Settled'
  <2> SUFFICES ASSUME Settled PROVE Settled'
    OBVIOUS
  <2>1. Head(wire).ch = target
    BY <1>1, <1>2 DEF Settled
  <2>2. \A i \in 1..Len(wire') : wire'[i].op = "set" => wire'[i].ch = target
    BY <1>2 DEF Settled
  <2> QED BY <1>1, <2>1, <2>2 DEF Settled, Value
<1>9. AnswersOrdered'
  <2>1. /\ Names(stored)' <=> Names(stored)
        /\ FromThenOn(stored)' <=> FromThenOn(stored)
        /\ NoOther(stored)' <=> NoOther(stored)
        /\ Seen' <=> Seen
    BY <1>1 DEF Names, FromThenOn, NoOther, Seen
  <2>2. target \in Nat => (Names(inbound)' => Names(inbound))
    BY <1>1, <1>3, <1>4 DEF Names, Echo
  <2>3. NoOther(inbound) => NoOther(inbound)'
    BY <1>1, <1>3, <1>4 DEF NoOther
  <2>4. FromThenOn(inbound) => FromThenOn(inbound)'
    <3> SUFFICES ASSUME FromThenOn(inbound), NEW i \in 1..Len(inbound'), NEW j \in 1..Len(inbound'),
                        i < j, inbound'[i] = target
        PROVE inbound'[j] \in {target, Echo}
      BY <1>1 DEF FromThenOn
    <3>1. CASE j \in 1..Len(inbound)
      <4>1. i \in 1..Len(inbound)
        BY <1>3, <3>1
      <4> QED BY <1>3, <3>1, <4>1 DEF FromThenOn
    <3>2. CASE inbound'[j] = Echo
      BY <3>2
    <3> QED BY <1>4, <3>1, <3>2
  <2> QED BY <1>1, <1>8, <2>1, <2>2, <2>3, <2>4 DEF MuxInv, AnswersOrdered
<1> QED BY <1>5, <1>6, <1>7, <1>9 DEF MuxInv

(* One output follows the channel that is being selected.                  *)
LEMMA SetMuxBitStep == ASSUME MuxInv, setMuxBit PROVE MuxInv'
<1>1. /\ bit # Idle /\ pins' = [pins EXCEPT ![bit] = BitOf(channel, bit)] /\ bit' = bit - 1
      /\ UNCHANGED <<channel, pc, target, current, count, first, tries, confirmed, late, calls,
                     wire, inbound, stored, lost, missed>>
  BY DEF setMuxBit, hostVars
<1>2. MuxTypeOK /\ bit \in Bits /\ channel \in {target, Value(pins)}
  BY <1>1 DEF MuxInv, MuxTypeOK, SetsOrdered
<1>3. /\ Value(pins) \in Nat /\ \A i \in Bits : BitOf(Value(pins), i) = pins[i]
  BY <1>2, SameBit DEF MuxTypeOK
<1>4. channel \in Nat
  <2>1. target # None
    BY <1>1 DEF MuxInv, Called, None
  <2> QED BY <1>2, <1>3, <2>1 DEF MuxTypeOK
<1>5. MuxTypeOK'
  <2>1. BitOf(channel, bit) \in {0, 1}
    BY <1>2, <1>4 DEF BitOf, Bits
  <2>2. pins' \in [Bits -> {0, 1}]
    BY <1>1, <1>2, <2>1 DEF MuxTypeOK
  <2>3. bit' \in Bits \cup {Idle}
    BY <1>1, <1>2 DEF Bits, Idle
  <2> QED BY <1>1, <1>2, <2>2, <2>3 DEF MuxTypeOK
<1>6. Called'
  BY <1>1 DEF MuxInv, Called
<1>7. channel = Value(pins) => pins' = pins
  BY <1>1, <1>2, <1>3 DEF MuxTypeOK
<1>8. SetsOrdered'
  <2>1. CASE channel = Value(pins)
    BY <1>1, <1>7, <2>1 DEF MuxInv, SetsOrdered
  <2>2. CASE channel # Value(pins)
    <3>1. \A i \in 1..Len(wire) : wire[i].op = "set" => wire[i].ch = target
      BY <1>1, <2>2 DEF MuxInv, SetsOrdered
    <3>2. channel = target
      BY <1>2, <2>2
    <3> QED BY <1>1, <3>1, <3>2 DEF SetsOrdered
  <2> QED BY <2>1, <2>2
<1>9. Settled => Settled'
  BY <1>1, <1>7 DEF Settled
<1>10. AnswersOrdered'
  BY <1>1, <1>9 DEF MuxInv, AnswersOrdered, Names, NoOther, FromThenOn, Seen
<1> QED BY <1>5, <1>6, <1>8, <1>10 DEF MuxInv

(* The channel is reported.  If it is the one set() waits for, no command  *)
(* under way changes it.                                                   *)
LEMMA GetMuxChannelStep == ASSUME MuxInv, getMuxChannel PROVE MuxInv'
<1>1. /\ bit = Idle /\ wire # <<>> /\ wire' = Tail(wire)
      /\ inbound' = inbound \o <<Echo, Value(pins)>>
      /\ UNCHANGED <<pins, bit, channel, pc, target, current, count, first, tries, confirmed,
                     late, calls, stored, lost, missed>>
  BY DEF getMuxChannel, fwVars, hostVars
<1>2. /\ wire' \in Seq(Commands)
      /\ \A i \in 1..Len(wire') : wire'[i] = wire[i + 1] /\ i + 1 \in 1..Len(wire)
      /\ Len(wire) \in Nat /\ Len(wire') = Len(wire) - 1
  BY <1>1, WireTail DEF MuxInv
<1>3. Value(pins) \in Nat
  BY SameBit DEF MuxInv, MuxTypeOK
<1>4. /\ inbound' \in Seq(Nat \cup {Echo}) /\ Len(inbound) \in Nat
      /\ Len(inbound') = Len(inbound) + 2
      /\ \A i \in 1..Len(inbound) : inbound'[i] = inbound[i]
      /\ inbound'[Len(inbound) + 1] = Echo /\ inbound'[Len(inbound) + 2] = Value(pins)
  BY <1>1, <1>3 DEF MuxInv, MuxTypeOK
<1>5. \A i \in 1..Len(inbound') :
        i \in 1..Len(inbound) \/ inbound'[i] \in {Echo, Value(pins)}
  BY <1>4
<1>6. MuxTypeOK'
  BY <1>1, <1>2, <1>4 DEF MuxInv, MuxTypeOK
<1>7. Called'
  BY <1>1 DEF MuxInv, Called
<1>8. SetsOrdered'
  <2>1. \A i, j \in 1..Len(wire') :
          i < j /\ wire'[i].op = "set" /\ wire'[j].op = "set" /\ wire'[i].ch = target =>
            wire'[j].ch = target
    <3> SUFFICES ASSUME NEW i \in 1..Len(wire'), NEW j \in 1..Len(wire'), i < j,
                        wire[i + 1].op = "set", wire[j + 1].op = "set",
                        wire[i + 1].ch = target
        PROVE wire[j + 1].ch = target
      BY <1>2
    <3>1. i + 1 \in 1..Len(wire) /\ j + 1 \in 1..Len(wire) /\ i + 1 < j + 1
      BY <1>2
    <3> QED BY <3>1 DEF MuxInv, SetsOrdered
  <2>2. \A i \in 1..Len(wire') : wire'[i].op = "set" /\ wire'[i].ch # target =>
          wire'[i].ch = Value(pins)
    BY <1>2 DEF MuxInv, SetsOrdered
  <2> QED BY <1>1, <2>1, <2>2 DEF SetsOrdered, Value
<1>9. (Settled => Settled') /\ (Value(pins) = target => Settled')
  <2>1. Value(pins) = target => Settled
    BY <1>1 DEF MuxInv, SetsOrdered, Settled
  <2>2. Settled => Settled'
    BY <1>1, <1>2 DEF Settled, Value
  <2> QED BY <2>1, <2>2
<1>10. AnswersOrdered'
  <2> SUFFICES ASSUME target \in Nat
      PROVE /\ Names(stored)' \/ Names(inbound)' \/ Seen' => Settled'
            /\ FromThenOn(stored)' /\ FromThenOn(inbound)'
            /\ Names(stored)' => NoOther(inbound)'
            /\ Seen' => NoOther(stored)' /\ NoOther(inbound)'
    BY <1>1 DEF AnswersOrdered
  <2>1. /\ Names(stored)' <=> Names(stored)
        /\ FromThenOn(stored)' <=> FromThenOn(stored)
        /\ NoOther(stored)' <=> NoOther(stored)
        /\ Seen' <=> Seen
    BY <1>1 DEF Names, FromThenOn, NoOther, Seen
  <2>2. Names(inbound)' => Names(inbound) \/ Value(pins) = target
    BY <1>1, <1>4, <1>5 DEF Names, Echo
  <2>3. NoOther(inbound) /\ Value(pins) = target => NoOther(inbound)'
    BY <1>1, <1>4, <1>5 DEF NoOther
  <2>4. Settled => Value(pins) = target
    BY DEF Settled
  <2>5. FromThenOn(inbound)'
    <3> SUFFICES ASSUME NEW i \in 1..Len(inbound'), NEW j \in 1..Len(inbound'),
                        i < j, inbound'[i] = target
        PROVE inbound'[j] \in {target, Echo}
      BY <1>1 DEF FromThenOn
    <3>1. CASE i \in 1..Len(inbound)
      <4>1. Value(pins) = target
        BY <1>4, <2>4, <3>1 DEF MuxInv, AnswersOrdered, Names
      <4>2. j \in 1..Len(inbound) => inbound'[j] \in {target, Echo}
        BY <1>4, <3>1 DEF MuxInv, AnswersOrdered, FromThenOn
      <4> QED BY <1>5, <4>1, <4>2
    <3>2. CASE i \notin 1..Len(inbound)
      <4>1. inbound'[j] = Value(pins) /\ i = Len(inbound) + 1
        BY <1>4, <3>2
      <4> QED BY <1>4, <4>1 DEF Echo
    <3> QED BY <3>1, <3>2
  <2> QED BY <1>9, <2>1, <2>2, <2>3, <2>4, <2>5 DEF MuxInv, AnswersOrdered
<1> QED BY <1>6, <1>7, <1>8, <1>10 DEF MuxInv

(* The receiver thread stores a line, behind those stored before.          *)
LEMMA ReceiveStep == ASSUME MuxInv, Receive PROVE MuxInv'
<1>1. /\ inbound # <<>> /\ inbound' = Tail(inbound) /\ stored' = Append(stored, Head(inbound))
      /\ UNCHANGED <<wire, pins, bit, channel, pc, target, current, count, first, tries,
                     confirmed, late, calls, lost, missed>>
  BY DEF Receive, fwVars, hostVars
<1>2. inbound \in Seq(Nat \cup {Echo}) /\ stored \in Seq(Nat \cup {Echo})
  BY DEF MuxInv, MuxTypeOK
<1>3. /\ inbound' \in Seq(Nat \cup {Echo})
      /\ Len(inbound) \in Nat /\ Len(inbound) >= 1 /\ Len(inbound') = Len(inbound) - 1
      /\ \A i \in 1..Len(inbound') : inbound'[i] = inbound[i + 1] /\ i + 1 \in 1..Len(inbound)
      /\ Head(inbound) = inbound[1] /\ 1 \in 1..Len(inbound)
  BY <1>1, <1>2, TailOf
<1>4. Head(inbound) \in Nat \cup {Echo}
  BY <1>2, <1>3, ElementOf
<1>5. /\ stored' \in Seq(Nat \cup {Echo})
      /\ Len(stored) \in Nat /\ Len(stored') = Len(stored) + 1
      /\ \A i \in 1..Len(stored) : stored'[i] = stored[i]
      /\ stored'[Len(stored) + 1] = inbound[1]
  BY <1>1, <1>2, <1>3, <1>4, AppendOf
<1>6. \A i \in 1..Len(stored') : i \in 1..Len(stored) \/ i = Len(stored) + 1
  BY <1>5
<1>7. MuxTypeOK' /\ Called' /\ SetsOrdered' /\ (Settled' <=> Settled) /\ (Seen' <=> Seen)
  BY <1>1, <1>3, <1>5 DEF MuxInv, MuxTypeOK, Called, SetsOrdered, Settled, Seen
<1>8. AnswersOrdered'
  <2> SUFFICES ASSUME target \in Nat
      PROVE /\ Names(stored)' \/ Names(inbound)' \/ Seen' => Settled'
            /\ FromThenOn(stored)' /\ FromThenOn(inbound)'
            /\ Names(stored)' => NoOther(inbound)'
            /\ Seen' => NoOther(stored)' /\ NoOther(inbound)'
    BY <1>1 DEF AnswersOrdered
  <2>1. Names(stored)' => Names(stored) \/ inbound[1] = target
    BY <1>1, <1>5, <1>6 DEF Names
  <2>2. inbound[1] = target => Names(inbound)
    BY <1>3 DEF Names
  <2>3. Names(inbound)' => Names(inbound)
    BY <1>1, <1>3 DEF Names
  <2>4. NoOther(inbound) => NoOther(inbound)' /\ inbound[1] \in {target, Echo}
    BY <1>1, <1>3 DEF NoOther
  <2>5. inbound[1] = target => NoOther(inbound)'
    <3> SUFFICES ASSUME inbound[1] = target, NEW i \in 1..Len(inbound')
        PROVE inbound'[i] \in {target, Echo}
      BY <1>1 DEF NoOther
    <3>1. i + 1 \in 1..Len(inbound) /\ 1 < i + 1
      BY <1>3
    <3> QED BY <1>3, <3>1 DEF MuxInv, AnswersOrdered, FromThenOn
  <2>6. NoOther(stored) /\ NoOther(inbound) => NoOther(stored)'
    BY <1>1, <1>5, <1>6, <2>4 DEF NoOther
  <2>7. FromThenOn(stored)'
    <3> SUFFICES ASSUME NEW i \in 1..Len(stored'), NEW j \in 1..Len(stored'),
                        i < j, stored'[i] = target
        PROVE stored'[j] \in {target, Echo}
      BY <1>1 DEF FromThenOn
    <3>1. i \in 1..Len(stored) /\ stored[i] = target
      BY <1>5
    <3>2. CASE j \in 1..Len(stored)
      BY <1>5, <3>1, <3>2 DEF MuxInv, AnswersOrdered, FromThenOn
    <3>3. CASE j = Len(stored) + 1
      <4>1. NoOther(inbound)
        BY <3>1 DEF MuxInv, AnswersOrdered, Names
      <4> QED BY <1>5, <2>4, <3>3, <4>1
    <3> QED BY <1>6, <3>2, <3>3
  <2>8. FromThenOn(inbound)'
    <3> SUFFICES ASSUME NEW i \in 1..Len(inbound'), NEW j \in 1..Len(inbound'),
                        i < j, inbound[i + 1] = target
        PROVE inbound[j + 1] \in {target, Echo}
      BY <1>1, <1>3 DEF FromThenOn
    <3>1. i + 1 \in 1..Len(inbound) /\ j + 1 \in 1..Len(inbound) /\ i + 1 < j + 1
      BY <1>3
    <3> QED BY <3>1 DEF MuxInv, AnswersOrdered, FromThenOn
  <2> QED BY <1>7, <2>1, <2>2, <2>3, <2>4, <2>5, <2>6, <2>7, <2>8 DEF MuxInv, AnswersOrdered
<1> QED BY <1>7, <1>8 DEF MuxInv

(* A command is lost: the others keep their order.                         *)
LEMMA LoseStep == ASSUME MuxInv, Lose PROVE MuxInv'
<1>1. /\ wire # <<>> /\ wire' = Tail(wire) /\ lost' = lost + 1
      /\ missed' = (missed \/ Head(wire).op = "set")
      /\ UNCHANGED <<inbound, stored, pins, bit, channel, pc, target, current, count, first,
                     tries, confirmed, late, calls>>
  BY DEF Lose, fwVars, hostVars
<1>2. /\ wire' \in Seq(Commands)
      /\ \A i \in 1..Len(wire') : wire'[i] = wire[i + 1] /\ i + 1 \in 1..Len(wire)
      /\ Len(wire) \in Nat /\ Len(wire') = Len(wire) - 1
  BY <1>1, WireTail DEF MuxInv
<1>3. MuxTypeOK' /\ Called'
  BY <1>1, <1>2 DEF MuxInv, MuxTypeOK, Called
<1>4. SetsOrdered'
  <2>1. \A i, j \in 1..Len(wire') :
          i < j /\ wire'[i].op = "set" /\ wire'[j].op = "set" /\ wire'[i].ch = target =>
            wire'[j].ch = target
    <3> SUFFICES ASSUME NEW i \in 1..Len(wire'), NEW j \in 1..Len(wire'), i < j,
                        wire[i + 1].op = "set", wire[j + 1].op = "set",
                        wire[i + 1].ch = target
        PROVE wire[j + 1].ch = target
      BY <1>2
    <3>1. i + 1 \in 1..Len(wire) /\ j + 1 \in 1..Len(wire) /\ i + 1 < j + 1
      BY <1>2
    <3> QED BY <3>1 DEF MuxInv, SetsOrdered
  <2> QED BY <1>1, <1>2, <2>1 DEF MuxInv, SetsOrdered, Value
<1>5. AnswersOrdered'
  <2>1. Settled => Settled'
    BY <1>1, <1>2 DEF Settled, Value
  <2> QED BY <1>1, <2>1 DEF MuxInv, AnswersOrdered, Names, NoOther, FromThenOn, Seen
<1> QED BY <1>3, <1>4, <1>5 DEF MuxInv
-------------------------------------------------------------------------------
(* Nothing is under way before the first call.                             *)
LEMMA MuxInitHolds == ASSUME MuxInit PROVE MuxInv
<1>1. Len(wire) = 0 /\ Len(inbound) = 0 /\ Len(stored) = 0
  BY DEF MuxInit
<1>2. MuxTypeOK
  <2>1. wire \in Seq(Commands) /\ inbound \in Seq(Nat \cup {Echo}) /\ stored \in Seq(Nat \cup {Echo})
    BY DEF MuxInit
  <2>2. count \in 0..Period /\ pins \in [Bits -> {0, 1}]
    BY MuxAssumption DEF MuxInit
  <2>3. target = None /\ current = None /\ channel = None /\ bit = Idle /\ pc = "idle"
    BY DEF MuxInit
  <2>4. /\ tries \in Nat /\ lost \in Nat /\ late \in Nat /\ calls \in Nat
        /\ first \in BOOLEAN /\ confirmed \in BOOLEAN /\ missed \in BOOLEAN
    BY DEF MuxInit
  <2> QED BY <2>1, <2>2, <2>3, <2>4 DEF MuxTypeOK
<1>3. Called
  BY DEF MuxInit, Called
<1>4. SetsOrdered
  BY <1>1 DEF MuxInit, SetsOrdered
<1>5. AnswersOrdered
  BY DEF MuxInit, AnswersOrdered, None
<1> QED BY <1>2, <1>3, <1>4, <1>5 DEF MuxInv

(* All actions together.                                                   *)
LEMMA MuxNextKeeps == ASSUME MuxInv, [MuxNext]_muxVars PROVE MuxInv'
<1>1. CASE Host
  BY <1>1, SetStep, GetMuxStep, ReadLinesStep, ReadLineStep, TestStep DEF Host
<1>2. CASE Firmware \/ Receive \/ Lose
  BY <1>2, FwSetStep, SetMuxBitStep, GetMuxChannelStep, ReceiveStep, LoseStep DEF Firmware
<1>3. CASE UNCHANGED muxVars
  <2>1. MuxTypeOK' /\ Called' /\ (Seen' => Seen) /\ stored' = stored
        /\ UNCHANGED <<target, wire, inbound, pins, bit, channel>>
    BY <1>3 DEF MuxInv, MuxTypeOK, Called, Seen, muxVars, hostVars, fwVars
  <2> QED BY <2>1, HostKeeps
<1> QED BY <1>1, <1>2, <1>3 DEF MuxNext

(* Answers come in the order in which set() asked, and never does one name *)
(* the channel of the call before the channel is selected for good.        *)
THEOREM MuxInvariance == MuxSpec => []MuxInv
<1>1. MuxInit => MuxInv
  BY MuxInitHolds
<1>2. MuxInv /\ [MuxNext]_muxVars => MuxInv'
  BY MuxNextKeeps
<1> QED BY <1>1, <1>2, PTL DEF MuxSpec

(* When set() returns, the outputs select its channel and go on doing so   *)
(* until the next call, whatever was lost or late.                         *)
THEOREM MuxIsSet == MuxSpec => []ConfirmedIsSet
<1>1. MuxInv => ConfirmedIsSet
  BY DEF MuxInv, Called, AnswersOrdered, Seen, Settled, ConfirmedIsSet
<1> QED BY <1>1, MuxInvariance, PTL
==============================================================================
