------------------------------- MODULE Records -------------------------------
(***************************************************************************)
(* Several processes that each record one unit in the same file of         *)
(* records/: write_to_csv of test.py, cut where another process may come   *)
(* in between or where the process may be killed (the station's Stop, a    *)
(* closed terminal).  open(..., "w") empties the file, the rows reach it   *)
(* in pieces as the buffer fills, the rest when the file is closed.        *)
(*                                                                         *)
(* Rows count as equally long, so that a writer's position is a number of  *)
(* rows; the header and the Extra columns are left out; reading a file is  *)
(* one step; and a machine that loses power is not modelled.               *)
(***************************************************************************)
EXTENDS Naturals, Sequences, CsvRecords, FiniteSetsExt

CONSTANTS
  Procs,       \* processes, each with one call of write_to_csv
  Text,        \* what a column may hold
  NewRow,      \* the row each of them wants to write
  OldFiles     \* the contents the file may have before

Row == [sn : Text, mac : Text, rev : Text, date : Nat]

ASSUME RecordsAssumption ==
  /\ {NotRead, MissingColumn} \subseteq Text
  /\ NewRow \in [Procs -> Row] /\ OldFiles \subseteq Seq(Row)

VARIABLES
  pc,          \* where each process is in write_to_csv
  rows,        \* per process: the rows it has read
  at,          \* per process: how many of its rows it has written
  file,        \* the rows in the file
  old,         \* history: the file before
  raced,       \* history: a process used the file while another wrote it
  cut          \* history: a process was killed while it wrote

vars == <<pc, rows, at, file, old, raced, cut>>

\* The bytes skipped by a writer whose file another one emptied: they name
\* no unit, and csv raises at them before Python 3.11.
Hole == [sn |-> NotRead, mac |-> NotRead, rev |-> NotRead, date |-> 0]

Init ==
  /\ old \in OldFiles /\ file = old
  /\ pc = [p \in Procs |-> "start"]
  /\ rows = [p \in Procs |-> <<>>] /\ at = [p \in Procs |-> 0]
  /\ raced = FALSE /\ cut = FALSE

Others(p, where) == \E q \in Procs \ {p} : pc[q] \in where

\* The positions of the rows that hold the unit already, and of those the
\* duplicate check raises at.
Hits(p) == {i \in DOMAIN file : AlreadyIn({file[i]}, NewRow[p])}
Faults == {i \in DOMAIN file : Unreadable(file[i])}

\* The duplicate check goes through the rows from the first.
Skips(p) == \E i \in Hits(p) : \A j \in Faults : i < j
Raises(p) == \E j \in Faults : \A i \in Hits(p) : j < i
\* Mutant: rows that cannot be read do not matter.
PassesWithout(p) == Hits(p) = {}

Passes(p) == Hits(p) = {} /\ Faults = {}

\* The file is read and searched for the unit.
Read(p) ==
  /\ pc[p] = "start"
  /\ raced' = (raced \/ Others(p, {"writing"}))
  /\ \/ /\ Skips(p) /\ pc' = [pc EXCEPT ![p] = "skipped"] /\ UNCHANGED rows
     \/ /\ Raises(p) \/ Hole \in RowsOf(file)
        /\ pc' = [pc EXCEPT ![p] = "raised"] /\ UNCHANGED rows
     \/ /\ Passes(p)
        /\ pc' = [pc EXCEPT ![p] = "checked"]
        /\ rows' = [rows EXCEPT ![p] = Append(file, NewRow[p])]
  /\ UNCHANGED <<at, file, old, cut>>

\* The file is opened for writing, which empties it.
Open(p) ==
  /\ pc[p] = "checked"
  /\ pc' = [pc EXCEPT ![p] = "writing"]
  /\ file' = <<>>
  /\ raced' = (raced \/ Others(p, {"checked", "writing"}))
  /\ UNCHANGED <<rows, at, old, cut>>

\* The file with the rows of piece from position from on, whatever other
\* writers have left there.
Overlay(from, piece) ==
  [i \in 1..Max({Len(file), from + Len(piece)}) |->
     IF i \in (from + 1)..(from + Len(piece)) THEN piece[i - from]
     ELSE IF i <= Len(file) THEN file[i] ELSE Hole]

\* The buffer is full: rows up to the n-th reach the file, maybe with a part
\* of the next.
Flush(p, n) ==
  /\ pc[p] = "writing" /\ n \in at[p]..Len(rows[p])
  /\ \E left \in CutAt(rows[p], n) :
       file' = Overlay(at[p], SubSeq(left, at[p] + 1, Len(left)))
  /\ at' = [at EXCEPT ![p] = n]
  /\ UNCHANGED <<pc, rows, old, raced, cut>>

\* Mutant: the last row stays in the buffer.
CloseUnflushed(p) ==
  /\ pc[p] = "writing"
  /\ pc' = [pc EXCEPT ![p] = "done"]
  /\ UNCHANGED <<rows, at, file, old, raced, cut>>

\* The file is closed: the rest reaches it.
Close(p) ==
  /\ pc[p] = "writing"
  /\ file' = Overlay(at[p], SubSeq(rows[p], at[p] + 1, Len(rows[p])))
  /\ at' = [at EXCEPT ![p] = Len(rows[p])]
  /\ pc' = [pc EXCEPT ![p] = "done"]
  /\ UNCHANGED <<rows, old, raced, cut>>

Ended == {"skipped", "raised", "done", "killed"}

\* The process is killed, with what its buffer holds.
Kill(p) ==
  /\ pc[p] \notin Ended
  /\ cut' = (cut \/ pc[p] = "writing")
  /\ pc' = [pc EXCEPT ![p] = "killed"]
  /\ UNCHANGED <<rows, at, file, old, raced>>

AllEnded == (\A p \in Procs : pc[p] \in Ended) /\ UNCHANGED vars

Next == \/ \E p \in Procs :
             \/ Read(p) \/ Open(p) \/ Close(p) \/ Kill(p)
             \/ \E n \in 0..Len(rows[p]) : Flush(p, n)
        \/ AllEnded

Spec == Init /\ [][Next]_vars

-----------------------------------------------------------------------------
(* Properties.                                                             *)

Writing == {p \in Procs : pc[p] = "writing"}

\* As long as no process used the file while another wrote it and none was
\* killed while it wrote, a closed file holds the rows it had, in their
\* order, and behind them the row of every call that got to its end.
HistoryKept ==
  ~raced /\ ~cut /\ Writing = {} =>
    /\ Len(old) <= Len(file) /\ SubSeq(file, 1, Len(old)) = old
    /\ RowsOf(SubSeq(file, Len(old) + 1, Len(file)))
         = {NewRow[p] : p \in {q \in Procs : pc[q] = "done"}}

\* To everyone outside, a file that is being written still holds what its
\* writer read.
StoredRows ==
  IF raced THEN <<>>
  ELSE IF Writing = {} THEN file
  ELSE LET writer == CHOOSE p \in Writing : TRUE
       IN  SubSeq(rows[writer], 1, Len(rows[writer]) - 1)

Store == INSTANCE RecordStore
           WITH rows <- StoredRows, NewRows <- {NewRow[p] : p \in Procs}

\* The calls of write_to_csv act like the atomic operations of RecordStore:
\* a call adds its row or nothing, a killed one leaves the first rows, and
\* both only as long as the calls do not race.
ImplementsStore == Store!Spec
=============================================================================
