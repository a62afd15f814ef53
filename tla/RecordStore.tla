----------------------------- MODULE RecordStore -----------------------------
(***************************************************************************)
(* What a file of records/ promises as long as no two processes write it   *)
(* at the same time: rows are only ever added at the end, no unit twice,   *)
(* and a process that is killed leaves the file cut off somewhere, which   *)
(* costs the last rows and nothing else.  A file whose last row is cut     *)
(* short takes no further row.  Nothing is promised once writers raced.    *)
(***************************************************************************)
EXTENDS Naturals, Sequences, CsvRecords

CONSTANT NewRows      \* the rows that may be written

VARIABLES
  rows,    \* the rows of the file
  raced    \* two processes wrote the file at the same time

Init == ~raced

\* write_to_csv as its callers understand it.
Record(new) ==
  /\ ~raced
  /\ ~AlreadyIn(RowsOf(rows), new)
  /\ ~\E row \in RowsOf(rows) : Unreadable(row)
  /\ rows' = Append(rows, new)
  /\ UNCHANGED raced

\* A process is killed while it writes the rows back.
CutOff(new) ==
  /\ ~raced
  /\ ~\E row \in RowsOf(rows) : Unreadable(row)
  /\ rows' \in Remains(Append(rows, new))
  /\ UNCHANGED raced

Race == raced' /\ rows' = <<>>

Next == \/ \E new \in NewRows : Record(new) \/ CutOff(new)
        \/ Race

Spec == Init /\ [][Next]_<<rows, raced>>
=============================================================================
