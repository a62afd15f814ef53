---------------------------- MODULE RecordsProofs ----------------------------
(***************************************************************************)
(* Theorems about the processes that write a file of records/, for any     *)
(* number of them, any rows and any file before, and their proofs.         *)
(***************************************************************************)
EXTENDS Records, SequenceTheorems, TLAPS

TypeOK ==
  /\ pc \in [Procs -> Ended \cup {"start", "checked", "writing"}]
  /\ rows \in [Procs -> Seq(Row)]
  /\ at \in [Procs -> Nat] /\ \A p \in Procs : at[p] <= Len(rows[p])
  /\ file \in Seq(Row) /\ old \in Seq(Row)
  /\ raced \in BOOLEAN /\ cut \in BOOLEAN

(* Nothing has been written before the file is opened.                     *)
NotYet == \A p \in Procs : pc[p] \in {"start", "checked"} => at[p] = 0

(* A writer is alone: nobody else has read the file and means to write it. *)
Alone ==
  ~raced => \A p, q \in Procs :
              pc[p] = "writing" /\ p # q => pc[q] \notin {"checked", "writing"}

(* The rows a process has read, in front of its own.                       *)
Front(p) == SubSeq(rows[p], 1, Len(rows[p]) - 1)

MayAdd(before, new) ==
  ~AlreadyIn(RowsOf(before), new) /\ ~\E row \in RowsOf(before) : Unreadable(row)

(* Who means to write adds one row to rows without its unit.               *)
WillAdd ==
  \A p \in Procs : pc[p] \in {"checked", "writing"} =>
    /\ Front(p) \in Seq(Row) /\ rows[p] = Append(Front(p), NewRow[p])
    /\ MayAdd(Front(p), NewRow[p])

(* What was read is what the file still holds when it is opened.           *)
ReadIsCurrent == ~raced => \A p \in Procs : pc[p] = "checked" => Front(p) = file

(* The file holds what its writer's flushes have left there.               *)
WrittenSoFar ==
  ~raced => \A p \in Procs : pc[p] = "writing" => file \in CutAt(rows[p], at[p])

(* The file before and the rows of the calls that got to their end.        *)
Extends(rest) ==
  /\ Len(old) <= Len(rest) /\ SubSeq(rest, 1, Len(old)) = old
  /\ RowsOf(SubSeq(rest, Len(old) + 1, Len(rest)))
       = {NewRow[p] : p \in {q \in Procs : pc[q] = "done"}}

Kept == ~raced /\ ~cut => Extends(StoredRows)

IInv ==
  /\ TypeOK /\ NotYet /\ Alone /\ WillAdd /\ ReadIsCurrent /\ WrittenSoFar /\ Kept

-------------------------------------------------------------------------------
(* The greater of two numbers.                                             *)
LEMMA MaxOfTwo ==
  ASSUME NEW a \in Nat, NEW b \in Nat
  PROVE Max({a, b}) = IF a >= b THEN a ELSE b
  BY SMTT(20) DEF Max

(* A row that was cut off is a row.                                        *)
LEMMA CutsAreRows ==
  ASSUME NEW row \in Row
  PROVE Cuts(row) \subseteq Row
<1>1. ShortRow \in Row
  BY RecordsAssumption DEF ShortRow, Row
<1>2. [row EXCEPT !.mac = NotRead] \in Row
  BY RecordsAssumption DEF Row
<1> QED BY <1>1, <1>2 DEF Cuts

(* What a cut leaves: the first n rows as they were, and at most one more. *)
LEMMA CutAtIs ==
  ASSUME NEW r \in Seq(Row), NEW n \in 0..Len(r), NEW f \in CutAt(r, n)
  PROVE /\ f \in Seq(Row)
        /\ n <= Len(f) /\ Len(f) <= n + 1 /\ Len(f) <= Len(r)
        /\ \A i \in 1..n : f[i] = r[i]
<1> DEFINE s == SubSeq(r, 1, n)
<1>1. s \in Seq(Row) /\ Len(s) = n /\ \A i \in 1..n : s[i] = r[i]
  <2>1. \A i \in 1..n : r[i] \in Row
    BY ElementOfSeq
  <2> QED BY <2>1, SubSeqProperties
<1>2. CASE f = s
  BY <1>1, <1>2
<1>3. CASE n < Len(r) /\ \E row \in Cuts(r[n + 1]) : f = Append(s, row)
  <2>1. PICK row \in Cuts(r[n + 1]) : f = Append(s, row)
    BY <1>3
  <2>2. row \in Row
    <3>1. n + 1 \in 1..Len(r)
      BY <1>3
    <3> QED BY <2>1, <3>1, CutsAreRows, ElementOfSeq
  <2> QED BY <1>1, <1>3, <2>1, <2>2, AppendProperties
<1> QED BY <1>2, <1>3 DEF CutAt

(* The rows before the last one.                                           *)
LEMMA FrontOfAppend ==
  ASSUME NEW s \in Seq(Row), NEW e \in Row
  PROVE SubSeq(Append(s, e), 1, Len(Append(s, e)) - 1) = s
<1> DEFINE t == Append(s, e)
<1>1. t \in Seq(Row) /\ Len(t) = Len(s) + 1 /\ \A i \in 1..Len(s) : t[i] = s[i]
  BY AppendProperties
<1>2. \A i \in 1..Len(s) : t[i] \in Row
  BY <1>1, ElementOfSeq
<1> DEFINE u == SubSeq(t, 1, Len(t) - 1)
<1>3. u \in Seq(Row) /\ Len(u) = Len(s) /\ \A i \in 1..Len(s) : u[i] = t[i]
  BY <1>1, <1>2, SubSeqProperties
<1> QED BY <1>1, <1>3, SeqEqual

(* A cut before the first row leaves nothing; all of the file is a cut too.*)
LEMMA NothingLeft ==
  ASSUME NEW r \in Seq(Row)
  PROVE <<>> \in CutAt(r, 0) /\ r \in CutAt(r, Len(r))
  BY SubSeqEmpty, SubSeqFull DEF CutAt

(* A writer whose file holds the first rows, maybe with a part of the next,*)
(* adds the rows up to the n-th: now the file is what that leaves, or keeps*)
(* the part it had.                                                        *)
LEMMA OverlayIs ==
  ASSUME file \in Seq(Row),
         NEW r \in Seq(Row), NEW a \in 0..Len(r), file \in CutAt(r, a),
         NEW n \in a..Len(r), NEW left \in CutAt(r, n)
  PROVE \/ Overlay(a, SubSeq(left, a + 1, Len(left))) = left
        \/ n = a /\ Len(left) < Len(file)
             /\ Overlay(a, SubSeq(left, a + 1, Len(left))) = file
<1>1. /\ a <= Len(file) /\ Len(file) <= a + 1
      /\ \A i \in 1..a : file[i] = r[i]
  BY CutAtIs
<1>2. /\ left \in Seq(Row) /\ n <= Len(left) /\ Len(left) <= n + 1
      /\ \A i \in 1..n : left[i] = r[i]
  BY CutAtIs
<1> DEFINE piece == SubSeq(left, a + 1, Len(left))
           over == Overlay(a, piece)
           size == IF Len(file) >= Len(left) THEN Len(file) ELSE Len(left)
<1>3. Len(piece) = Len(left) - a /\ \A i \in 1..Len(piece) : piece[i] = left[i + a]
  <2>1. \A i \in a + 1..Len(left) : left[i] \in Row
    BY <1>2, ElementOfSeq
  <2> QED BY <1>2, <2>1, SubSeqProperties
<1>4. Max({Len(file), a + Len(piece)}) = size
  <2>1. a + Len(piece) = Len(left) /\ Len(left) \in Nat /\ Len(file) \in Nat
    BY <1>2, <1>3
  <2> HIDE DEF piece
  <2> QED BY <2>1, MaxOfTwo
<1>5. over = [i \in 1..size |-> IF i \in (a + 1)..Len(left) THEN left[i] ELSE file[i]]
  <2>1. \A i \in 1..size :
          (IF i \in (a + 1)..(a + Len(piece)) THEN piece[i - a]
           ELSE IF i <= Len(file) THEN file[i] ELSE Hole)
          = IF i \in (a + 1)..Len(left) THEN left[i] ELSE file[i]
    BY <1>1, <1>2, <1>3
  <2> QED BY <1>4, <2>1, Zenon DEF Overlay
<1>6. CASE Len(left) >= Len(file)
  <2>1. left = [i \in 1..Len(left) |-> left[i]]
    BY <1>2
  <2>2. size = Len(left)
    BY <1>2, <1>6
  <2>3. \A i \in 1..Len(left) :
          (IF i \in (a + 1)..Len(left) THEN left[i] ELSE file[i]) = left[i]
    BY <1>1, <1>2
  <2>4. over = left
    <3> HIDE DEF size, piece, over
    <3> QED BY <1>5, <2>1, <2>2, <2>3, Zenon
  <2> QED BY <2>4
<1>7. CASE Len(left) < Len(file)
  <2>1. n = a /\ Len(left) = a
    BY <1>1, <1>2, <1>7
  <2>2. file = [i \in 1..Len(file) |-> file[i]]
    OBVIOUS
  <2>3. size = Len(file)
    BY <1>2, <1>7
  <2>4. \A i \in 1..Len(file) :
          (IF i \in (a + 1)..Len(left) THEN left[i] ELSE file[i]) = file[i]
    BY <1>2, <2>1
  <2>5. over = file
    <3> HIDE DEF size, piece, over
    <3> QED BY <1>5, <2>2, <2>3, <2>4, Zenon
  <2> QED BY <1>7, <2>1, <2>5
<1>8. Len(file) \in Nat /\ Len(left) \in Nat
  BY <1>2
<1> QED BY <1>6, <1>7, <1>8
-------------------------------------------------------------------------------
(* The overlay of rows is a file of rows.                                  *)
LEMMA OverlayTyped ==
  ASSUME file \in Seq(Row), NEW piece \in Seq(Row), NEW from \in Nat
  PROVE Overlay(from, piece) \in Seq(Row)
<1> DEFINE size == Max({Len(file), from + Len(piece)})
           cell(i) == IF i \in (from + 1)..(from + Len(piece)) THEN piece[i - from]
                      ELSE IF i <= Len(file) THEN file[i] ELSE Hole
<1>1. size \in Nat
  <2>1. Len(file) \in Nat /\ from + Len(piece) \in Nat
    OBVIOUS
  <2> QED BY <2>1, MaxOfTwo
<1>2. Hole \in Row
  BY RecordsAssumption DEF Hole, Row
<1>3. \A i \in 1..size : cell(i) \in Row
  <2> TAKE i \in 1..size
  <2>1. CASE i \in (from + 1)..(from + Len(piece))
    <3>1. i - from \in 1..Len(piece)
      BY <1>1, <2>1
    <3> QED BY <2>1, <3>1, ElementOfSeq
  <2>2. CASE i \notin (from + 1)..(from + Len(piece)) /\ i <= Len(file)
    BY <1>1, <2>2, ElementOfSeq
  <2> QED BY <1>2, <2>1, <2>2
<1>4. Overlay(from, piece) = [i \in 1..size |-> cell(i)]
  BY DEF Overlay
<1> HIDE DEF size, cell
<1>5. [i \in 1..size |-> cell(i)] \in Seq(Row)
  BY <1>1, <1>3
<1> QED BY <1>4, <1>5

(* What a flush hands to the file.                                         *)
LEMMA PieceTyped ==
  ASSUME NEW f \in Seq(Row), NEW a \in Nat
  PROVE SubSeq(f, a + 1, Len(f)) \in Seq(Row)
<1>1. \A i \in a + 1..Len(f) : f[i] \in Row
  BY ElementOfSeq
<1> QED BY <1>1, SubSeqProperties

(* Every step keeps the types, and nothing is written before it is read.   *)
LEMMA TypeStep ==
  ASSUME TypeOK, NotYet, [Next]_vars
  PROVE TypeOK' /\ NotYet'
<1> USE DEF TypeOK, NotYet
<1>1. ASSUME NEW p \in Procs, Read(p)
      PROVE TypeOK' /\ NotYet'
  <2>1. Append(file, NewRow[p]) \in Seq(Row)
    BY RecordsAssumption, AppendProperties
  <2>2. UNCHANGED <<at, file, old, cut>> /\ raced' \in BOOLEAN /\ at[p] = 0
    BY <1>1 DEF Read
  <2>3. pc' \in [Procs -> Ended \cup {"start", "checked", "writing"}]
    BY <1>1 DEF Read, Ended
  <2>4. rows' = rows \/ rows' = [rows EXCEPT ![p] = Append(file, NewRow[p])]
    BY <1>1 DEF Read
  <2>5. rows' \in [Procs -> Seq(Row)] /\ \A q \in Procs : at[q] <= Len(rows'[q])
    <3> DEFINE new == Append(file, NewRow[p])
    <3>1. new \in Seq(Row) /\ 0 <= Len(new)
      BY <2>1
    <3> HIDE DEF new
    <3>2. rows' \in [Procs -> Seq(Row)]
      BY <2>4, <3>1 DEF new
    <3>3. \A q \in Procs : rows'[q] = rows[q] \/ (q = p /\ rows'[q] = new)
      BY <2>4 DEF new
    <3> QED BY <2>2, <3>1, <3>2, <3>3
  <2>6. \A q \in Procs : pc'[q] \in {"start", "checked"} => at[q] = 0
    BY <1>1, <2>2 DEF Read
  <2> QED BY <2>2, <2>3, <2>5, <2>6
<1>2. ASSUME NEW p \in Procs, Open(p)
      PROVE TypeOK' /\ NotYet'
  <2>1. <<>> \in Seq(Row)
    BY EmptySeq
  <2> QED BY <1>2, <2>1 DEF Open, Ended
<1>3. ASSUME NEW p \in Procs, Close(p)
      PROVE TypeOK' /\ NotYet'
  <2>1. rows[p] \in Seq(Row) /\ at[p] \in Nat
    OBVIOUS
  <2>2. file' \in Seq(Row)
    BY <1>3, <2>1, PieceTyped, OverlayTyped DEF Close
  <2>3. /\ UNCHANGED <<rows, old, raced, cut>>
        /\ at' = [at EXCEPT ![p] = Len(rows[p])] /\ pc' = [pc EXCEPT ![p] = "done"]
    BY <1>3 DEF Close
  <2>4. at' \in [Procs -> Nat] /\ \A q \in Procs : at'[q] <= Len(rows[q])
    BY <2>1, <2>3
  <2> QED BY <2>2, <2>3, <2>4 DEF Ended
<1>4. ASSUME NEW p \in Procs, Kill(p)
      PROVE TypeOK' /\ NotYet'
  BY <1>4 DEF Kill, Ended
<1>5. ASSUME NEW p \in Procs, NEW n \in 0..Len(rows[p]), Flush(p, n)
      PROVE TypeOK' /\ NotYet'
  <2>1. rows[p] \in Seq(Row) /\ at[p] \in Nat
    OBVIOUS
  <2>2. PICK left \in CutAt(rows[p], n) :
          file' = Overlay(at[p], SubSeq(left, at[p] + 1, Len(left)))
    BY <1>5 DEF Flush
  <2>3. left \in Seq(Row)
    BY <2>1, CutAtIs
  <2>4. file' \in Seq(Row)
    BY <2>1, <2>2, <2>3, PieceTyped, OverlayTyped
  <2>5. pc[p] = "writing" /\ UNCHANGED <<pc, rows, old, raced, cut>>
        /\ at' = [at EXCEPT ![p] = n]
    BY <1>5 DEF Flush
  <2>6. at' \in [Procs -> Nat] /\ \A q \in Procs : at'[q] <= Len(rows[q])
    BY <2>1, <2>5
  <2> QED BY <2>4, <2>5, <2>6
<1>6. CASE UNCHANGED vars
  BY <1>6 DEF vars
<1> QED BY <1>1, <1>2, <1>3, <1>4, <1>5, <1>6 DEF Next, AllEnded
-------------------------------------------------------------------------------
(* What everyone outside sees: the file, or what its only writer read.     *)
SeenFromOutside ==
  /\ raced => StoredRows = <<>>
  /\ ~raced /\ (\A p \in Procs : pc[p] # "writing") => StoredRows = file
  /\ \A p \in Procs : ~raced /\ pc[p] = "writing" => StoredRows = Front(p)

(* A process that writes alone shows the rows in front of its own.         *)
LEMMA StoredIs == Alone => SeenFromOutside
<1> SUFFICES ASSUME Alone, ~raced, NEW p \in Procs, pc[p] = "writing"
    PROVE StoredRows = Front(p)
  BY DEF StoredRows, SeenFromOutside, Writing
<1>1. Writing = {p}
  BY DEF Writing, Alone
<1>2. (CHOOSE writer \in Writing : TRUE) = p
  BY <1>1
<1> QED BY <1>1, <1>2 DEF StoredRows, Front

(* The same in the next state.                                             *)
LEMMA StoredIsNext == Alone' => SeenFromOutside'
  BY StoredIs, PTL

(* A step that leaves the stored rows as they are and ends no call, or one *)
(* after which they are not promised any more, keeps what was there.       *)
LEMMA KeptStays ==
  ASSUME Kept, UNCHANGED old, raced => raced', cut => cut',
         raced' \/ cut' \/ StoredRows' = StoredRows,
         \A q \in Procs : pc'[q] = "done" <=> pc[q] = "done"
  PROVE Kept'
<1> SUFFICES ASSUME ~raced', ~cut' PROVE Extends(StoredRows)'
  BY DEF Kept
<1>1. Extends(StoredRows) /\ StoredRows' = StoredRows
  BY DEF Kept
<1>2. {NewRow[p] : p \in {q \in Procs : pc'[q] = "done"}}
        = {NewRow[p] : p \in {q \in Procs : pc[q] = "done"}}
  OBVIOUS
<1> QED BY <1>1, <1>2 DEF Extends, RowsOf
-------------------------------------------------------------------------------
(* The duplicate check that lets a call pass.                              *)
LEMMA PassesMeans ==
  ASSUME NEW p \in Procs, Passes(p)
  PROVE MayAdd(file, NewRow[p])
<1>1. \A i \in DOMAIN file : ~AlreadyIn({file[i]}, NewRow[p]) /\ ~Unreadable(file[i])
  BY DEF Passes, Hits, Faults
<1>2. \A i \in DOMAIN file : ~SameSerial(file[i], NewRow[p]) /\ ~SameMac(file[i], NewRow[p])
  BY <1>1 DEF AlreadyIn
<1> QED BY <1>1, <1>2 DEF MayAdd, AlreadyIn, RowsOf

(* The duplicate check, and the rows kept of the file as it is then.       *)
LEMMA ReadStep ==
  ASSUME IInv, TypeOK', NotYet', NEW p \in Procs, Read(p)
  PROVE IInv' /\ (raced' \/ UNCHANGED <<StoredRows, raced>>)
<1>1. /\ pc[p] = "start" /\ pc' = [pc EXCEPT ![p] = pc'[p]]
      /\ pc'[p] \in {"skipped", "raised", "checked"}
      /\ raced' = (raced \/ Others(p, {"writing"}))
      /\ UNCHANGED <<at, file, old, cut>>
  BY DEF Read, IInv, TypeOK
<1>2. \A q \in Procs : q # p => rows'[q] = rows[q] /\ pc'[q] = pc[q]
  BY <1>1 DEF Read, IInv, TypeOK
<1>3. pc'[p] = "checked" =>
        /\ Front(p)' = file /\ rows'[p] = Append(file, NewRow[p])
        /\ MayAdd(file, NewRow[p])
  <2> SUFFICES ASSUME pc'[p] = "checked"
      PROVE /\ Front(p)' = file /\ rows'[p] = Append(file, NewRow[p])
            /\ MayAdd(file, NewRow[p])
    OBVIOUS
  <2>1. Passes(p) /\ rows' = [rows EXCEPT ![p] = Append(file, NewRow[p])]
    BY <1>1 DEF Read, IInv, TypeOK
  <2>2. rows'[p] = Append(file, NewRow[p])
    BY <2>1 DEF IInv, TypeOK
  <2>3. Front(p)' = file
    BY <2>2, FrontOfAppend, RecordsAssumption DEF Front, IInv, TypeOK
  <2> QED BY <2>1, <2>2, <2>3, PassesMeans
<1>4. ~raced' => ~raced /\ \A q \in Procs : pc[q] # "writing" /\ pc'[q] # "writing"
  BY <1>1, <1>2 DEF Others
<1>5. Alone' /\ WrittenSoFar'
  BY <1>4 DEF Alone, WrittenSoFar
<1>6. WillAdd'
  <2> SUFFICES ASSUME NEW q \in Procs, pc'[q] \in {"checked", "writing"}
      PROVE /\ Front(q)' \in Seq(Row) /\ rows'[q] = Append(Front(q)', NewRow[q])
            /\ MayAdd(Front(q)', NewRow[q])
    BY DEF WillAdd, MayAdd
  <2>1. CASE q = p
    BY <1>1, <1>3, <2>1 DEF IInv, TypeOK
  <2>2. CASE q # p
    BY <1>2, <2>2 DEF IInv, WillAdd, Front
  <2> QED BY <2>1, <2>2
<1>7. ReadIsCurrent'
  <2> SUFFICES ASSUME ~raced', NEW q \in Procs, pc'[q] = "checked"
      PROVE Front(q)' = file'
    BY DEF ReadIsCurrent
  <2>1. CASE q = p
    BY <1>1, <1>3, <2>1
  <2>2. CASE q # p
    BY <1>1, <1>2, <1>4, <2>2 DEF IInv, ReadIsCurrent, Front
  <2> QED BY <2>1, <2>2
<1>8. raced' \/ UNCHANGED <<StoredRows, raced>>
  BY <1>1, <1>4, <1>5, StoredIs, StoredIsNext DEF IInv, SeenFromOutside, TypeOK
<1>9. Kept'
  BY <1>1, <1>2, <1>8, KeptStays DEF IInv
<1> QED BY <1>5, <1>6, <1>7, <1>8, <1>9 DEF IInv

(* Opened for writing, the file is empty.                                  *)
LEMMA OpenStep ==
  ASSUME IInv, TypeOK', NotYet', NEW p \in Procs, Open(p)
  PROVE IInv' /\ (raced' \/ UNCHANGED <<StoredRows, raced>>)
<1>1. /\ pc[p] = "checked" /\ pc'[p] = "writing" /\ file' = <<>>
      /\ raced' = (raced \/ Others(p, {"checked", "writing"}))
      /\ UNCHANGED <<rows, at, old, cut>>
      /\ \A q \in Procs : q # p => pc'[q] = pc[q]
  BY DEF Open, IInv, TypeOK
<1>2. ~raced' => ~raced /\ \A q \in Procs : q # p => pc[q] \notin {"checked", "writing"}
  BY <1>1 DEF Others
<1>3. Alone'
  BY <1>1, <1>2 DEF Alone
<1>4. WillAdd'
  BY <1>1 DEF IInv, WillAdd, Front, MayAdd
<1>5. ReadIsCurrent'
  BY <1>1, <1>2 DEF ReadIsCurrent
<1>6. WrittenSoFar'
  <2>1. at[p] = 0 /\ rows[p] \in Seq(Row)
    BY <1>1 DEF IInv, TypeOK, NotYet
  <2>2. file' \in CutAt(rows[p], at[p])
    BY <1>1, <2>1, NothingLeft
  <2> QED BY <1>1, <1>2, <2>2 DEF WrittenSoFar
<1>7. raced' \/ UNCHANGED <<StoredRows, raced>>
  <2> SUFFICES ASSUME ~raced' PROVE UNCHANGED <<StoredRows, raced>>
    OBVIOUS
  <2>1. StoredRows = file /\ file = Front(p)
    BY <1>1, <1>2, StoredIs DEF IInv, SeenFromOutside, ReadIsCurrent
  <2>2. StoredRows' = Front(p)
    BY <1>1, <1>3, StoredIsNext DEF SeenFromOutside, Front
  <2> QED BY <1>1, <1>2, <2>1, <2>2 DEF IInv, TypeOK
<1>8. Kept'
  BY <1>1, <1>7, KeptStays DEF IInv
<1> QED BY <1>3, <1>4, <1>5, <1>6, <1>7, <1>8 DEF IInv

(* The buffer is written in pieces: outside, nothing has changed yet.      *)
LEMMA FlushStep ==
  ASSUME IInv, TypeOK', NotYet', NEW p \in Procs, NEW n \in 0..Len(rows[p]), Flush(p, n)
  PROVE IInv' /\ (raced' \/ UNCHANGED <<StoredRows, raced>>)
<1>1. /\ pc[p] = "writing" /\ n \in at[p]..Len(rows[p])
      /\ at' = [at EXCEPT ![p] = n] /\ UNCHANGED <<pc, rows, old, raced, cut>>
  BY DEF Flush
<1>2. PICK left \in CutAt(rows[p], n) :
        file' = Overlay(at[p], SubSeq(left, at[p] + 1, Len(left)))
  BY DEF Flush
<1>3. ~raced => \A q \in Procs : q # p => pc[q] \notin {"checked", "writing"}
  BY <1>1 DEF IInv, Alone
<1>4. Alone' /\ WillAdd'
  BY <1>1 DEF IInv, Alone, WillAdd, Front, MayAdd
<1>5. ReadIsCurrent'
  BY <1>1, <1>3 DEF ReadIsCurrent
<1>6. WrittenSoFar'
  <2> SUFFICES ASSUME ~raced PROVE file' \in CutAt(rows[p], n)
    BY <1>1, <1>3 DEF WrittenSoFar, IInv, TypeOK
  <2>1. /\ rows[p] \in Seq(Row) /\ at[p] \in 0..Len(rows[p]) /\ file \in Seq(Row)
        /\ file \in CutAt(rows[p], at[p])
    BY <1>1 DEF IInv, TypeOK, WrittenSoFar
  <2> QED BY <1>1, <1>2, <2>1, OverlayIs
<1>7. raced' \/ UNCHANGED <<StoredRows, raced>>
  BY <1>1, <1>4, StoredIs, StoredIsNext DEF IInv, SeenFromOutside, Front
<1>8. Kept'
  BY <1>1, <1>7, KeptStays DEF IInv
<1> QED BY <1>4, <1>5, <1>6, <1>7, <1>8 DEF IInv

(* One more row behind what is stored.                                     *)
LEMMA ExtendsAppend ==
  ASSUME old \in Seq(Row), NEW f \in Seq(Row), NEW e \in Row,
         Len(old) <= Len(f), SubSeq(f, 1, Len(old)) = old
  PROVE LET g == Append(f, e)
        IN  /\ Len(old) <= Len(g) /\ SubSeq(g, 1, Len(old)) = old
            /\ RowsOf(SubSeq(g, Len(old) + 1, Len(g)))
                 = RowsOf(SubSeq(f, Len(old) + 1, Len(f))) \cup {e}
<1> DEFINE g == Append(f, e)
           k == Len(old)
           newG == SubSeq(g, k + 1, Len(g))
           newF == SubSeq(f, k + 1, Len(f))
<1>1. /\ g \in Seq(Row) /\ Len(g) = Len(f) + 1 /\ k \in 0..Len(f)
      /\ \A i \in 1..Len(f) : g[i] = f[i]
      /\ g[Len(f) + 1] = e
  BY AppendProperties
<1>2. \A i \in 1..Len(g) : g[i] \in Row
  BY <1>1, ElementOfSeq
<1>3. \A i \in 1..Len(f) : f[i] \in Row
  BY ElementOfSeq
<1> HIDE DEF g
<1>4. SubSeq(g, 1, k) = old
  <2>1. /\ SubSeq(g, 1, k) \in Seq(Row) /\ Len(SubSeq(g, 1, k)) = k
        /\ \A i \in 1..k : SubSeq(g, 1, k)[i] = g[i]
    BY <1>1, <1>2, SubSeqProperties
  <2>2. \A i \in 1..k : old[i] = f[i]
    BY <1>1, <1>3, SubSeqProperties
  <2> QED BY <1>1, <2>1, <2>2, SeqEqual
<1>5. /\ newG \in Seq(Row) /\ Len(newG) = Len(f) + 1 - k
      /\ \A i \in 1..(Len(f) + 1 - k) : newG[i] = g[k + i]
  BY <1>1, <1>2, SubSeqProperties
<1>6. /\ newF \in Seq(Row) /\ Len(newF) = Len(f) - k
      /\ \A i \in 1..(Len(f) - k) : newF[i] = f[k + i]
  BY <1>1, <1>3, SubSeqProperties
<1> HIDE DEF newG, newF
<1>7. newG[Len(f) + 1 - k] = e /\ \A i \in 1..Len(newF) : newG[i] = newF[i]
  <2>1. Len(f) + 1 - k \in 1..(Len(f) + 1 - k) /\ k + (Len(f) + 1 - k) = Len(f) + 1
    BY <1>1
  <2>2. newG[Len(f) + 1 - k] = g[k + (Len(f) + 1 - k)]
    BY <1>5, <2>1
  <2>3. newG[Len(f) + 1 - k] = e
    BY <1>1, <2>1, <2>2
  <2>4. ASSUME NEW i \in 1..Len(newF)
        PROVE newG[i] = newF[i]
    <3>1. i \in 1..(Len(f) + 1 - k) /\ i \in 1..(Len(f) - k) /\ k + i \in 1..Len(f)
      BY <1>1, <1>6, <2>4
    <3> QED BY <1>1, <1>5, <1>6, <3>1
  <2> QED BY <2>3, <2>4
<1>8. {newG[i] : i \in 1..Len(newG)} = {newF[i] : i \in 1..Len(newF)} \cup {e}
  <2>1. 1..Len(newG) = (1..Len(newF)) \cup {Len(newF) + 1} /\ newG[Len(newF) + 1] = e
    BY <1>1, <1>5, <1>6, <1>7
  <2> QED BY <1>7, <2>1, Zenon
<1>9. RowsOf(newG) = RowsOf(newF) \cup {e}
  <2>1. DOMAIN newG = 1..Len(newG) /\ DOMAIN newF = 1..Len(newF)
    BY <1>5, <1>6
  <2> QED BY <1>8, <2>1, Zenon DEF RowsOf
<1> QED BY <1>1, <1>4, <1>9 DEF newG, newF, g
(* A writer nobody has met leaves all its rows in the file: the call has   *)
(* recorded its unit.                                                      *)
LEMMA CloseStep ==
  ASSUME IInv, TypeOK', NotYet', NEW p \in Procs, Close(p)
  PROVE IInv' /\ (raced' \/ Store!Record(NewRow[p]))
<1>1. /\ pc[p] = "writing" /\ pc'[p] = "done"
      /\ file' = Overlay(at[p], SubSeq(rows[p], at[p] + 1, Len(rows[p])))
      /\ UNCHANGED <<rows, old, raced, cut>>
      /\ \A q \in Procs : q # p => pc'[q] = pc[q]
  BY DEF Close, IInv, TypeOK
<1>2. ~raced => \A q \in Procs : pc'[q] \notin {"checked", "writing"}
  BY <1>1 DEF IInv, Alone
<1>3. Alone' /\ ReadIsCurrent' /\ WrittenSoFar'
  BY <1>1, <1>2 DEF Alone, ReadIsCurrent, WrittenSoFar
<1>4. WillAdd'
  BY <1>1 DEF IInv, WillAdd, Front, MayAdd
<1>5. /\ Front(p) \in Seq(Row) /\ rows[p] = Append(Front(p), NewRow[p])
      /\ MayAdd(Front(p), NewRow[p]) /\ NewRow[p] \in Row
  BY <1>1, RecordsAssumption DEF IInv, WillAdd
<1>6. ~raced => file' = rows[p]
  <2> SUFFICES ASSUME ~raced PROVE file' = rows[p]
    OBVIOUS
  <2>1. /\ rows[p] \in Seq(Row) /\ at[p] \in 0..Len(rows[p]) /\ file \in Seq(Row)
        /\ file \in CutAt(rows[p], at[p]) /\ Len(rows[p]) \in at[p]..Len(rows[p])
    BY <1>1 DEF IInv, TypeOK, WrittenSoFar
  <2>2. rows[p] \in CutAt(rows[p], Len(rows[p]))
    BY <2>1, NothingLeft
  <2>3. ~(Len(rows[p]) < Len(file))
    BY <2>1, CutAtIs
  <2> QED BY <1>1, <2>1, <2>2, <2>3, OverlayIs
<1>7. ~raced => StoredRows = Front(p) /\ StoredRows' = Append(Front(p), NewRow[p])
  BY <1>1, <1>2, <1>3, <1>5, <1>6, StoredIs, StoredIsNext DEF IInv, SeenFromOutside
<1>8. raced' \/ Store!Record(NewRow[p])
  <2> SUFFICES ASSUME ~raced PROVE Store!Record(NewRow[p])
    BY <1>1
  <2>1. ~AlreadyIn(RowsOf(StoredRows), NewRow[p])
        /\ ~\E row \in RowsOf(StoredRows) : Unreadable(row)
    BY <1>5, <1>7 DEF MayAdd
  <2>2. StoredRows' = Append(StoredRows, NewRow[p]) /\ UNCHANGED raced
    BY <1>1, <1>7
  <2> QED BY <2>1, <2>2
      DEF Store!Record, Store!AlreadyIn, Store!SameSerial, Store!SameMac, Store!RowsOf,
          Store!Unreadable, Store!NotRead, Store!NotApplicable, Store!MissingColumn,
          AlreadyIn, SameSerial, SameMac, RowsOf, Unreadable, NotRead, NotApplicable,
          MissingColumn
<1>9. Kept'
  <2> SUFFICES ASSUME ~raced, ~cut PROVE Extends(StoredRows)'
    BY <1>1 DEF Kept
  <2>1. Extends(Front(p)) /\ old \in Seq(Row)
    BY <1>7 DEF IInv, Kept, TypeOK
  <2>2. {q \in Procs : pc'[q] = "done"} = {q \in Procs : pc[q] = "done"} \cup {p}
    BY <1>1
  <2>3. {NewRow[q] : q \in {q \in Procs : pc'[q] = "done"}}
          = {NewRow[q] : q \in {q \in Procs : pc[q] = "done"}} \cup {NewRow[p]}
    BY <2>2, Zenon
  <2> DEFINE g == Append(Front(p), NewRow[p])
  <2>4. /\ Len(old) <= Len(g) /\ SubSeq(g, 1, Len(old)) = old
        /\ RowsOf(SubSeq(g, Len(old) + 1, Len(g)))
             = RowsOf(SubSeq(Front(p), Len(old) + 1, Len(Front(p)))) \cup {NewRow[p]}
    BY <1>5, <2>1, ExtendsAppend DEF Extends
  <2>5. StoredRows' = g /\ old' = old
    BY <1>1, <1>7
  <2> HIDE DEF g
  <2> DEFINE new == SubSeq(g, Len(old) + 1, Len(g))
  <2>6. RowsOf(new) = {NewRow[q] : q \in {q \in Procs : pc'[q] = "done"}}
    BY <2>1, <2>3, <2>4 DEF Extends
  <2>7. {new[i] : i \in DOMAIN new} = {NewRow[q] : q \in {q \in Procs : pc'[q] = "done"}}
    BY <2>6, Zenon DEF RowsOf
  <2>8. /\ Len(old') <= Len(StoredRows') /\ SubSeq(StoredRows', 1, Len(old')) = old'
        /\ new = SubSeq(StoredRows', Len(old') + 1, Len(StoredRows'))
    BY <2>4, <2>5
  <2> HIDE DEF new
  <2> QED BY <2>7, <2>8, Zenon DEF Extends, RowsOf
<1> QED BY <1>3, <1>4, <1>8, <1>9 DEF IInv

(* A writer that is killed leaves a cut of its rows; anyone else, nothing. *)
LEMMA KillStep ==
  ASSUME IInv, TypeOK', NotYet', NEW p \in Procs, Kill(p)
  PROVE IInv' /\ \/ raced' \/ UNCHANGED <<StoredRows, raced>>
                 \/ Store!CutOff(NewRow[p])
<1>1. /\ cut' = (cut \/ pc[p] = "writing") /\ pc'[p] = "killed" /\ pc[p] # "done"
      /\ UNCHANGED <<rows, at, file, old, raced>>
      /\ \A q \in Procs : q # p => pc'[q] = pc[q]
  BY DEF Kill, IInv, TypeOK, Ended
<1>2. \A q \in Procs : pc'[q] \in {"checked", "writing"} => pc'[q] = pc[q] /\ q # p
  BY <1>1
<1>3. Alone' /\ ReadIsCurrent' /\ WrittenSoFar' /\ WillAdd'
  <2>1. Alone' /\ WillAdd'
    BY <1>1, <1>2 DEF IInv, Alone, WillAdd, Front, MayAdd
  <2>2. ReadIsCurrent' /\ WrittenSoFar'
    BY <1>1, <1>2 DEF IInv, ReadIsCurrent, WrittenSoFar, Front
  <2> QED BY <2>1, <2>2
<1>4. ASSUME ~raced, pc[p] = "writing"
      PROVE Store!CutOff(NewRow[p])
  <2>1. StoredRows = Front(p) /\ StoredRows' = file
    <3>1. \A q \in Procs : pc'[q] # "writing"
      BY <1>1, <1>4 DEF IInv, Alone
    <3> QED BY <1>1, <1>3, <1>4, <3>1, StoredIs, StoredIsNext DEF IInv, SeenFromOutside
  <2>2. rows[p] = Append(StoredRows, NewRow[p]) /\ MayAdd(StoredRows, NewRow[p])
    BY <1>4, <2>1 DEF IInv, WillAdd
  <2>3. file \in CutAt(rows[p], at[p]) /\ at[p] \in 0..Len(rows[p])
    BY <1>4 DEF IInv, TypeOK, WrittenSoFar
  <2>4. file \in Remains(rows[p])
    BY <2>3 DEF Remains
  <2>5. Store!Remains(rows[p]) = Remains(rows[p])
    BY DEF Store!Remains, Store!CutAt, Store!Cuts, Store!ShortRow, Store!NotRead,
           Store!MissingColumn, Remains, CutAt, Cuts, ShortRow, NotRead, MissingColumn
  <2>6. ~\E row \in Store!RowsOf(StoredRows) : Store!Unreadable(row)
    BY <2>2 DEF MayAdd, RowsOf, Unreadable, MissingColumn, Store!RowsOf, Store!Unreadable,
                Store!MissingColumn
  <2> QED BY <1>1, <1>4, <2>1, <2>2, <2>4, <2>5, <2>6 DEF Store!CutOff
<1>5. ASSUME ~raced, pc[p] # "writing"
      PROVE UNCHANGED <<StoredRows, raced>>
  <2>1. \A q \in Procs : pc'[q] = "writing" <=> pc[q] = "writing"
    BY <1>1, <1>5
  <2> QED BY <1>1, <1>3, <1>5, <2>1, StoredIs, StoredIsNext
      DEF IInv, SeenFromOutside, Front
<1>6. Kept'
  <2>1. raced' \/ cut' \/ StoredRows' = StoredRows
    BY <1>1, <1>5
  <2> QED BY <1>1, <2>1, KeptStays DEF IInv
<1> QED BY <1>1, <1>3, <1>4, <1>5, <1>6 DEF IInv
-------------------------------------------------------------------------------
(* One step keeps the invariant, and is a step of the store or none.       *)
LEMMA StepOf ==
  ASSUME IInv, [Next]_vars
  PROVE IInv' /\ [Store!Next]_<<StoredRows, raced>>
<1>1. TypeOK' /\ NotYet'
  BY TypeStep DEF IInv
<1>2. raced' => Store!Next \/ UNCHANGED <<StoredRows, raced>> \/ ~Alone'
  <2> SUFFICES ASSUME raced', Alone' PROVE Store!Next
    OBVIOUS
  <2>1. StoredRows' = <<>>
    BY StoredIsNext DEF SeenFromOutside
  <2> QED BY <2>1 DEF Store!Next, Store!Race
<1>3. ASSUME NEW p \in Procs,
             Read(p) \/ Open(p) \/ Close(p) \/ Kill(p) \/ \E n \in 0..Len(rows[p]) : Flush(p, n)
      PROVE IInv' /\ [Store!Next]_<<StoredRows, raced>>
  <2>1. IInv' /\ \/ raced' \/ UNCHANGED <<StoredRows, raced>>
                 \/ Store!Record(NewRow[p]) \/ Store!CutOff(NewRow[p])
    BY <1>1, <1>3, ReadStep, OpenStep, FlushStep, CloseStep, KillStep
  <2>2. NewRow[p] \in {NewRow[q] : q \in Procs}
    OBVIOUS
  <2> QED BY <1>2, <2>1, <2>2 DEF IInv, Store!Next
<1>4. CASE UNCHANGED vars
  <2>1. Alone' /\ WillAdd' /\ ReadIsCurrent' /\ WrittenSoFar'
    BY <1>4 DEF IInv, vars, Alone, WillAdd, ReadIsCurrent, WrittenSoFar, Front, MayAdd
  <2>2. UNCHANGED <<StoredRows, raced>>
    BY <1>4 DEF vars, StoredRows, Writing
  <2>3. Kept'
    BY <1>4, <2>2, KeptStays DEF IInv, vars
  <2> QED BY <1>1, <2>1, <2>2, <2>3 DEF IInv
<1> QED BY <1>3, <1>4 DEF Next, AllEnded

(* No process has started, and the file is the old one.                    *)
LEMMA InitHolds == Init => IInv
<1> SUFFICES ASSUME Init PROVE IInv
  OBVIOUS
<1>1. /\ pc = [p \in Procs |-> "start"] /\ rows = [p \in Procs |-> <<>>]
      /\ at = [p \in Procs |-> 0] /\ file = old /\ raced = FALSE /\ cut = FALSE
      /\ old \in Seq(Row)
  BY RecordsAssumption DEF Init
<1>2. TypeOK /\ NotYet
  <2>1. <<>> \in Seq(Row) /\ Len(<<>>) = 0
    OBVIOUS
  <2>2. rows \in [Procs -> Seq(Row)] /\ \A p \in Procs : rows[p] = <<>>
    BY <1>1, <2>1
  <2>3. at \in [Procs -> Nat] /\ \A p \in Procs : at[p] = 0
    BY <1>1
  <2>4. pc \in [Procs -> Ended \cup {"start", "checked", "writing"}]
    BY <1>1
  <2>5. \A p \in Procs : at[p] <= Len(rows[p])
    BY <2>1, <2>2, <2>3
  <2>6. file \in Seq(Row) /\ old \in Seq(Row) /\ raced \in BOOLEAN /\ cut \in BOOLEAN
    BY <1>1
  <2> QED BY <2>2, <2>3, <2>4, <2>5, <2>6 DEF TypeOK, NotYet
<1>3. Alone /\ WillAdd /\ ReadIsCurrent /\ WrittenSoFar
  BY <1>1 DEF Alone, WillAdd, ReadIsCurrent, WrittenSoFar
<1>4. Kept
  <2>1. StoredRows = old
    BY <1>1, <1>3, StoredIs DEF SeenFromOutside
  <2>2. SubSeq(old, 1, Len(old)) = old /\ SubSeq(old, Len(old) + 1, Len(old)) = <<>>
    BY <1>1, SubSeqFull, SubSeqEmpty
  <2>3. RowsOf(<<>>) = {}
    BY DEF RowsOf
  <2>4. {NewRow[p] : p \in {q \in Procs : pc[q] = "done"}} = {}
    BY <1>1
  <2>5. Len(old) <= Len(old)
    BY <1>1
  <2> QED BY <2>1, <2>2, <2>3, <2>4, <2>5, Zenon DEF Kept, Extends
<1> QED BY <1>2, <1>3, <1>4 DEF IInv

(* Every process, between its steps, is where IInv says.                   *)
THEOREM Invariance == Spec => []IInv
<1>1. IInv /\ [Next]_vars => IInv'
  BY StepOf
<1> QED BY InitHolds, <1>1, PTL DEF Spec

(* Every variable has its type, and no process has written more rows than  *)
(* it has (write_to_csv of test.py).                                       *)
THEOREM TypeCorrect == Spec => []TypeOK
<1>1. IInv => TypeOK
  BY DEF IInv
<1> QED BY <1>1, Invariance, PTL

(* As long as the calls do not race and none is killed while it writes, a  *)
(* closed file holds the rows it had and those of all finished calls.      *)
THEOREM HistoryIsKept == Spec => []HistoryKept
<1>1. IInv => HistoryKept
  <2> SUFFICES ASSUME IInv, ~raced, ~cut, Writing = {}
      PROVE Extends(file)
    BY DEF HistoryKept, Extends
  <2>1. StoredRows = file
    BY DEF StoredRows
  <2> QED BY <2>1 DEF IInv, Kept
<1> QED BY <1>1, Invariance, PTL

(* The calls of write_to_csv, cut into reading, emptying, flushing and     *)
(* closing, implement the atomic store: every step records one row, cuts   *)
(* the file off, is a race, or is not seen from outside.                   *)
THEOREM Refinement == Spec => ImplementsStore
<1>1. Init => Store!Init
  BY DEF Init, Store!Init
<1>2. IInv /\ [Next]_vars => [Store!Next]_<<StoredRows, raced>>
  BY StepOf
<1> QED BY <1>1, <1>2, Invariance, PTL DEF Spec, ImplementsStore, Store!Spec
=============================================================================
