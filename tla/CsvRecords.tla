----------------------------- MODULE CsvRecords -----------------------------
(***************************************************************************)
(* What one call of write_to_csv (test.py) does to the rows of one file of *)
(* records/.  A file is the set of its rows; the Date column, here the     *)
(* number of the run that wrote the row, keeps two otherwise equal rows    *)
(* apart.  Header handling and the Extra columns are layout and left out.  *)
(***************************************************************************)

EXTENDS Naturals, Sequences

NotRead == ""             \* what coap_client.getValue returns when it failed
NotApplicable == "N/A"    \* mac_address of a battery backup

\* The row carries the serial number and the revision of the new row.
SameSerial(row, new) ==
  /\ new.sn # NotRead
  /\ row.sn = new.sn
  /\ row.rev = new.rev

\* The row carries the MAC address and the revision of the new row.
SameMac(row, new) ==
  /\ new.mac \notin {NotRead, NotApplicable}
  /\ row.mac = new.mac
  /\ row.rev = new.rev

\* Mutant: only the serial number is compared.
AlreadyInBySerial(rows, new) == \E row \in rows : SameSerial(row, new)

AlreadyIn(rows, new) == \E row \in rows : SameSerial(row, new) \/ SameMac(row, new)

\* A unit that is already in the file is not recorded again; any other row
\* is added behind the ones read, and the whole file is rewritten.
WriteToCsv(rows, new) == IF AlreadyIn(rows, new) THEN rows ELSE rows \cup {new}

-----------------------------------------------------------------------------
(* The file while it is written: a sequence of rows, of which a write that *)
(* was cut off leaves the first ones and maybe a part of the next.  The    *)
(* columns are Device, Rev, Serial Number, MAC Address, Status, Date: what *)
(* is cut behind the MAC address still names its unit.                     *)

RowsOf(file) == {file[i] : i \in DOMAIN file}

MissingColumn == "None"   \* what csv.DictReader fills a short row with

\* A row that ends before its MAC address: .lower() of the missing column
\* raises.
ShortRow == [sn |-> NotRead, mac |-> MissingColumn, rev |-> NotRead, date |-> 0]
Unreadable(row) == row.mac = MissingColumn

\* What is left of a row that was cut off, if anything is.
Cuts(row) == {ShortRow, [row EXCEPT !.mac = NotRead]}

\* The first n rows, maybe followed by a part of the next.
CutAt(file, n) ==
  {SubSeq(file, 1, n)} \cup
    (IF n < Len(file)
     THEN {Append(SubSeq(file, 1, n), row) : row \in Cuts(file[n + 1])}
     ELSE {})

\* Everything that may be left of a file.
Remains(file) == UNION {CutAt(file, n) : n \in 0..Len(file)}

=============================================================================
