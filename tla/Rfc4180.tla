------------------------------ MODULE Rfc4180 ------------------------------
(***************************************************************************)
(* How a table is written as CSV (RFC 4180, which RCSV section 2 adopts): *)
(* cells separated by the delimiter, records ended by a line break, a     *)
(* cell that holds a quote, the delimiter or a line break enclosed in      *)
(* double quotes with each quote inside doubled.  This is the reference   *)
(* the CSV parser is compared with; nothing here models parser code.       *)
(*                                                                         *)
(* A text is a sequence of one-character strings.                         *)
(***************************************************************************)
EXTENDS Naturals, Sequences, SequencesExt, Texts

DQ == "\""

\* A cell as written: quoted when it must be, with quotes doubled.
EncodeCell(cell, delimiter) ==
  IF \E n \in DOMAIN cell : cell[n] \in {DQ, delimiter, "\n", "\r"}
  THEN <<DQ>> \o SeqFold(LAMBDA acc, c : acc \o (IF c = DQ THEN <<DQ, DQ>> ELSE <<c>>),
                          <<>>, cell)
              \o <<DQ>>
  ELSE cell

\* The cells of a record joined by the delimiter.
EncodeRecord(record, delimiter) ==
  SeqFoldDomain(LAMBDA acc, n :
                   acc \o (IF n = 1 THEN <<>> ELSE <<delimiter>>)
                       \o EncodeCell(record[n], delimiter),
                 <<>>, record)

\* The records, each ended by "\n"; the line break after the last record
\* is optional (RFC 4180 2.2).
EncodeTable(records, delimiter, final_break) ==
  LET text == SeqFoldDomain(LAMBDA acc, n :
                               acc \o (IF n = 1 THEN <<>> ELSE <<"\n">>)
                                   \o EncodeRecord(records[n], delimiter),
                             <<>>, records)
  IN IF final_break /\ records # <<>> THEN Append(text, "\n") ELSE text

=============================================================================
