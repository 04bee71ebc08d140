---------------------------- MODULE MCCsvParser ----------------------------
(***************************************************************************)
(* CsvParser run on files written according to RFC 4180.  The auxiliary  *)
(* variable doc is the table a file was written from: a header of         *)
(* standard column names (in the spellings the converter documents), the *)
(* data records, the delimiter, and whether the last record ends with a    *)
(* line break.                                                             *)
(***************************************************************************)
EXTENDS CsvParser, Rfc4180

VARIABLE doc

\* Header cells: the text written and the column it names.
HeaderCell(text, column) == [text |-> text, column |-> column]
ExactHeader  == <<HeaderCell("reg_name", "reg_name"),
                  HeaderCell("description", "description")>>
\* Case-insensitive match and the "desc" abbreviation (RCSV "Header Matching").
CasedHeader  == <<HeaderCell("Reg_Name", "reg_name"),
                  HeaderCell("desc", "description")>>
\* A typo within edit distance 3.
TypoHeader   == <<HeaderCell("field_nam", "field_name"),
                  HeaderCell("Description", "description")>>

EncodeDoc(d) ==
  EncodeTable(<<[n \in DOMAIN d.header |-> Chars(d.header[n].text)]>> \o d.records,
              d.delimiter, d.final_break)

\* Texts of at most MaxCellLen characters from an alphabet.
MaxCellLen == 2
CellsOver(alphabet) == BoundedSeq(alphabet, MaxCellLen)

MaxRecords == 2
\* Tables whose names are empty or "a" and whose descriptions may hold a
\* quote, a line break, a space and the delimiter.
DocsFor(headers, delimiter, desc_chars) ==
  {[header |-> h, records |-> rs, delimiter |-> delimiter, final_break |-> fb] :
     h \in headers,
     rs \in BoundedSeq({<<name, desc>> : name \in {<<>>, <<"a">>},
                                         desc \in CellsOver(desc_chars)},
                       MaxRecords),
     fb \in BOOLEAN}

\* Descriptions without the other delimiter.
PlainDocuments ==
  DocsFor({ExactHeader, CasedHeader, TypoHeader}, ",", {"a", Q, NL, ","})
    \cup DocsFor({ExactHeader}, ";", {"a", Q, NL, ";", " "})
\* Descriptions that may hold the other delimiter.
MixedDocuments ==
  DocsFor({ExactHeader}, ",", {"a", ";"}) \cup DocsFor({ExactHeader}, ";", {"a", ","})

CONSTANT Documents

DocFiles == {EncodeDoc(d) : d \in Documents}

MCInit == doc \in Documents /\ file = EncodeDoc(doc) /\ Start
\* Next, each action leaving doc alone.
MCNext ==
  \/ ReadContent /\ UNCHANGED doc
  \/ ParseHeader /\ UNCHANGED doc
  \/ ParseDataRow /\ UNCHANGED doc
  \/ ReturnRows /\ UNCHANGED doc
MCSpec == MCInit /\ [][MCNext]_<<vars, doc>>

\* The CSVRow the n-th record describes: each cell under the column its
\* header names, cleaned as the converter documents ("String Processing").
Expected(n) ==
  [c \in DOMAIN EmptyRow |->
     IF \E h \in DOMAIN doc.header : doc.header[h].column = c
     THEN LET h == CHOOSE h \in DOMAIN doc.header : doc.header[h].column = c
          IN ProcessCell(c, doc.records[n][h])
     ELSE <<>>]

(***************************************************************************)
(* Properties.                                                             *)
(***************************************************************************)

\* parse() turns every record of the file into the CSVRow it describes, in
\* order, one row per record: a quoted cell may hold quotes ("" escapes),
\* line breaks and the delimiter, and the header may spell a column in any
\* case, by abbreviation or with a typo.  This is about parse_csv_content,
\* detect_delimiter, split_csv_line, the header mapping and parse_row
\* agreeing on where cells and records begin and end.
RowsRecovered ==
  /\ Len(rows) <= Len(doc.records)
  /\ \A n \in DOMAIN rows : rows[n] = Expected(n)
  /\ pc = "done" => Len(rows) = Len(doc.records)

=============================================================================
