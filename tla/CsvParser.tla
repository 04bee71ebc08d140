----------------------------- MODULE CsvParser -----------------------------
(***************************************************************************)
(* CSVParser::parse of the CSV-to-SystemRDL converter                      *)
(* (src/unnamed/part_004, lines 30-382).                                   *)
(*                                                                         *)
(* parse() reads the file line by line into one string, each line ended   *)
(* by "\n", cuts it into logical lines with parse_csv_content (a newline   *)
(* inside double quotes does not end a line), and walks the logical lines *)
(* in order.  For each non-empty line it picks the delimiter (',' or ';', *)
(* whichever occurs more often in that line) and splits the line at the   *)
(* delimiters outside quotes.  The first line is the header: each header  *)
(* cell is matched to a standard column (exactly, by abbreviation, or by  *)
(* edit distance at most 3).  Every other line becomes a CSVRow, each     *)
(* cell trimmed and cleaned according to its column.                      *)
(*                                                                         *)
(* A text is a sequence of one-character strings.                         *)
(***************************************************************************)
EXTENDS Naturals, Sequences, SequencesExt, FiniteSetsExt, Texts

CONSTANTS
  Files   \* the contents of the CSV files parse() is called on

VARIABLES
  file,            \* the file's characters
  csv_lines,       \* locals of parse()
  k,               \* index of the logical line the loop is at
  first_line,
  column_mapping,
  rows,
  pc               \* "read", "loop" or "done"

vars == <<file, csv_lines, k, first_line, column_mapping, rows, pc>>

Q  == "\""
NL == "\n"
CR == "\r"

standard_columns ==
  <<"addrmap_offset", "addrmap_name", "reg_offset", "reg_name", "reg_width",
    "field_name", "field_lsb", "field_msb", "reset_value", "sw_access",
    "hw_access", "description">>

\* A CSVRow with every member empty.
EmptyRow == [c \in ToSet(standard_columns) |-> <<>>]

(***************************************************************************)
(* Lexing.                                                                 *)
(***************************************************************************)

\* The getline loop: every line of the file, the last one included, is
\* appended followed by "\n".
Content(f) == IF f = <<>> \/ Last(f) = NL THEN f ELSE Append(f, NL)

\* parse_csv_content: every quote toggles in_quotes and is kept; a newline
\* outside quotes ends the current line, which is kept if non-empty.
parse_csv_content(content) ==
  LET step(s, c) ==
        IF c = Q THEN [s EXCEPT !.in_quotes = ~@, !.cur = Append(@, c)]
        ELSE IF c = NL /\ ~s.in_quotes
        THEN IF s.cur # <<>> THEN [s EXCEPT !.lines = Append(@, s.cur), !.cur = <<>>]
             ELSE s
        ELSE [s EXCEPT !.cur = Append(@, c)]
      e == SeqFold(step, [lines |-> <<>>, cur |-> <<>>, in_quotes |-> FALSE], content)
  IN IF e.cur # <<>> THEN Append(e.lines, e.cur) ELSE e.lines

CountOf(line, c) == Quantify(DOMAIN line, LAMBDA n : line[n] = c)

detect_delimiter(line) ==
  IF CountOf(line, ";") > CountOf(line, ",") THEN ";" ELSE ","

\* Variant of split_csv_line without the "" escape: every quote toggles.
split_csv_line_every_quote_toggles(line, delimiter) ==
  LET step(s, n) ==
        IF line[n] = Q THEN [s EXCEPT !.in_quotes = ~@]
        ELSE IF line[n] = delimiter /\ ~s.in_quotes
        THEN [s EXCEPT !.fields = Append(@, s.cur), !.cur = <<>>]
        ELSE [s EXCEPT !.cur = Append(@, line[n])]
      e == SeqFoldDomain(step, [fields |-> <<>>, cur |-> <<>>,
                                in_quotes |-> FALSE], line)
  IN Append(e.fields, e.cur)

\* split_csv_line: a quote toggles in_quotes, except that "" inside quotes
\* is one quote character; a delimiter outside quotes ends a field.
split_csv_line(line, delimiter) ==
  LET step(s, n) ==
        IF s.skip THEN [s EXCEPT !.skip = FALSE]
        ELSE IF line[n] = Q
        THEN IF s.in_quotes /\ n + 1 <= Len(line) /\ line[n + 1] = Q
             THEN [s EXCEPT !.cur = Append(@, Q), !.skip = TRUE]
             ELSE [s EXCEPT !.in_quotes = ~@]
        ELSE IF line[n] = delimiter /\ ~s.in_quotes
        THEN [s EXCEPT !.fields = Append(@, s.cur), !.cur = <<>>]
        ELSE [s EXCEPT !.cur = Append(@, line[n])]
      e == SeqFoldDomain(step, [fields |-> <<>>, cur |-> <<>>,
                                 in_quotes |-> FALSE, skip |-> FALSE], line)
  IN Append(e.fields, e.cur)

(***************************************************************************)
(* Cell cleaning.                                                          *)
(***************************************************************************)
Whitespace == {" ", "\t", CR, NL}

trim(t) ==
  LET kept == {n \in DOMAIN t : t[n] \notin Whitespace}
  IN IF kept = {} THEN <<>> ELSE SubSeq(t, Min(kept), Max(kept))

remove_all_newlines(t) == SelectSeq(t, LAMBDA c : c \notin {NL, CR})

\* Trimmed, and every run of "\n"/"\r" replaced by one "\n".
process_description(t) ==
  LET step(s, c) ==
        IF c \in {NL, CR}
        THEN IF s.prev_was_newline THEN s
             ELSE [out |-> Append(s.out, NL), prev_was_newline |-> TRUE]
        ELSE [out |-> Append(s.out, c), prev_was_newline |-> FALSE]
  IN SeqFold(step, [out |-> <<>>, prev_was_newline |-> FALSE], trim(t)).out

process_name_field(t) == remove_all_newlines(trim(t))

process_regular_field(t) == trim(t)

(***************************************************************************)
(* Header matching.  Column indices are 0-based as in the code; -1 is a   *)
(* header cell that matches no column.                                     *)
(***************************************************************************)
Upper == Chars("ABCDEFGHIJKLMNOPQRSTUVWXYZ")
Lower == Chars("abcdefghijklmnopqrstuvwxyz")

\* std::transform with ::tolower.
to_lower(t) ==
  [n \in DOMAIN t |->
     IF \E u \in DOMAIN Upper : Upper[u] = t[n]
     THEN Lower[CHOOSE u \in DOMAIN Upper : Upper[u] = t[n]] ELSE t[n]]

\* The dynamic-programming table, one row per character of s1; row i holds
\* d[i][0..len2] at indices 1..len2+1.
levenshtein_distance(s1, s2) ==
  LET cost(i, j) == IF s1[i] = s2[j] THEN 0 ELSE 1
      next_row(prev, i) ==
        SeqFold(LAMBDA row, j :
                   Append(row, Min({prev[j + 1] + 1, row[j] + 1,
                                    prev[j] + cost(i, j)})),
                 <<i>>, [j \in 1 .. Len(s2) |-> j])
  IN Last(SeqFold(next_row, [j \in 1 .. Len(s2) + 1 |-> j - 1],
                   [i \in 1 .. Len(s1) |-> i]))

abbrev_map ==
  [a \in {"sw_acc", "hw_acc", "access", "addr_offset", "addr_name", "lsb",
          "msb", "desc", "width"} |->
     CASE a = "sw_acc" -> "sw_access"  [] a = "hw_acc" -> "hw_access"
       [] a = "access" -> "sw_access"  [] a = "addr_offset" -> "addrmap_offset"
       [] a = "addr_name" -> "addrmap_name" [] a = "lsb" -> "field_lsb"
       [] a = "msb" -> "field_msb"     [] a = "desc" -> "description"
       [] a = "width" -> "reg_width"]

IndexOf(name, standards) == CHOOSE i \in DOMAIN standards : standards[i] = name

\* Variant of find_best_match returning 1-based indices.
find_best_match_one_based(header, standards) ==
  LET lower  == to_lower(header)
      exact  == {i \in DOMAIN standards : Chars(standards[i]) = lower}
      abbrev == {a \in DOMAIN abbrev_map : Chars(a) = lower}
      dist   == [i \in DOMAIN standards |->
                   levenshtein_distance(lower, Chars(standards[i]))]
      close  == {i \in DOMAIN standards : dist[i] < 4}
      least  == Min({dist[i] : i \in close})
  IN IF exact # {} THEN Min(exact)
     ELSE IF abbrev # {}
     THEN IndexOf(abbrev_map[CHOOSE a \in abbrev : TRUE], standards)
     ELSE IF close = {} THEN -1
     ELSE Min({i \in close : dist[i] = least})

\* Exact match first, then the abbreviation table, then the first standard
\* name at the least edit distance, if that distance is below 4.
find_best_match(header, standards) ==
  LET lower  == to_lower(header)
      exact  == {i \in DOMAIN standards : Chars(standards[i]) = lower}
      abbrev == {a \in DOMAIN abbrev_map : Chars(a) = lower}
      dist   == [i \in DOMAIN standards |->
                   levenshtein_distance(lower, Chars(standards[i]))]
      close  == {i \in DOMAIN standards : dist[i] < 4}
      least  == Min({dist[i] : i \in close})
  IN IF exact # {} THEN Min(exact) - 1
     ELSE IF abbrev # {}
     THEN IndexOf(abbrev_map[CHOOSE a \in abbrev : TRUE], standards) - 1
     ELSE IF close = {} THEN -1
     ELSE Min({i \in close : dist[i] = least}) - 1

create_column_mapping(headers) ==
  [n \in DOMAIN headers |-> find_best_match(headers[n], standard_columns)]

(***************************************************************************)
(* A data row.  Cells beyond the header's width are ignored; a later cell *)
(* mapped to the same column overwrites an earlier one.                    *)
(***************************************************************************)
NameColumns == {"addrmap_name", "reg_name", "field_name"}

ProcessCell(column, value) ==
  CASE column = "description" -> process_description(value)
    [] column \in NameColumns  -> process_name_field(value)
    [] OTHER                   -> process_regular_field(value)

parse_row(fields, mapping) ==
  LET step(row, n) ==
        IF mapping[n] < 0 THEN row
        ELSE LET c == standard_columns[mapping[n] + 1]
             IN [row EXCEPT ![c] = ProcessCell(c, fields[n])]
  IN SeqFold(step, EmptyRow,
              [n \in 1 .. Min({Len(fields), Len(mapping)}) |-> n])

(***************************************************************************)
(* parse(): reading the file, then one action per iteration of the loop   *)
(* over the logical lines, and the return.                                 *)
(***************************************************************************)
\* The locals when parse() is entered.
Start ==
  /\ csv_lines = <<>>
  /\ k = 1
  /\ first_line = TRUE
  /\ column_mapping = <<>>
  /\ rows = <<>>
  /\ pc = "read"

Init == file \in Files /\ Start

ReadContent ==
  /\ pc = "read"
  /\ csv_lines' = parse_csv_content(Content(file))
  /\ pc' = "loop"
  /\ UNCHANGED <<file, k, first_line, column_mapping, rows>>

\* The fields of a logical line, split at the delimiter it uses most.
Fields(line) == split_csv_line(line, detect_delimiter(line))

ParseHeader ==
  /\ pc = "loop"
  /\ k <= Len(csv_lines)
  /\ csv_lines[k] # <<>>
  /\ first_line
  /\ column_mapping' = create_column_mapping(Fields(csv_lines[k]))
  /\ first_line' = FALSE
  /\ k' = k + 1
  /\ UNCHANGED <<file, csv_lines, rows, pc>>

ParseDataRow ==
  /\ pc = "loop"
  /\ k <= Len(csv_lines)
  /\ csv_lines[k] # <<>>
  /\ ~first_line
  /\ rows' = Append(rows, parse_row(Fields(csv_lines[k]), column_mapping))
  /\ k' = k + 1
  /\ UNCHANGED <<file, csv_lines, first_line, column_mapping, pc>>

ReturnRows ==
  /\ pc = "loop"
  /\ k = Len(csv_lines) + 1
  /\ pc' = "done"
  /\ UNCHANGED <<file, csv_lines, k, first_line, column_mapping, rows>>

Next == ReadContent \/ ParseHeader \/ ParseDataRow \/ ReturnRows

Spec == Init /\ [][Next]_vars

(***************************************************************************)
(* Properties.                                                             *)
(***************************************************************************)

\* The loop index stays within the logical lines, every header cell is
\* mapped to a 0-based index of standard_columns or to -1, and every row
\* has exactly the members of a CSVRow.
TypeOK ==
  /\ pc \in {"read", "loop", "done"}
  /\ k \in 1 .. Len(csv_lines) + 1
  /\ first_line \in BOOLEAN
  /\ column_mapping \in Seq(-1 .. Len(standard_columns) - 1)
  /\ \A n \in DOMAIN rows : DOMAIN rows[n] = DOMAIN EmptyRow

=============================================================================
