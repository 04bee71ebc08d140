--------------------------- MODULE RcsvSemantics ---------------------------
(***************************************************************************)
(* What a CSV row vector means according to the RCSV specification         *)
(* (src/doc/RCSV.md) and the CSV2RDL structure rules of the README: the    *)
(* reference the converter's output is compared with.  Nothing here models *)
(* converter code.                                                         *)
(*                                                                         *)
(* A cell is a text, a sequence of one-character strings; <<>> is an      *)
(* empty cell.                                                             *)
(***************************************************************************)
EXTENDS Naturals, Sequences, SequencesExt, Texts

Columns == {"addrmap_offset", "addrmap_name", "reg_offset", "reg_name",
            "reg_width", "field_name", "field_lsb", "field_msb",
            "reset_value", "sw_access", "hw_access", "description"}

Empty == <<>>

\* The value of a numeric literal, hexadecimal with a 0x/0X prefix and
\* decimal otherwise (RCSV 8.1 and 10.2; SystemRDL reads "@ 0x.." the
\* same way).
HexDigitsUpper == <<"0", "1", "2", "3", "4", "5", "6", "7", "8", "9",
                    "A", "B", "C", "D", "E", "F">>
HexDigitsLower == <<"0", "1", "2", "3", "4", "5", "6", "7", "8", "9",
                    "a", "b", "c", "d", "e", "f">>
DigitValue(c) ==
  CHOOSE k \in 0 .. 15 : HexDigitsUpper[k + 1] = c \/ HexDigitsLower[k + 1] = c
InRadix(ds, b) == SeqFold(LAMBDA acc, c : acc * b + DigitValue(c), 0, ds)
NumberValue(t) ==
  IF Len(t) >= 2 /\ t[1] = "0" /\ t[2] \in {"x", "X"}
  THEN InRadix(SubSeq(t, 3, Len(t)), 16)
  ELSE InRadix(t, 10)

\* RCSV 13.2: the SystemRDL value of an access column.
AccessMeaning(v) ==
  CASE v = <<"R", "W">> -> <<"r", "w">>
    [] v = <<"R", "O">> -> <<"r">>
    [] v = <<"W", "O">> -> <<"w">>
    [] v = <<"N", "A">> -> <<"n", "a">>
    [] OTHER            -> v

(***************************************************************************)
(* Row types (RCSV 5.1, README "Row Type Definitions"): the columns of     *)
(* the type are populated and those of the other types are empty.         *)
(***************************************************************************)
AddrmapColumns  == {"addrmap_offset", "addrmap_name"}
RegisterColumns == {"reg_offset", "reg_name", "reg_width"}
FieldColumns    == {"field_name", "field_lsb", "field_msb", "reset_value",
                    "sw_access", "hw_access"}

OnlyPopulated(r, cols) ==
  /\ \A c \in cols : r[c] # Empty
  /\ \A c \in Columns \ (cols \cup {"description"}) : r[c] = Empty

RowType(r) ==
  CASE OnlyPopulated(r, AddrmapColumns)  -> "addrmap"
    [] OnlyPopulated(r, RegisterColumns) -> "register"
    [] OnlyPopulated(r, FieldColumns)    -> "field"
    [] OTHER                             -> "malformed"

\* README "Structural Rules" 1-4: the first data row is an addrmap row, an
\* addrmap row is followed by a register row, field rows follow a register.
Follows == {<<"start", "addrmap">>, <<"addrmap", "register">>,
            <<"register", "register">>, <<"register", "field">>,
            <<"register", "addrmap">>, <<"field", "field">>,
            <<"field", "register">>, <<"field", "addrmap">>}
Conformant(rs) ==
  \A k \in DOMAIN rs :
    <<IF k = 1 THEN "start" ELSE RowType(rs[k - 1]), RowType(rs[k])>> \in Follows

(***************************************************************************)
(* The register map a conformant row vector describes: a sequence of      *)
(* address maps, each a sequence of registers, each a sequence of fields. *)
(***************************************************************************)
FieldMeaning(r) ==
  [name |-> r.field_name, msb |-> r.field_msb, lsb |-> r.field_lsb,
   reset |-> r.reset_value,
   sw |-> AccessMeaning(r.sw_access), hw |-> AccessMeaning(r.hw_access)]

DenoteRow(t, r) ==
  CASE RowType(r) = "addrmap" ->
         Append(t, [name |-> r.addrmap_name, base |-> NumberValue(r.addrmap_offset),
                    regs |-> <<>>])
    [] RowType(r) = "register" ->
         [t EXCEPT ![Len(t)].regs =
            Append(@, [name |-> r.reg_name, addr |-> NumberValue(r.reg_offset),
                       fields |-> <<>>])]
    [] RowType(r) = "field" ->
         [t EXCEPT ![Len(t)].regs[Len(t[Len(t)].regs)].fields =
            Append(@, FieldMeaning(r))]
    [] OTHER -> t

Denote(rs) == SeqFold(DenoteRow, <<>>, rs)

(***************************************************************************)
(* Projections of a register map.                                          *)
(***************************************************************************)
\* Names, nesting, order, bit ranges and reset values.
Shape(t) ==
  [a \in DOMAIN t |->
    [name |-> t[a].name,
     regs |-> [g \in DOMAIN t[a].regs |->
                [name |-> t[a].regs[g].name,
                 fields |-> [f \in DOMAIN t[a].regs[g].fields |->
                   LET fl == t[a].regs[g].fields[f]
                   IN [name |-> fl.name, msb |-> fl.msb, lsb |-> fl.lsb,
                       reset |-> fl.reset]]]]]]

\* RCSV 9.1: a register's absolute address is addrmap_offset + reg_offset.
AbsoluteAddresses(t) ==
  [a \in DOMAIN t |-> [g \in DOMAIN t[a].regs |-> t[a].base + t[a].regs[g].addr]]

RegisterAddresses(t) ==
  [a \in DOMAIN t |-> [g \in DOMAIN t[a].regs |-> t[a].regs[g].addr]]

=============================================================================
