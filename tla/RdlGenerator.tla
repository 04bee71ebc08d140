---------------------------- MODULE RdlGenerator ----------------------------
(***************************************************************************)
(* RDLGenerator::generate of the CSV-to-SystemRDL converter                *)
(* (src/unnamed/part_004, lines 385-518).                                  *)
(*                                                                         *)
(* generate() walks the parsed CSV rows in order.  A row with an           *)
(* addrmap_offset and an addrmap_name opens an address map, a row with a   *)
(* reg_offset and a reg_name opens a register, a row with a field_name     *)
(* emits a field into the open register; every other row is skipped.      *)
(* The instance name and the "@ address" of a register are only written    *)
(* when the register is closed, from the members current_reg and           *)
(* current_reg_offset.  After the loop the open structures are closed.     *)
(*                                                                         *)
(* A cell is a text: a sequence of one-character strings.  The output is   *)
(* the sequence of RDL constructs written; indentation, blank lines and    *)
(* the name/desc documentation properties are left out.                    *)
(***************************************************************************)
EXTENDS Naturals, Sequences, SequencesExt, TLC, Texts, RcsvSemantics

CONSTANTS
  Inputs  \* the row vectors generate() is called with (CSVParser's output);
          \* a row is a CSVRow (part_004:13-27): a text for each of Columns

VARIABLES
  rows,                   \* the argument of generate()
  i,                      \* index of the row the loop is at
  out,                    \* the RDL constructs written to the stream so far
  current_addrmap,        \* locals of generate()
  current_reg,
  in_reg,
  current_addrmap_offset, \* members of RDLGenerator
  current_reg_offset,
  done                    \* generate() has returned

vars == <<rows, i, out, current_addrmap, current_reg, in_reg,
          current_addrmap_offset, current_reg_offset, done>>

(***************************************************************************)
(* Text conversions.                                                       *)
(***************************************************************************)

\* format_address: "0x0000" for an empty text, the text itself when it
\* starts with 0x or 0X, and "0x" prepended otherwise.
HexPrefixes == {<<"0", "x">>, <<"0", "X">>}
FormatAddress(addr) ==
  IF addr = Empty THEN <<"0", "x", "0", "0", "0", "0">>
  ELSE IF Len(addr) >= 2 /\ SubSeq(addr, 1, 2) \in HexPrefixes THEN addr
  ELSE <<"0", "x">> \o addr

\* to_lower: ::tolower on every character.
UpperToLower == [c \in {"A", "B", "N", "O", "R", "W", "X"} |->
                   CASE c = "A" -> "a" [] c = "B" -> "b" [] c = "N" -> "n"
                     [] c = "O" -> "o" [] c = "R" -> "r" [] c = "W" -> "w"
                     [] c = "X" -> "x"]
to_lower(t) ==
  [k \in DOMAIN t |-> IF t[k] \in DOMAIN UpperToLower
                        THEN UpperToLower[t[k]] ELSE t[k]]

(***************************************************************************)
(* The RDL constructs generate() writes.                                   *)
(***************************************************************************)
AddrmapOpen(n)    == [tok |-> "addrmap", name |-> n]      \* addrmap n {
AddrmapClose      == [tok |-> "end_addrmap"]              \* };
RegOpen(w)        == [tok |-> "reg", regwidth |-> w]      \* reg { regwidth = w;
RegClose(n, addr) == [tok |-> "end_reg", name |-> n, at |-> addr] \* } n @ addr;
\* Variant of FieldOf writing the range as [lsb:msb].
FieldOfSwapped(r) ==
  LET ranged == r.field_lsb # Empty /\ r.field_msb # Empty
  IN [tok |-> "field", name |-> r.field_name,
      sw |-> to_lower(r.sw_access), hw |-> to_lower(r.hw_access),
      msb |-> IF ranged THEN r.field_lsb ELSE Empty,
      lsb |-> IF ranged THEN r.field_msb ELSE Empty,
      reset |-> r.reset_value]

\* field { sw = ..; hw = ..; } name[msb:lsb] = reset;  An empty text stands
\* for a property or suffix that is not written.
FieldOf(r) ==
  LET ranged == r.field_lsb # Empty /\ r.field_msb # Empty
  IN [tok |-> "field", name |-> r.field_name,
      sw |-> to_lower(r.sw_access), hw |-> to_lower(r.hw_access),
      msb |-> IF ranged THEN r.field_msb ELSE Empty,
      lsb |-> IF ranged THEN r.field_lsb ELSE Empty,
      reset |-> r.reset_value]

\* "if (in_reg) rdl << "    } " << current_reg << " @ " ..."
CloseOpenReg ==
  IF in_reg THEN <<RegClose(current_reg, FormatAddress(current_reg_offset))>>
  ELSE <<>>

IsAddrmapRow(r)  == r.addrmap_offset # Empty /\ r.addrmap_name # Empty
IsRegisterRow(r) == r.reg_offset # Empty /\ r.reg_name # Empty

(***************************************************************************)
(* One action per branch of the loop body, and the closing code.           *)
(***************************************************************************)
Init ==
  /\ rows \in Inputs
  /\ i = 1
  /\ out = <<>>
  /\ current_addrmap = Empty
  /\ current_reg = Empty
  /\ in_reg = FALSE
  /\ current_addrmap_offset = Empty
  /\ current_reg_offset = Empty
  /\ done = FALSE

\* Variant of AddrmapDefinition that leaves in_reg set.
AddrmapDefinitionKeepsInReg ==
  LET r == rows[i] IN
  /\ i <= Len(rows)
  /\ IsAddrmapRow(r)
  /\ out' = out \o CloseOpenReg
                \o (IF current_addrmap # Empty THEN <<AddrmapClose>> ELSE <<>>)
                \o <<AddrmapOpen(r.addrmap_name)>>
  /\ current_addrmap' = r.addrmap_name
  /\ current_addrmap_offset' = r.addrmap_offset
  /\ i' = i + 1
  /\ UNCHANGED <<rows, current_reg, in_reg, current_reg_offset, done>>

AddrmapDefinition ==
  LET r == rows[i] IN
  /\ i <= Len(rows)
  /\ IsAddrmapRow(r)
  /\ out' = out \o CloseOpenReg
                \o (IF current_addrmap # Empty THEN <<AddrmapClose>> ELSE <<>>)
                \o <<AddrmapOpen(r.addrmap_name)>>
  /\ in_reg' = FALSE
  /\ current_addrmap' = r.addrmap_name
  /\ current_addrmap_offset' = r.addrmap_offset
  /\ i' = i + 1
  /\ UNCHANGED <<rows, current_reg, current_reg_offset, done>>

\* Variant of RegisterDefinition that closes the open register under the
\* name of the new one.
RegisterDefinitionRenames ==
  LET r == rows[i] IN
  /\ i <= Len(rows)
  /\ ~IsAddrmapRow(r)
  /\ IsRegisterRow(r)
  /\ out' = out \o (IF in_reg THEN <<RegClose(r.reg_name,
                                     FormatAddress(current_reg_offset))>>
                   ELSE <<>>)
                \o <<RegOpen(r.reg_width)>>
  /\ current_reg' = r.reg_name
  /\ current_reg_offset' = r.reg_offset
  /\ in_reg' = TRUE
  /\ i' = i + 1
  /\ UNCHANGED <<rows, current_addrmap, current_addrmap_offset, done>>

RegisterDefinition ==
  LET r == rows[i] IN
  /\ i <= Len(rows)
  /\ ~IsAddrmapRow(r)
  /\ IsRegisterRow(r)
  /\ out' = out \o CloseOpenReg \o <<RegOpen(r.reg_width)>>
  /\ current_reg' = r.reg_name
  /\ current_reg_offset' = r.reg_offset
  /\ in_reg' = TRUE
  /\ i' = i + 1
  /\ UNCHANGED <<rows, current_addrmap, current_addrmap_offset, done>>

FieldDefinition ==
  LET r == rows[i] IN
  /\ i <= Len(rows)
  /\ ~IsAddrmapRow(r)
  /\ ~IsRegisterRow(r)
  /\ r.field_name # Empty
  /\ in_reg
  /\ out' = Append(out, FieldOf(r))
  /\ i' = i + 1
  /\ UNCHANGED <<rows, current_addrmap, current_reg, in_reg,
                 current_addrmap_offset, current_reg_offset, done>>

\* A row matching no branch (blank, or a field row outside a register).
SkipRow ==
  LET r == rows[i] IN
  /\ i <= Len(rows)
  /\ ~IsAddrmapRow(r)
  /\ ~IsRegisterRow(r)
  /\ r.field_name = Empty \/ ~in_reg
  /\ i' = i + 1
  /\ UNCHANGED <<rows, out, current_addrmap, current_reg, in_reg,
                 current_addrmap_offset, current_reg_offset, done>>

\* Variant of CloseStructures that may run before the last row.
CloseStructuresEarly ==
  /\ i <= Len(rows) + 1
  /\ ~done
  /\ out' = out \o CloseOpenReg
                \o (IF current_addrmap # Empty THEN <<AddrmapClose>> ELSE <<>>)
  /\ done' = TRUE
  /\ UNCHANGED <<rows, i, current_addrmap, current_reg, in_reg,
                 current_addrmap_offset, current_reg_offset>>

CloseStructures ==
  /\ i = Len(rows) + 1
  /\ ~done
  /\ out' = out \o CloseOpenReg
                \o (IF current_addrmap # Empty THEN <<AddrmapClose>> ELSE <<>>)
  /\ done' = TRUE
  /\ UNCHANGED <<rows, i, current_addrmap, current_reg, in_reg,
                 current_addrmap_offset, current_reg_offset>>

Next ==
  \/ AddrmapDefinition
  \/ RegisterDefinition
  \/ FieldDefinition
  \/ SkipRow
  \/ CloseStructures

Spec == Init /\ [][Next]_vars

(***************************************************************************)
(* What the written RDL means: the constructs are read back in order, as  *)
(* the SystemRDL parser nests them.  ok turns FALSE at a construct that    *)
(* cannot appear where it is (a field outside a register, a register      *)
(* inside a register, a "};" with a register still open, ...).  Registers *)
(* written outside any address map are counted in loose.  An address map *)
(* written as "addrmap n { ... };" is a definition without "@", which     *)
(* SystemRDL elaborates as a root at address 0.                           *)
(***************************************************************************)
ReadConstruct(s, t) ==
  LET bad == [s EXCEPT !.ok = FALSE] IN
  CASE t.tok = "addrmap" ->
         IF s.am = <<>> /\ s.reg = <<>>
         THEN [s EXCEPT !.am = <<[name |-> t.name, base |-> 0, regs |-> <<>>]>>]
         ELSE bad
    [] t.tok = "end_addrmap" ->
         IF s.am # <<>> /\ s.reg = <<>>
         THEN [s EXCEPT !.top = Append(@, s.am[1]), !.am = <<>>] ELSE bad
    [] t.tok = "reg" ->
         IF s.reg = <<>> THEN [s EXCEPT !.reg = <<<<>>>>] ELSE bad
    [] t.tok = "end_reg" ->
         IF s.reg = <<>> THEN bad
         ELSE LET r == [name |-> t.name, addr |-> NumberValue(t.at),
                        fields |-> s.reg[1]]
              IN IF s.am # <<>>
                 THEN [s EXCEPT !.am[1].regs = Append(@, r), !.reg = <<>>]
                 ELSE [s EXCEPT !.loose = @ + 1, !.reg = <<>>]
    [] t.tok = "field" ->
         IF s.reg = <<>> THEN bad
         ELSE [s EXCEPT !.reg[1] = Append(@,
                [name |-> t.name, msb |-> t.msb, lsb |-> t.lsb,
                 reset |-> t.reset, sw |-> t.sw, hw |-> t.hw])]

ReadBack(ts) ==
  SeqFold(ReadConstruct,
          [ok |-> TRUE, top |-> <<>>, am |-> <<>>, reg |-> <<>>, loose |-> 0], ts)

\* d is the read-back state; reg and reg_offset close the open register.
OpenRegister(d, reg, reg_offset) ==
  [name |-> reg, addr |-> NumberValue(FormatAddress(reg_offset)),
   fields |-> d.reg[1]]
WrittenFrom(d, reg, reg_offset) ==
  d.top \o (IF d.am = <<>> THEN <<>>
            ELSE IF d.reg = <<>> THEN d.am
            ELSE <<[d.am[1] EXCEPT !.regs =
                      Append(@, OpenRegister(d, reg, reg_offset))]>>)
Written == WrittenFrom(ReadBack(out), current_reg, current_reg_offset)

\* The register map the rows consumed so far describe (RCSV).
Described == Denote(SubSeq(rows, 1, i - 1))

(***************************************************************************)
(* Properties.                                                             *)
(***************************************************************************)

\* The loop index stays within the rows, the output is a sequence of RDL
\* constructs, and generate() returns only once every row is consumed.
Constructs == {"addrmap", "end_addrmap", "reg", "end_reg", "field"}
TypeOK ==
  /\ rows \in Inputs
  /\ i \in 1 .. Len(rows) + 1
  /\ \A k \in DOMAIN out : out[k].tok \in Constructs
  /\ in_reg \in BOOLEAN
  /\ done \in BOOLEAN
  /\ done => i = Len(rows) + 1

\* Whatever rows generate() is given, the RDL it writes nests correctly: no
\* field outside a register, no register inside a register, no "};" while
\* a register is open, and once generate() returns nothing is left open.
\* This is about the in_reg / current_addrmap bookkeeping across the
\* addrmap branch, the register branch and the closing code.
OutputWellFormed ==
  LET d == ReadBack(out)
  IN /\ d.ok
     /\ done => d.am = <<>> /\ d.reg = <<>>

\* For rows that follow the RCSV structure rules, the RDL written so far
\* has the address maps, registers and fields the consumed rows describe,
\* with the same names, order, bit ranges and reset values.  The register
\* name is written only when the register is closed, from current_reg.
RowsDescribed == Conformant(rows) => Shape(Written) = Shape(Described)

\* The written register map refines the abstract conversion: each step
\* only appends to it (RcsvHierarchy).  The names and fields a step may
\* add are those the input rows carry; a field may be written without its
\* bit range (a row that gives only one end of it).
InputRows  == UNION {ToSet(rs) : rs \in Inputs}
InputNames == {r[c] : r \in InputRows, c \in {"addrmap_name", "reg_name"}}
RowField(r) == [name |-> r.field_name, msb |-> r.field_msb,
                lsb |-> r.field_lsb, reset |-> r.reset_value]
InputFields == {RowField(r) : r \in InputRows}
               \cup {[RowField(r) EXCEPT !.msb = Empty, !.lsb = Empty] : r \in InputRows}
Abstract == INSTANCE RcsvHierarchy
              WITH tree <- Shape(Written), Names <- InputNames,
                   Fields <- InputFields
ImplementsRcsvHierarchy == Abstract!Spec

\* RCSV 9.1/10.2: a register's address is the value of its reg_offset,
\* decimal or 0x-hexadecimal.  format_address writes "@ 0x" followed by a
\* decimal offset unchanged.
RegisterAddressesPreserved ==
  RegisterAddresses(Written) = RegisterAddresses(Described)

\* RCSV 9.1: a register's absolute address is its address map's
\* addrmap_offset plus its reg_offset.  The address-map branch stores the
\* offset in current_addrmap_offset and nothing ever writes it.
AbsoluteAddressesPreserved ==
  AbsoluteAddresses(Written) = AbsoluteAddresses(Described)

=============================================================================
