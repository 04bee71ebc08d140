--------------------------- MODULE MCRdlGenerator ---------------------------
(***************************************************************************)
(* Row vectors for checking RdlGenerator.  A row is built from the cells  *)
(* it populates; the other cells are empty.                               *)
(***************************************************************************)
EXTENDS RdlGenerator

Row(cells) == [c \in Columns |-> IF c \in DOMAIN cells THEN cells[c] ELSE Empty]

NameA == <<"A">>
NameB == <<"B">>
Hex4  == <<"0", "x", "4">>    \* 0x4
Dec16 == <<"1", "6">>         \* 16, decimal
Hex10 == <<"0", "x", "1", "0">> \* 0x10
Zero  == <<"0">>
Seven == <<"7">>
Four  == <<"4">>
W32   == <<"3", "2">>
RW    == <<"R", "W">>
RO    == <<"R", "O">>

AddrmapRowAt(n, off) == Row([addrmap_offset |-> off, addrmap_name |-> n])
AddrmapRow(n) == AddrmapRowAt(n, Zero)
RegisterRow(n, off) ==
  Row([reg_offset |-> off, reg_name |-> n, reg_width |-> W32])
FieldRow(n, msb, lsb, sw) ==
  Row([field_name |-> n, field_msb |-> msb, field_lsb |-> lsb,
       reset_value |-> Zero, sw_access |-> sw, hw_access |-> RW])
\* Every column populated on one row, as in the CSV of example.cpp:355-361.
MixedRow ==
  Row([addrmap_offset |-> Zero, addrmap_name |-> NameA, reg_offset |-> Hex4,
       reg_name |-> NameA, reg_width |-> W32, field_name |-> NameB,
       field_msb |-> Zero, field_lsb |-> Zero, reset_value |-> Zero,
       sw_access |-> RW, hw_access |-> RW])
BlankRow == Row(<<>>)
\* A field row without field_lsb: no bit range is written.
UnrangedFieldRow == Row([field_name |-> NameB, field_msb |-> Seven])

MaxRows == 4
AnyRows ==
  {AddrmapRow(NameA), AddrmapRow(NameB), RegisterRow(NameA, Hex4),
   RegisterRow(NameB, Dec16), FieldRow(NameA, Seven, Four, RO),
   UnrangedFieldRow, MixedRow, BlankRow}
AnyInputs == BoundedSeq(AnyRows, MaxRows)

MaxConformantRows == 5
ConformantRows ==
  {AddrmapRow(NameA), AddrmapRow(NameB), RegisterRow(NameA, Hex4),
   RegisterRow(NameB, Dec16), FieldRow(NameA, Zero, Zero, RW),
   FieldRow(NameB, Seven, Four, RO)}
ConformantInputs ==
  {rs \in BoundedSeq(ConformantRows, MaxConformantRows) : Conformant(rs)}

\* Address maps at 0 and at 0x10, with hexadecimal register offsets.
MaxOffsetRows == 3
OffsetRows ==
  {AddrmapRow(NameA), AddrmapRowAt(NameB, Hex10), RegisterRow(NameA, Hex4)}
OffsetInputs ==
  {rs \in BoundedSeq(OffsetRows, MaxOffsetRows) : Conformant(rs)}

=============================================================================
