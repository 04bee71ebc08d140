--------------------------- MODULE RcsvHierarchy ---------------------------
(***************************************************************************)
(* Abstract specification of the CSV-to-SystemRDL conversion: the         *)
(* register map written so far only ever grows at its end.  A step adds   *)
(* an address map, a register to the last address map, or a field to the *)
(* last register of the last address map; nothing already written is     *)
(* renamed, moved or dropped.                                              *)
(***************************************************************************)
EXTENDS Sequences

CONSTANTS
  Names,   \* instance names a row may carry
  Fields   \* field descriptions [name, msb, lsb, reset] a row may carry

VARIABLE tree  \* Seq([name, regs: Seq([name, fields: Seq(Fields)])])

Init == tree = <<>>

\* t2 is t with an address map appended.
AddAddrmap(t, t2) == \E n \in Names : t2 = Append(t, [name |-> n, regs |-> <<>>])

\* t2 is t with a register appended to the last address map.
AddRegister(t, t2) ==
  /\ t # <<>>
  /\ \E n \in Names :
       t2 = [t EXCEPT ![Len(t)].regs = Append(@, [name |-> n, fields |-> <<>>])]

\* t2 is t with a field appended to the last register.
AddField(t, t2) ==
  /\ t # <<>>
  /\ t[Len(t)].regs # <<>>
  /\ \E f \in Fields :
       t2 = [t EXCEPT ![Len(t)].regs[Len(t[Len(t)].regs)].fields = Append(@, f)]

Next ==
  \/ AddAddrmap(tree, tree')
  \/ AddRegister(tree, tree')
  \/ AddField(tree, tree')

Spec == Init /\ [][Next]_tree

=============================================================================
