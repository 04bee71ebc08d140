------------------------------- MODULE Texts -------------------------------
(***************************************************************************)
(* Texts and a left fold over sequences used by the converter modules.    *)
(* SeqFold computes the same value as SequencesExt's FoldLeft, binding   *)
(* each intermediate accumulator to a value as it goes.                    *)
(***************************************************************************)
EXTENDS Naturals, Sequences

\* A string literal as a text: a sequence of one-character strings.
Chars(s) == [n \in 1 .. Len(s) |-> SubSeq(s, n, n)]

\* The next accumulator and the rest of the sequence are bound as the only
\* elements of sets before the recursive call, so that TLC computes them
\* once, as values, also where the fold is primed, and no chain of
\* unevaluated arguments builds up.
RECURSIVE FoldFrom(_, _, _)
FoldFrom(op(_, _), acc, s) ==
  IF s = <<>> THEN acc
  ELSE CHOOSE r \in {FoldFrom(op, b, t) : b \in {op(acc, Head(s))}, t \in {Tail(s)}}
         : TRUE

SeqFold(op(_, _), base, s) == FoldFrom(op, base, s)

\* The fold over the indices of s.
SeqFoldDomain(op(_, _), base, s) == SeqFold(op, base, [n \in DOMAIN s |-> n])

=============================================================================
