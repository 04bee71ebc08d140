----------------------------- MODULE JsonBuilder -----------------------------
(***************************************************************************)
(* JsonBuilder of json_output.h (src/unnamed/part_006, lines 15-120).      *)
(*                                                                         *)
(* The builder writes JSON text to a stream as its methods are called; it *)
(* checks nothing.  first_item_ decides whether a "," goes before the next *)
(* item, indent_level_ the indentation, and is_array_stack_ records the    *)
(* open containers (it is pushed and popped but never read).               *)
(*                                                                         *)
(* The stream is a sequence of tokens: Comma, Key(k) for `"k": `, Scalar   *)
(* for a string, number or boolean literal, and the four brackets.         *)
(* Indentation and line breaks are left out; escape_string is left out     *)
(* because keys and values are model values here.                          *)
(***************************************************************************)
EXTENDS Naturals, Sequences, SequencesExt

VARIABLES
  json_,            \* the tokens written so far
  indent_level_,
  first_item_,
  is_array_stack_,
  undefined         \* a pop_back on an empty is_array_stack_ happened

builder_vars == <<json_, indent_level_, first_item_, is_array_stack_, undefined>>

Comma        == [tok |-> "comma"]
Key(k)       == [tok |-> "key", key |-> k]
Scalar(kind) == [tok |-> "scalar", kind |-> kind]
OpenObject   == [tok |-> "{"]
CloseObject  == [tok |-> "}"]
OpenArray    == [tok |-> "["]
CloseArray   == [tok |-> "]"]

\* "if (!first_item_) json_ << ",\n";"
Separator == IF first_item_ THEN <<>> ELSE <<Comma>>

\* std::vector::pop_back; on an empty vector the behaviour is undefined.
PopBack ==
  /\ is_array_stack_' = IF is_array_stack_ = <<>> THEN <<>> ELSE Front(is_array_stack_)
  /\ undefined' = (undefined \/ is_array_stack_ = <<>>)

BuilderInit ==
  /\ json_ = <<>>
  /\ indent_level_ = 0
  /\ first_item_ = TRUE
  /\ is_array_stack_ = <<>>
  /\ undefined = FALSE

\* Mutant: the separator before an object is left out.
start_object_no_separator ==
  /\ json_' = json_ \o <<OpenObject>>
  /\ indent_level_' = indent_level_ + 1
  /\ first_item_' = TRUE
  /\ is_array_stack_' = Append(is_array_stack_, FALSE)
  /\ UNCHANGED undefined

start_object ==
  /\ json_' = json_ \o Separator \o <<OpenObject>>
  /\ indent_level_' = indent_level_ + 1
  /\ first_item_' = TRUE
  /\ is_array_stack_' = Append(is_array_stack_, FALSE)
  /\ UNCHANGED undefined

end_object ==
  /\ json_' = Append(json_, CloseObject)
  /\ indent_level_' = indent_level_ - 1
  /\ first_item_' = FALSE
  /\ PopBack

\* key = "" is the default argument: no key is written.
start_array(key) ==
  /\ json_' = json_ \o Separator
                    \o (IF key # "" THEN <<Key(key)>> ELSE <<>>)
                    \o <<OpenArray>>
  /\ indent_level_' = indent_level_ + 1
  /\ first_item_' = TRUE
  /\ is_array_stack_' = Append(is_array_stack_, TRUE)
  /\ UNCHANGED undefined

\* Mutant: end_array leaves indent_level_ as it is.
end_array_keeps_indent ==
  /\ json_' = Append(json_, CloseArray)
  /\ UNCHANGED indent_level_
  /\ first_item_' = FALSE
  /\ PopBack

end_array ==
  /\ json_' = Append(json_, CloseArray)
  /\ indent_level_' = indent_level_ - 1
  /\ first_item_' = FALSE
  /\ PopBack

\* add_string, add_number, add_bool and add_hex: a keyed literal; kind is
\* "string" (add_string, add_hex), "number" or "bool".
add_value(key, kind) ==
  /\ json_' = json_ \o Separator \o <<Key(key), Scalar(kind)>>
  /\ first_item_' = FALSE
  /\ UNCHANGED <<indent_level_, is_array_stack_, undefined>>

=============================================================================
