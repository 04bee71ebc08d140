----------------------------- MODULE ApiResult -----------------------------
(***************************************************************************)
(* The Result type of src/systemrdl_api.h and what the header promises    *)
(* each entry point (string, file:: and stream:: forms of parse,          *)
(* elaborate and csv_to_rdl) returns.                                      *)
(*                                                                         *)
(* A call is a record: fn and via name the entry point; the other fields  *)
(* are what the environment decides about its input: whether the file     *)
(* opens, whether the text has syntax errors, whether the elaborator      *)
(* reports errors or returns a model, where (if anywhere) something        *)
(* throws, and the parse tree or elaborated model the input stands for.   *)
(***************************************************************************)
EXTENDS Naturals, Sequences, JsonConverters

NoCall   == [fn |-> "none"]
NoAnswer == [kind |-> "none"]

\* The empty string, where a value or an output text is expected.
EmptyText == [t |-> "empty"]

\* Result::success and Result::error (systemrdl_api.h:15-32).
Success(v) == [value_ |-> v, error_ |-> "", is_success |-> TRUE]
Error(e)   == [value_ |-> EmptyText, error_ |-> e, is_success |-> FALSE]

\* The errors a Result may carry, and the text a stream:: call writes for
\* one.
ErrorKinds == {"cannot_open", "syntax", "elaboration", "no_model", "exception"}
ErrorText(e) == [prefix |-> "Error: ", error |-> e]

\* What csv_to_rdl returns on success: SystemRDL text.
RdlText == [t |-> "systemrdl"]

\* The input can be read: a file:: call needs its file to open.
Readable(c) == c.via # "file" \/ c.opened

\* The call should succeed: its input is read, the text is free of syntax
\* errors and (for elaborate) elaborates to a model without errors, and
\* nothing throws.
Good(c) ==
  /\ Readable(c)
  /\ c.fn \in {"parse", "elaborate"} => ~c.syntax /\ c.throws = "none"
  /\ c.fn = "elaborate" => ~c.elab_errors /\ c.model

\* The value a successful call carries: the JSON document of section 6 of
\* the specification for its input (up to member order), or RDL text.
Document(c) ==
  CASE c.fn = "parse"     -> Unordered(AstDocument(c.tree))
    [] c.fn = "elaborate" -> Unordered(ElabDocument(c.tree))
    [] OTHER              -> RdlText

\* The answers a call may return.  A Result for the string and file::
\* forms; for stream:: the bool returned and what was written.
Answers(c) ==
  IF c.via = "stream"
  THEN IF Good(c) THEN {[kind |-> "stream", ok |-> TRUE, output |-> Document(c)]}
       ELSE {[kind |-> "stream", ok |-> FALSE, output |-> ErrorText(e)] : e \in ErrorKinds}
  ELSE IF Good(c) THEN {[kind |-> "result", result |-> Success(Document(c))]}
       ELSE {[kind |-> "result", result |-> Error(e)] : e \in ErrorKinds}

=============================================================================
