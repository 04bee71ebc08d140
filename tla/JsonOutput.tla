----------------------------- MODULE JsonOutput -----------------------------
(***************************************************************************)
(* A converter driving a JsonBuilder (json_output.h, part_006).            *)
(*                                                                         *)
(* job is the converter's input: [converter |-> "ast", tree |-> t] for     *)
(* ASTToJsonConverter::convert_to_json or [converter |-> "elaborated",     *)
(* tree |-> t] for ElaboratedModelToJsonConverter::convert_to_json.        *)
(* calls is what the converter has still to call on its builder; each     *)
(* action performs the next call.  When calls is empty, convert_to_json    *)
(* returns json_.to_string().                                              *)
(*                                                                         *)
(* reader is an observer: a JSON reader (JsonSyntax) that reads json_ as   *)
(* it is written, so that the text is read once and not again in every    *)
(* state.  It is not program state.                                        *)
(***************************************************************************)
EXTENDS JsonBuilder, JsonConverters

CONSTANT Jobs

VARIABLES job, calls, reader

vars == <<job, calls, reader, builder_vars>>

ConvertCalls(j) ==
  IF j.converter = "ast" THEN AstConvertCalls(j.tree) ELSE ElabConvertCalls(j.tree)

Init ==
  /\ job \in Jobs
  /\ calls = ConvertCalls(job)
  /\ BuilderInit
  /\ reader = ReaderStart

\* The reader reads what the step appended to json_.
ReadWritten == reader' = ReadOn(reader, SubSeq(json_', Len(json_) + 1, Len(json_')))

\* The converter's next call is to the method op.
Calling(op) == calls # <<>> /\ Head(calls).op = op

CallStartObject ==
  /\ Calling("start_object") /\ start_object
  /\ calls' = Tail(calls) /\ ReadWritten /\ UNCHANGED job

CallEndObject ==
  /\ Calling("end_object") /\ end_object
  /\ calls' = Tail(calls) /\ ReadWritten /\ UNCHANGED job

CallStartArray ==
  /\ Calling("start_array") /\ start_array(Head(calls).key)
  /\ calls' = Tail(calls) /\ ReadWritten /\ UNCHANGED job

CallEndArray ==
  /\ Calling("end_array") /\ end_array
  /\ calls' = Tail(calls) /\ ReadWritten /\ UNCHANGED job

CallAddValue ==
  /\ Calling("add_value") /\ add_value(Head(calls).key, Head(calls).kind)
  /\ calls' = Tail(calls) /\ ReadWritten /\ UNCHANGED job

Next ==
  \/ CallStartObject
  \/ CallEndObject
  \/ CallStartArray
  \/ CallEndArray
  \/ CallAddValue

Spec == Init /\ [][Next]_vars

(***************************************************************************)
(* Properties.                                                             *)
(***************************************************************************)

\* The builder's indentation follows its nesting: every start_object and
\* start_array raises indent_level_ by one and every end_object and
\* end_array lowers it, so indent_level_ is the number of open containers
\* recorded on is_array_stack_.
TypeOK ==
  /\ calls \in Seq([op : {"start_object", "end_object", "end_array"}]
                   \cup [op : {"start_array"}, key : STRING]
                   \cup [op : {"add_value"}, key : STRING, kind : STRING])
  /\ first_item_ \in BOOLEAN
  /\ undefined \in BOOLEAN
  /\ is_array_stack_ \in Seq(BOOLEAN)
  /\ indent_level_ = Len(is_array_stack_)

\* convert_to_json writes JSON: what it has written so far is the
\* beginning of a JSON text, and the text it returns is one complete JSON
\* value.  This is about first_item_ placing the commas across nested
\* start_object, start_array and add_* calls, and about the converters
\* closing every object and array they open, for every tree, childless
\* rules included.
JsonWellFormed ==
  /\ reader.ok
  /\ calls = <<>> => reader.stack = <<>> /\ Len(reader.result) = 1

\* What convert_to_json has written so far is the beginning of a JSON text,
\* and the text it returns is JSON denoting the schema of specification
\* section 6 for its input (property P5, "serialize, then parse as JSON").
\* This is about first_item_ placing the commas across nested start_object,
\* start_array and add_* calls, and about the converters opening and
\* closing every section they write.
JsonRoundTrip ==
  /\ reader.ok
  /\ calls = <<>> =>
       HasReadJsonOf(reader, IF job.converter = "ast" THEN AstDocument(job.tree)
                       ELSE ElabDocument(job.tree))

=============================================================================
