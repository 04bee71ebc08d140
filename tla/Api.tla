-------------------------------- MODULE Api --------------------------------
(***************************************************************************)
(* The library API as implemented in src/parser_main.cpp:270-598: one    *)
(* call at a time goes through its wrapper (file:: opens the file,        *)
(* stream:: reads the stream), the core function (ParseContext, the       *)
(* syntax check, the elaborator, the conversion to JSON and dump), and    *)
(* back through the wrapper (stream:: writes the value or the error).     *)
(*                                                                         *)
(* at is where the call is: "idle" (no call), "entry" (in the wrapper),   *)
(* "core", "elaborate", "convert" (in the core function), "return" (the   *)
(* core function has returned result), "returned" (the entry point has   *)
(* returned to the client).  A client calls Issue(c) and, once the call  *)
(* has returned, Take.                                                     *)
(*                                                                         *)
(* nlohmann::json objects are std::map-backed: a JSON object is modelled  *)
(* as a function from its keys to values (JMap); the text dump(2) writes *)
(* is left out.  A throw is where c.throws says: "context" (the lexer or  *)
(* parser in ParseContext), "elaborator" (elaborator.elaborate) or "dump" *)
(* (json::dump, which throws on text that is not UTF-8).                  *)
(***************************************************************************)
EXTENDS ApiResult, TLC

CONSTANT Calls

VARIABLES
  call,     \* the call in progress, NoCall when idle
  at,
  result,   \* the Result the core function (or file:: wrapper) returned
  ret,      \* what a stream:: entry point returned
  output    \* what a stream:: entry point wrote to its output stream

vars == <<call, at, result, ret, output>>

(***************************************************************************)
(* The JSON conversions.                                                   *)
(***************************************************************************)
Fields(keys, kind) == [k \in keys |-> JScalar(kind)]

\* convert_ast_to_json: rule and terminal nodes; "children" only when the
\* rule has children.
RECURSIVE convert_ast_to_json(_)
convert_ast_to_json(n) ==
  IF n.kind = "rule"
  THEN JMap(Fields({"type", "rule_name", "text"}, Str)
            @@ Fields({"start_line", "start_column", "stop_line", "stop_column"}, Num)
            @@ (IF Len(n.children) > 0
                THEN "children" :> JArray([c \in DOMAIN n.children |->
                                             convert_ast_to_json(n.children[c])])
                ELSE <<>>))
  ELSE JMap(Fields({"type", "text"}, Str) @@ Fields({"line", "column"}, Num))

\* convert_property_to_json: the JSON kind of each PropertyValue type; an
\* unknown type is written as the string "unknown_type".
convert_property_to_json(type) ==
  CASE type = "INTEGER" -> Num
    [] type = "BOOLEAN" -> "bool"
    [] OTHER            -> Str

\* convert_elaborated_node_to_json: the optional sections are written only
\* when non-empty; props[name] = value for each property.
RECURSIVE convert_elaborated_node_to_json(_)
convert_elaborated_node_to_json(n) ==
  JMap(Fields({"node_type", "inst_name", "absolute_address"}, Str)
       @@ ("size" :> JScalar(Num))
       @@ (IF n.dims > 0
           THEN "array_dimensions" :> JArray([d \in 1 .. n.dims |->
                                                JMap("size" :> JScalar(Num))])
           ELSE <<>>)
       @@ (IF n.props # <<>>
           THEN "properties" :> JMap([k \in {n.props[p].name : p \in DOMAIN n.props} |->
                   JScalar(convert_property_to_json(
                     n.props[CHOOSE p \in DOMAIN n.props : n.props[p].name = k].type))])
           ELSE <<>>)
       @@ (IF Len(n.children) > 0
           THEN "children" :> JArray([c \in DOMAIN n.children |->
                                        convert_elaborated_node_to_json(n.children[c])])
           ELSE <<>>))

\* The document parse and elaborate build around the converted root.
JsonDocument(c) ==
  IF c.fn = "parse"
  THEN JMap(Fields({"format", "version"}, Str)
            @@ ("ast" :> JArray(<<convert_ast_to_json(c.tree)>>)))
  ELSE JMap(Fields({"format", "version"}, Str)
            @@ ("model" :> JArray(<<convert_elaborated_node_to_json(c.tree)>>)))

(***************************************************************************)
(* The call.                                                               *)
(***************************************************************************)
Init ==
  /\ call = NoCall
  /\ at = "idle"
  /\ result = Error("")
  /\ ret = FALSE
  /\ output = EmptyText

\* The core function returns r.
CoreReturns(r) == result' = r /\ at' = "return"

\* A client calls the entry point c.fn of c.via: the string forms are the
\* core functions themselves.
Issue(c) ==
  /\ at = "idle"
  /\ call' = c
  /\ at' = IF c.via = "string" THEN "core" ELSE "entry"
  /\ result' = Error("") /\ ret' = FALSE /\ output' = EmptyText

\* file::parse, file::elaborate, file::csv_to_rdl: an ifstream that does
\* not open is an error; otherwise the whole file is read and passed on.
FileOpen ==
  /\ at = "entry" /\ call.via = "file"
  /\ IF call.opened THEN at' = "core" /\ UNCHANGED result
     ELSE CoreReturns(Error("cannot_open"))
  /\ UNCHANGED <<call, ret, output>>

\* stream::*: the whole input stream is read and passed on.
StreamRead ==
  /\ at = "entry" /\ call.via = "stream"
  /\ at' = "core"
  /\ UNCHANGED <<call, result, ret, output>>

\* parse and elaborate: ParseContext lexes and parses the text; a throw is
\* caught by the function's own catch; syntax errors end the call.
ParseContext ==
  /\ at = "core" /\ call.fn \in {"parse", "elaborate"}
  /\ CASE call.throws = "context" -> CoreReturns(Error("exception"))
       [] call.syntax             -> CoreReturns(Error("syntax"))
       [] OTHER ->
            /\ at' = IF call.fn = "parse" THEN "convert" ELSE "elaborate"
            /\ UNCHANGED result
  /\ UNCHANGED <<call, ret, output>>

\* Mutant: the elaborator's error list is not looked at.
RunElaboratorIgnoresErrors ==
  /\ at = "elaborate"
  /\ CASE call.throws = "elaborator" -> CoreReturns(Error("exception"))
       [] ~call.model                -> CoreReturns(Error("no_model"))
       [] OTHER                      -> at' = "convert" /\ UNCHANGED result
  /\ UNCHANGED <<call, ret, output>>

\* elaborate: the elaborator's errors, then a missing model.
RunElaborator ==
  /\ at = "elaborate"
  /\ CASE call.throws = "elaborator" -> CoreReturns(Error("exception"))
       [] call.elab_errors           -> CoreReturns(Error("elaboration"))
       [] ~call.model                -> CoreReturns(Error("no_model"))
       [] OTHER                      -> at' = "convert" /\ UNCHANGED result
  /\ UNCHANGED <<call, ret, output>>

\* The conversion, the document around it, and dump(2).
ToJson ==
  /\ at = "convert"
  /\ IF call.throws = "dump" THEN CoreReturns(Error("exception"))
     ELSE CoreReturns(Success(JsonDocument(call)))
  /\ UNCHANGED <<call, ret, output>>

\* csv_to_rdl: a fixed address map with a comment giving the content's
\* length; the content is not converted.
CsvToRdlStub ==
  /\ at = "core" /\ call.fn = "csv_to_rdl"
  /\ CoreReturns(Success(RdlText))
  /\ UNCHANGED <<call, ret, output>>

\* stream::*: the value, or "Error: " and the error, goes to the output.
StreamWrite ==
  /\ at = "return" /\ call.via = "stream"
  /\ ret' = result.is_success
  /\ output' = IF result.is_success THEN result.value_ ELSE ErrorText(result.error_)
  /\ at' = "returned"
  /\ UNCHANGED <<call, result>>

\* The string and file:: forms return the Result as it is.
ReturnResult ==
  /\ at = "return" /\ call.via # "stream"
  /\ at' = "returned"
  /\ UNCHANGED <<call, result, ret, output>>

\* The client has used the answer.
Take ==
  /\ at = "returned"
  /\ at' = "idle" /\ call' = NoCall
  /\ UNCHANGED <<result, ret, output>>

LibraryStep ==
  \/ FileOpen \/ StreamRead \/ ParseContext \/ RunElaborator \/ ToJson
  \/ CsvToRdlStub \/ StreamWrite \/ ReturnResult

\* Any client making any of the calls, one at a time.
Next == (\E c \in Calls : Issue(c)) \/ LibraryStep \/ Take

Spec == Init /\ [][Next]_vars

(***************************************************************************)
(* Refinement.                                                             *)
(***************************************************************************)
\* What the client sees: nothing until the entry point returns.
Answered ==
  CASE at # "returned"    -> NoAnswer
    [] call.via = "stream" -> [kind |-> "stream", ok |-> ret, output |-> output]
    [] OTHER               -> [kind |-> "result", result |-> result]

Contract == INSTANCE ApiContract WITH answer <- Answered

\* Every call through the library returns, and answers as systemrdl_api.h
\* promises: a
\* success exactly when the file opens, the text has no syntax errors,
\* the elaborator reports none and returns a model, and nothing throws;
\* a successful parse or elaborate carries the JSON document of section 6
\* for its input (up to member order); a stream:: call returns true
\* exactly then and writes the value, or writes the error.  This is about
\* the early returns and catch blocks of parse, elaborate and their
\* file:: and stream:: wrappers, and about the two JSON converters.
ImplementsApiContract == Contract!LiveSpec

=============================================================================
