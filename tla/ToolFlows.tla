------------------------------ MODULE ToolFlows ------------------------------
(***************************************************************************)
(* The main functions of the four command-line tools, step by step, with   *)
(* every early return:                                                     *)
(*   "parser"      systemrdl_parser       (src/parser_main.cpp:74-120)     *)
(*   "elaborator"  systemrdl_elaborator   (src/elaborator_main.cpp:100-187) *)
(*   "render"      systemrdl_render       (src/parser_main.cpp:133-258)    *)
(*   "csv2rdl"     csv2rdl                (src/unnamed/part_004:520-591)   *)
(*   "example"     the library example    (src/example/example.cpp:18-128) *)
(*                                                                         *)
(* What the environment decides (the arguments, whether a file opens,      *)
(* whether the input has syntax errors, whether elaboration reports        *)
(* errors, whether a template renders, whether the output can be written)  *)
(* is chosen at the step that finds it out.  errors records every error    *)
(* the run has met, by kind; printing is left out.                         *)
(***************************************************************************)
EXTENDS Integers, Sequences, FileNames

CONSTANTS
  Tools,        \* the tools run
  Paths,        \* input paths given on the command line
  Templates,    \* template paths given to systemrdl_render
  Outputs       \* values of -o/--output; <<>> when it is not given

VARIABLES
  tool, pc, exit_code, errors,
  input_file, template_file, option_output,
  output_file,  \* the name the tool will write to, once known
  written       \* the output file created, <<>> if none (its content may
                \* be incomplete when the write failed)

vars == <<tool, pc, exit_code, errors, input_file, template_file, option_output,
          output_file, written>>

\* The outcomes of CmdLineParser::parse (not under src/): the arguments are
\* accepted, help or version was asked for, or they are wrong.  With help,
\* alone says whether it was the only argument (argc == 2).
CmdLineOutcomes == {"ok", "help", "bad"}

\* exit_code before main has returned.
Running == -1

Init ==
  /\ tool \in Tools
  /\ input_file \in Paths
  /\ template_file \in Templates
  /\ option_output \in Outputs
  /\ pc = "start"
  /\ exit_code = Running
  /\ errors = {}
  /\ output_file = <<>>
  /\ written = <<>>

Exit(code) == pc' = "exit" /\ exit_code' = code
\* "return 1" after an error of the given kind.
Fail(kind) == errors' = errors \cup {kind} /\ Exit(1)
Goto(l)    == pc' = l /\ UNCHANGED <<exit_code, errors>>

Fixed == UNCHANGED <<tool, input_file, template_file, option_output>>
NoOutput == UNCHANGED <<output_file, written>>

\* systemrdl::file::elaborate (parser_main.cpp:477-490) over
\* systemrdl::elaborate (parser_main.cpp:421-456): the Result is an error if
\* the file does not open, the text has syntax errors, the elaborator
\* reports errors or returns no model, or something throws.
file_elaborate(opened, syntax, elab_errors, model, throws) ==
  CASE ~opened      -> "io"
    [] syntax       -> "syntax"
    [] throws       -> "exception"
    [] elab_errors  -> "elaboration"
    [] ~model       -> "elaboration"
    [] OTHER        -> "ok"

(***************************************************************************)
(* systemrdl_parser.                                                       *)
(***************************************************************************)
ParserArgs ==
  /\ tool = "parser" /\ pc = "start"
  /\ \E argc_ok \in BOOLEAN : IF argc_ok THEN Goto("open") ELSE Fail("usage")
  /\ Fixed /\ NoOutput

ParserOpen ==
  /\ tool = "parser" /\ pc = "open"
  /\ \E opened \in BOOLEAN : IF opened THEN Goto("parse") ELSE Fail("io")
  /\ Fixed /\ NoOutput

\* Syntax errors are reported on stderr and the run goes on.
ParserParse ==
  /\ tool = "parser" /\ pc = "parse"
  /\ \E syntax \in BOOLEAN :
       errors' = IF syntax THEN errors \cup {"syntax"} ELSE errors
  /\ pc' = "print" /\ UNCHANGED exit_code
  /\ Fixed /\ NoOutput

ParserPrint ==
  /\ tool = "parser" /\ pc = "print"
  /\ Exit(0) /\ UNCHANGED errors
  /\ Fixed /\ NoOutput

(***************************************************************************)
(* systemrdl_elaborator.                                                   *)
(***************************************************************************)
ElabArgs ==
  /\ tool = "elaborator" /\ pc = "start"
  /\ \E argc_ok \in BOOLEAN : IF argc_ok THEN Goto("open") ELSE Fail("usage")
  /\ Fixed /\ NoOutput

ElabOpen ==
  /\ tool = "elaborator" /\ pc = "open"
  /\ \E opened \in BOOLEAN : IF opened THEN Goto("parse") ELSE Fail("io")
  /\ Fixed /\ NoOutput

ElabParse ==
  /\ tool = "elaborator" /\ pc = "parse"
  /\ \E syntax \in BOOLEAN : IF syntax THEN Fail("syntax") ELSE Goto("elaborate")
  /\ Fixed /\ NoOutput

\* elaborate(): errors, no model, or an exception caught by main.
ElabElaborate ==
  /\ tool = "elaborator" /\ pc = "elaborate"
  /\ \E elab_errors, model, throws \in BOOLEAN :
       CASE throws      -> Fail("exception")
         [] elab_errors -> Fail("elaboration")
         [] ~model      -> Fail("elaboration")
         [] OTHER       -> Goto("print")
  /\ Fixed /\ NoOutput

\* Printing the model and the address map.
ElabPrint ==
  /\ tool = "elaborator" /\ pc = "print"
  /\ Exit(0) /\ UNCHANGED errors
  /\ Fixed /\ NoOutput

(***************************************************************************)
(* systemrdl_render.                                                       *)
(***************************************************************************)
\* cmdline.parse fails for help and for bad arguments; main returns 0 only
\* when -h/--help was the one argument, and 1 otherwise (misuse).
RenderCmdline ==
  /\ tool = "render" /\ pc = "start"
  /\ \E outcome \in CmdLineOutcomes, alone \in BOOLEAN :
       CASE outcome = "ok"            -> Goto("args")
         [] outcome = "help" /\ alone -> Exit(0) /\ UNCHANGED errors
         [] OTHER                     -> Fail("usage")
  /\ Fixed /\ NoOutput

\* No positional argument, or no -t/--template.
RenderArgs ==
  /\ tool = "render" /\ pc = "args"
  /\ \E has_input, has_template \in BOOLEAN :
       IF has_input /\ has_template THEN Goto("elaborate") ELSE Fail("usage")
  /\ Fixed /\ NoOutput

\* systemrdl::file::elaborate; its JSON is then parsed for Inja.  The API
\* writes the JSON with nlohmann::json::dump, so json::parse does not fail.
RenderElaborate ==
  /\ tool = "render" /\ pc = "elaborate"
  /\ \E opened, syntax, elab_errors, model, throws \in BOOLEAN :
       LET r == file_elaborate(opened, syntax, elab_errors, model, throws)
       IN IF r = "ok" THEN Goto("render") ELSE Fail(r)
  /\ Fixed /\ NoOutput

\* Mutant: the output file is opened before the template is rendered, so a
\* template that throws leaves an empty output file behind.
RenderTemplateOpensOutput ==
  /\ tool = "render" /\ pc = "render"
  /\ output_file' = IF option_output # <<>> THEN option_output
                    ELSE render_output_name(input_file, template_file)
  /\ written' = output_file'
  /\ \E throws \in BOOLEAN : IF throws THEN Fail("template") ELSE Goto("write")
  /\ Fixed

\* env.render_file throws on a missing or malformed template.
RenderTemplate ==
  /\ tool = "render" /\ pc = "render"
  /\ \E throws \in BOOLEAN : IF throws THEN Fail("template") ELSE Goto("write")
  /\ Fixed /\ NoOutput

\* The output name, then the write.  Only the open is checked: a failing
\* out_file << rendered_content (a full disk) goes unnoticed and main
\* returns 0.
RenderWrite ==
  /\ tool = "render" /\ pc = "write"
  /\ output_file' = IF option_output # <<>> THEN option_output
                    ELSE render_output_name(input_file, template_file)
  /\ \E opened, stored \in BOOLEAN :
       IF opened THEN /\ written' = output_file'
                      /\ errors' = IF stored THEN errors ELSE errors \cup {"io"}
                      /\ Exit(0)
       ELSE Fail("io") /\ UNCHANGED written
  /\ Fixed

(***************************************************************************)
(* csv2rdl.                                                                *)
(***************************************************************************)
\* cmdline.parse fails for help or version and for bad arguments; main
\* returns 0 only when -h/--help/-v/--version was the one argument.
CsvCmdline ==
  /\ tool = "csv2rdl" /\ pc = "start"
  /\ \E outcome \in CmdLineOutcomes, alone \in BOOLEAN :
       CASE outcome = "ok"            -> Goto("args")
         [] outcome = "help" /\ alone -> Exit(0) /\ UNCHANGED errors
         [] OTHER                     -> Fail("usage")
  /\ Fixed /\ NoOutput

\* No positional argument; otherwise the output name is settled.
CsvArgs ==
  /\ tool = "csv2rdl" /\ pc = "args"
  /\ \E has_input \in BOOLEAN :
       IF has_input
       THEN /\ Goto("parse")
            /\ output_file' = IF option_output # <<>> THEN option_output
                              ELSE csv2rdl_output_name(input_file)
       ELSE Fail("usage") /\ UNCHANGED output_file
  /\ Fixed /\ UNCHANGED written

\* CSVParser::parse throws when the file does not open; generate does not
\* fail.
CsvConvert ==
  /\ tool = "csv2rdl" /\ pc = "parse"
  /\ \E opened \in BOOLEAN : IF opened THEN Goto("write") ELSE Fail("io")
  /\ Fixed /\ NoOutput

\* As in systemrdl_render, a failing output_stream << rdl_content is not
\* checked.
CsvWrite ==
  /\ tool = "csv2rdl" /\ pc = "write"
  /\ \E opened, stored \in BOOLEAN :
       IF opened THEN /\ written' = output_file
                      /\ errors' = IF stored THEN errors ELSE errors \cup {"io"}
                      /\ Exit(0)
       ELSE Fail("io") /\ UNCHANGED written
  /\ Fixed /\ UNCHANGED output_file

(***************************************************************************)
(* The library example (example.cpp:18-128): parse, elaborate, print.     *)
(***************************************************************************)
ExampleArgs ==
  /\ tool = "example" /\ pc = "start"
  /\ \E argc_ok \in BOOLEAN : IF argc_ok THEN Goto("open") ELSE Fail("usage")
  /\ Fixed /\ NoOutput

ExampleOpen ==
  /\ tool = "example" /\ pc = "open"
  /\ \E opened \in BOOLEAN : IF opened THEN Goto("parse") ELSE Fail("io")
  /\ Fixed /\ NoOutput

\* parser.root(): ANTLR reports syntax errors on stderr and recovers;
\* nothing asks the parser for them.
ExampleParse ==
  /\ tool = "example" /\ pc = "parse"
  /\ \E syntax \in BOOLEAN :
       errors' = IF syntax THEN errors \cup {"syntax"} ELSE errors
  /\ pc' = "elaborate" /\ UNCHANGED exit_code
  /\ Fixed /\ NoOutput

\* elaborate(): an exception caught by main, or reported errors.  A missing
\* model without errors goes on.
ExampleElaborate ==
  /\ tool = "example" /\ pc = "elaborate"
  /\ \E elab_errors, throws \in BOOLEAN :
       CASE throws      -> Fail("exception")
         [] elab_errors -> Fail("elaboration")
         [] OTHER       -> Goto("print")
  /\ Fixed /\ NoOutput

\* The design information and address map, when there is a model.
ExamplePrint ==
  /\ tool = "example" /\ pc = "print"
  /\ Exit(0) /\ UNCHANGED errors
  /\ Fixed /\ NoOutput

Next ==
  \/ ParserArgs \/ ParserOpen \/ ParserParse \/ ParserPrint
  \/ ElabArgs \/ ElabOpen \/ ElabParse \/ ElabElaborate \/ ElabPrint
  \/ RenderCmdline \/ RenderArgs \/ RenderElaborate \/ RenderTemplate \/ RenderWrite
  \/ CsvCmdline \/ CsvArgs \/ CsvConvert \/ CsvWrite
  \/ ExampleArgs \/ ExampleOpen \/ ExampleParse \/ ExampleElaborate \/ ExamplePrint

Spec == Init /\ [][Next]_vars

(***************************************************************************)
(* Properties.                                                             *)
(***************************************************************************)

\* A failed run leaves no output file behind: whenever a tool ends with
\* exit code 1, it has created no output.  This is about systemrdl_render
\* and csv2rdl opening their output only after elaboration, rendering or
\* conversion has succeeded, and about every early return before that.
NoOutputFromFailedRun ==
  (pc = "exit" /\ exit_code = 1) => written = <<>>

\* Specification section 6, "CLI surface": a tool exits with 0 on success
\* and 1 on any error (syntax, elaboration or I/O).  This is about every
\* early return of the four main functions and the catch blocks around
\* them: when a run ends, its exit code is 0 exactly when it met no error.
ExitStatusMatchesErrors ==
  pc = "exit" => (exit_code = 0 <=> errors = {})

\* csv2rdl --help says the output defaults to "<input>.rdl": the input file
\* with its extension replaced, next to the input.  This is about the
\* default name csv2rdl main derives when -o is not given.
DefaultRdlNameDocumented ==
  (tool = "csv2rdl" /\ option_output = <<>> /\ output_file # <<>>)
    => output_file = DocumentedRdlName(input_file)

=============================================================================
