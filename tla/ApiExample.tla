---------------------------- MODULE ApiExample ----------------------------
(***************************************************************************)
(* The API example program (src/example/example.cpp:134-494) as the      *)
(* client of the library (Api): its main makes ten calls, in the order of *)
(* its seven examples, each on its own literal input, and prints what     *)
(* comes back; failures are printed and the program goes on.  Printing   *)
(* (the 200-character previews and the node counts of examples 2 and 3)  *)
(* is left out.                                                            *)
(*                                                                         *)
(* What the parser and the elaborator make of each literal is chosen from *)
(* Calls, except what the code itself settles: example 7's text is not    *)
(* SystemRDL, and the file of example 5 opens when it has been written.  *)
(***************************************************************************)
EXTENDS Api

VARIABLES
  step,          \* the number of calls main has made so far
  test_file      \* example 5's test_example.rdl: "none" before it is
                 \* written, then "written" or "failed"

example_vars == <<step, test_file>>

\* The entry point of each call, in program order (examples 1-7).
ExampleCalls ==
  << [fn |-> "parse", via |-> "string"], [fn |-> "elaborate", via |-> "string"],
     [fn |-> "elaborate", via |-> "string"], [fn |-> "csv_to_rdl", via |-> "string"],
     [fn |-> "parse", via |-> "file"], [fn |-> "elaborate", via |-> "file"],
     [fn |-> "parse", via |-> "stream"], [fn |-> "elaborate", via |-> "stream"],
     [fn |-> "parse", via |-> "string"], [fn |-> "elaborate", via |-> "string"] >>

\* Example 5 writes test_example.rdl before its two calls.
WriteBefore == 5

\* Example 7's input, "invalid SystemRDL syntax here!!!".
InvalidFrom == 9

\* c is a possible k-th call of main.
IsExampleCall(k, c) ==
  /\ c.fn = ExampleCalls[k].fn /\ c.via = ExampleCalls[k].via
  /\ k >= InvalidFrom => c.syntax
  /\ c.via = "file" /\ test_file = "written" => c.opened

ExampleInit == Init /\ step = 0 /\ test_file = "none"

\* Example 5 (example.cpp:377-388): the ofstream may fail to open, and
\* nothing checks that it did.
WriteTestFile ==
  /\ at = "idle" /\ step = WriteBefore - 1 /\ test_file = "none"
  /\ test_file' \in {"written", "failed"}
  /\ UNCHANGED <<vars, step>>

\* The next call of main.
CallNext ==
  /\ step < Len(ExampleCalls)
  /\ step + 1 = WriteBefore => test_file # "none"
  /\ \E c \in Calls : IsExampleCall(step + 1, c) /\ Issue(c)
  /\ step' = step + 1
  /\ UNCHANGED test_file

\* main prints the answer, whatever it is, and goes on.
TakeAnswer == Take /\ UNCHANGED example_vars

ExampleNext ==
  \/ WriteTestFile
  \/ CallNext
  \/ LibraryStep /\ UNCHANGED example_vars
  \/ TakeAnswer

\* main is one thread that never waits: its streams are string streams
\* and its file is local, so an enabled step is eventually taken.
ExampleSpec ==
  ExampleInit /\ [][ExampleNext]_<<vars, example_vars>>
  /\ WF_<<vars, example_vars>>(ExampleNext)

=============================================================================
