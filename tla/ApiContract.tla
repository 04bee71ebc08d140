---------------------------- MODULE ApiContract ----------------------------
(***************************************************************************)
(* Abstract specification of the library API (src/systemrdl_api.h): a    *)
(* client issues a call, the library answers it in one step with one of  *)
(* the answers ApiResult allows for it, and the client takes the answer. *)
(***************************************************************************)
EXTENDS ApiResult

CONSTANT Calls          \* the calls clients may make

VARIABLES call, answer

Init == call = NoCall /\ answer = NoAnswer

Issue == call = NoCall /\ call' \in Calls /\ UNCHANGED answer

Answer == call # NoCall /\ answer = NoAnswer /\ answer' \in Answers(call) /\ UNCHANGED call

Take == answer # NoAnswer /\ call' = NoCall /\ answer' = NoAnswer

Next == Issue \/ Answer \/ Take

Spec == Init /\ [][Next]_<<call, answer>>

\* Every entry point returns: a call issued is answered (the Result is
\* returned, or the stream:: function returns its bool).
LiveSpec == Spec /\ WF_<<call, answer>>(Answer)

=============================================================================
