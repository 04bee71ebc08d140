----------------------------- MODULE JsonSyntax -----------------------------
(***************************************************************************)
(* The JSON grammar (RFC 8259) over the token stream of JsonBuilder: a    *)
(* reader that consumes tokens left to right and builds the value they    *)
(* denote.  Objects are sequences of [key, value] members, arrays          *)
(* sequences of values, and a literal is known only by its kind.  This is *)
(* the reference the builder's output is read with; nothing here models   *)
(* toolkit code.                                                           *)
(***************************************************************************)
EXTENDS Naturals, Sequences, SequencesExt, Texts

JScalar(kind)    == [t |-> kind]
JObject(members) == [t |-> "object", members |-> members]
JArray(items)    == [t |-> "array", items |-> items]
Member(k, v)     == [key |-> k, value |-> v]

\* An open container: what has been read of it and what may come next.
Frame(t, expect) == [t |-> t, items |-> <<>>, key |-> "", expect |-> expect]

Fail(s) == [s EXCEPT !.ok = FALSE]

Top(s) == Last(s.stack)

\* A value may start here: at the top level before any value, after a key
\* in an object, or where an array expects an element.
ValueMayStart(s) ==
  IF s.stack = <<>> THEN s.result = <<>>
  ELSE \/ Top(s).t = "object" /\ Top(s).expect = "value"
       \/ Top(s).t = "array" /\ Top(s).expect \in {"item_or_close", "item"}

\* The value v has been read completely.
Complete(s, v) ==
  IF s.stack = <<>> THEN [s EXCEPT !.result = <<v>>]
  ELSE LET f == Top(s)
           g == IF f.t = "object"
                THEN [f EXCEPT !.items = Append(@, Member(f.key, v)),
                               !.expect = "comma_or_close"]
                ELSE [f EXCEPT !.items = Append(@, v), !.expect = "comma_or_close"]
       IN [s EXCEPT !.stack[Len(s.stack)] = g]

ReadToken(s, tk) ==
  IF ~s.ok THEN s
  ELSE CASE tk.tok = "comma" ->
              IF s.stack # <<>> /\ Top(s).expect = "comma_or_close"
              THEN [s EXCEPT !.stack[Len(s.stack)].expect =
                                IF Top(s).t = "object" THEN "member" ELSE "item"]
              ELSE Fail(s)
         [] tk.tok = "key" ->
              IF s.stack # <<>> /\ Top(s).t = "object"
                 /\ Top(s).expect \in {"member_or_close", "member"}
              THEN [s EXCEPT !.stack[Len(s.stack)].key = tk.key,
                             !.stack[Len(s.stack)].expect = "value"]
              ELSE Fail(s)
         [] tk.tok = "scalar" ->
              IF ValueMayStart(s) THEN Complete(s, JScalar(tk.kind)) ELSE Fail(s)
         [] tk.tok = "{" ->
              IF ValueMayStart(s)
              THEN [s EXCEPT !.stack = Append(@, Frame("object", "member_or_close"))]
              ELSE Fail(s)
         [] tk.tok = "[" ->
              IF ValueMayStart(s)
              THEN [s EXCEPT !.stack = Append(@, Frame("array", "item_or_close"))]
              ELSE Fail(s)
         [] tk.tok \in {"}", "]"} ->
              LET t == IF tk.tok = "}" THEN "object" ELSE "array"
              IN IF s.stack # <<>> /\ Top(s).t = t
                    /\ Top(s).expect \in {"member_or_close", "item_or_close",
                                          "comma_or_close"}
                 THEN Complete([s EXCEPT !.stack = Front(@)],
                               IF t = "object" THEN JObject(Top(s).items)
                               ELSE JArray(Top(s).items))
                 ELSE Fail(s)

\* Nothing read yet.
ReaderStart == [ok |-> TRUE, stack |-> <<>>, result |-> <<>>]

\* The reader r after it has gone on to read the tokens.
ReadOn(r, tokens) == SeqFold(ReadToken, r, tokens)

ReadJson(tokens) == ReadOn(ReaderStart, tokens)

\* The tokens are the beginning of some JSON text.
IsJsonPrefix(tokens) == ReadJson(tokens).ok

\* The reader has read one complete JSON text, and it denotes v.
HasReadJsonOf(r, v) == r.ok /\ r.stack = <<>> /\ r.result = <<v>>

\* The tokens are one complete JSON text, and it denotes v.
IsJsonOf(tokens, v) == HasReadJsonOf(ReadJson(tokens), v)


(***************************************************************************)
(* JSON values modulo the order of object members (the equality P5 of the *)
(* specification uses): an object is a function from its keys to values. *)
(***************************************************************************)
JMap(f) == [t |-> "object", map |-> f]

RECURSIVE Unordered(_)
Unordered(v) ==
  CASE v.t = "object" ->
         LET ms == v.members
         IN JMap([k \in {ms[i].key : i \in DOMAIN ms} |->
                   Unordered(ms[CHOOSE i \in DOMAIN ms : ms[i].key = k].value)])
    [] v.t = "array" -> JArray([i \in DOMAIN v.items |-> Unordered(v.items[i])])
    [] OTHER -> v


=============================================================================
