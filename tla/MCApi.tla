------------------------------- MODULE MCApi -------------------------------
(***************************************************************************)
(* Calls for checking Api with the example program as its client.         *)
(***************************************************************************)
EXTENDS ApiExample

\* Parse trees: a terminal, a rule over one terminal, and a rule over a
\* terminal and a rule.
Terminal == [kind |-> "terminal"]
Rule(cs) == [kind |-> "rule", children |-> cs]
MCAstTrees == {Terminal, Rule(<<Terminal>>), Rule(<<Terminal, Rule(<<Terminal>>)>>)}

\* Elaborated models: an address map with an array dimension and
\* properties of every PropertyValue type (an enum and a type the
\* converter does not know included) over a leaf register, and a bare
\* leaf.
Node(d, ps, cs) == [dims |-> d, props |-> ps, children |-> cs]
Prop(name, type) == [name |-> name, type |-> type]
Leaf == Node(0, <<>>, <<>>)
MCElabTrees ==
  {Leaf,
   Node(1, <<Prop("desc", "STRING"), Prop("regwidth", "INTEGER"),
             Prop("hw_readable", "BOOLEAN")>>, <<Leaf>>),
   Node(2, <<Prop("sw", "ENUM"), Prop("custom", "OTHER")>>, <<Leaf, Leaf>>)}

NoTree == [kind |-> "csv"]

Call(fn, via, opened, syntax, throws, elab_errors, model, tree) ==
  [fn |-> fn, via |-> via, opened |-> opened, syntax |-> syntax, throws |-> throws,
   elab_errors |-> elab_errors, model |-> model, tree |-> tree]

Vias == {"string", "file", "stream"}

AnyCalls ==
  {Call("parse", v, o, s, th, FALSE, TRUE, t)
     : v \in Vias, o \in BOOLEAN, s \in BOOLEAN,
       th \in {"none", "context", "dump"}, t \in MCAstTrees}
  \cup
  {Call("elaborate", v, o, s, th, e, m, t)
     : v \in Vias, o \in BOOLEAN, s \in BOOLEAN,
       th \in {"none", "context", "elaborator", "dump"}, e \in BOOLEAN,
       m \in BOOLEAN, t \in MCElabTrees}
  \cup
  {Call("csv_to_rdl", v, o, FALSE, "none", FALSE, TRUE, NoTree)
     : v \in Vias, o \in BOOLEAN}

\* opened only matters to file:: calls.
MCCalls == {c \in AnyCalls : c.via = "file" \/ c.opened}

=============================================================================
