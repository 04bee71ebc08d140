---------------------------- MODULE MCJsonOutput ----------------------------
(***************************************************************************)
(* Small inputs for the two converters of JsonOutput.                      *)
(***************************************************************************)
EXTENDS JsonOutput

\* Parse trees of depth at most 3 whose rules have up to two children (a
\* rule that matched nothing has none).
Terminal     == [kind |-> "terminal"]
Rule(cs)     == [kind |-> "rule", children |-> cs]
RulesOver(S) == {Rule(cs) : cs \in BoundedSeq(S, 2)}
AstTrees2    == {Terminal} \cup RulesOver({Terminal})
AstTrees     == {Terminal} \cup RulesOver(AstTrees2)

\* Elaborated nodes: up to two array dimensions, no property, one, or two
\* of different types, and up to two children.
Prop(name, type) == [name |-> name, type |-> type]
PropertyLists ==
  {<<>>, <<Prop("regwidth", "INTEGER")>>,
   <<Prop("desc", "STRING"), Prop("hw_readable", "BOOLEAN")>>}
Node(d, ps, cs) == [dims |-> d, props |-> ps, children |-> cs]
ElabTreesWith(props, dims) ==
  LET leaves == {Node(d, ps, <<>>) : d \in dims, ps \in props}
  IN {Node(d, ps, cs) : d \in 0 .. 1, ps \in props, cs \in BoundedSeq(leaves, 2)}

AstJobs        == {[converter |-> "ast", tree |-> t] : t \in AstTrees}
\* Nodes without properties.
ElabPlainJobs  == {[converter |-> "elaborated", tree |-> t]
                     : t \in ElabTreesWith({<<>>}, 0 .. 2)}
\* Nodes that may carry properties.
ElabPropJobs   == {[converter |-> "elaborated", tree |-> t]
                     : t \in ElabTreesWith(PropertyLists, 0 .. 1)}

AstAndPlainJobs == AstJobs \cup ElabPlainJobs

=============================================================================
