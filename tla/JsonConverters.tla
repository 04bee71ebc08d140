---------------------------- MODULE JsonConverters ----------------------------
(***************************************************************************)
(* The two converters of json_output.h (src/unnamed/part_006, lines        *)
(* 122-260) as the sequences of JsonBuilder calls they make for a tree.    *)
(*                                                                         *)
(* A parse tree node is [kind |-> "rule", children |-> <<...>>] or         *)
(* [kind |-> "terminal"].  An elaborated node is [dims |-> n, props |->    *)
(* <<[name, type], ...>>, children |-> <<...>>]: n array dimensions, the   *)
(* node's properties with their PropertyValue types, and its children.    *)
(*                                                                         *)
(* Next to each converter is the JSON value section 6 of the specification *)
(* says it produces (the reference).                                       *)
(***************************************************************************)
EXTENDS Naturals, Sequences, SequencesExt, JsonSyntax

\* Builder calls.
SO          == [op |-> "start_object"]
EO          == [op |-> "end_object"]
SA(key)     == [op |-> "start_array", key |-> key]
EA          == [op |-> "end_array"]
AV(key, kind) == [op |-> "add_value", key |-> key, kind |-> kind]

Str == "string"
Num == "number"

(***************************************************************************)
(* ASTToJsonConverter (part_006:123-176).                                  *)
(***************************************************************************)
RECURSIVE convert_node(_)
convert_node(n) ==
  IF n.kind = "rule"
  THEN <<SO, AV("type", Str), AV("rule_name", Str), AV("text", Str),
         AV("start_line", Num), AV("start_column", Num),
         AV("stop_line", Num), AV("stop_column", Num)>>
       \o (IF Len(n.children) > 0
           THEN <<SA("children")>>
                \o FlattenSeq([c \in DOMAIN n.children |-> convert_node(n.children[c])])
                \o <<EA>>
           ELSE <<>>)
       \o <<EO>>
  ELSE <<SO, AV("type", Str), AV("text", Str), AV("line", Num), AV("column", Num), EO>>

AstConvertCalls(tree) ==
  <<SO, AV("format", Str), AV("version", Str), SA("ast")>>
  \o convert_node(tree) \o <<EA, EO>>

\* Section 6, "AST JSON".
RECURSIVE AstNodeJson(_)
AstNodeJson(n) ==
  IF n.kind = "rule"
  THEN JObject(<<Member("type", JScalar(Str)), Member("rule_name", JScalar(Str)),
                 Member("text", JScalar(Str)), Member("start_line", JScalar(Num)),
                 Member("start_column", JScalar(Num)), Member("stop_line", JScalar(Num)),
                 Member("stop_column", JScalar(Num)),
                 Member("children", JArray([c \in DOMAIN n.children |->
                                              AstNodeJson(n.children[c])]))>>)
  ELSE JObject(<<Member("type", JScalar(Str)), Member("text", JScalar(Str)),
                 Member("line", JScalar(Num)), Member("column", JScalar(Num))>>)

AstDocument(tree) ==
  JObject(<<Member("format", JScalar(Str)), Member("version", JScalar(Str)),
            Member("ast", JArray(<<AstNodeJson(tree)>>))>>)

(***************************************************************************)
(* ElaboratedModelToJsonConverter (part_006:179-260).                      *)
(***************************************************************************)
\* The literal kind each PropertyValue type is written as.
write_property(name, type) ==
  AV(name, CASE type = "INTEGER" -> Num
             [] type = "BOOLEAN" -> "bool"
             [] OTHER            -> Str)

pre_visit(n) ==
  <<SO, AV("node_type", Str), AV("inst_name", Str),
    AV("absolute_address", Str), AV("size", Num)>>
  \o (IF n.dims > 0
      THEN <<SA("array_dimensions")>>
           \o FlattenSeq([d \in 1 .. n.dims |-> <<SO, AV("size", Num), EO>>])
           \o <<EA>>
      ELSE <<>>)
  \o (IF n.props # <<>>
      THEN <<SO, AV("_section", Str)>>
           \o [p \in DOMAIN n.props |-> write_property(n.props[p].name, n.props[p].type)]
           \o <<EO>>
      ELSE <<>>)
  \o (IF Len(n.children) > 0 THEN <<SA("children")>> ELSE <<>>)

post_visit(n) == (IF Len(n.children) > 0 THEN <<EA>> ELSE <<>>) \o <<EO>>

\* ElaboratedModelTraverser::traverse: pre_visit, the children in order,
\* post_visit.
RECURSIVE traverse(_)
traverse(n) ==
  pre_visit(n)
  \o FlattenSeq([c \in DOMAIN n.children |-> traverse(n.children[c])])
  \o post_visit(n)

ElabConvertCalls(root) ==
  <<SO, AV("format", Str), AV("version", Str), SA("model")>>
  \o traverse(root) \o <<EA, EO>>

\* Section 6, "Output: elaborated model and its JSON form": the optional
\* sections are present exactly when non-empty.
PropertyKind(type) == CASE type = "INTEGER" -> Num [] type = "BOOLEAN" -> "bool"
                        [] OTHER -> Str
RECURSIVE ElabNodeJson(_)
ElabNodeJson(n) ==
  JObject(<<Member("node_type", JScalar(Str)), Member("inst_name", JScalar(Str)),
            Member("absolute_address", JScalar(Str)), Member("size", JScalar(Num))>>
          \o (IF n.dims > 0
              THEN <<Member("array_dimensions",
                            JArray([d \in 1 .. n.dims |->
                                      JObject(<<Member("size", JScalar(Num))>>)]))>>
              ELSE <<>>)
          \o (IF n.props # <<>>
              THEN <<Member("properties",
                            JObject([p \in DOMAIN n.props |->
                                       Member(n.props[p].name,
                                              JScalar(PropertyKind(n.props[p].type)))]))>>
              ELSE <<>>)
          \o (IF Len(n.children) > 0
              THEN <<Member("children", JArray([c \in DOMAIN n.children |->
                                                  ElabNodeJson(n.children[c])]))>>
              ELSE <<>>))

ElabDocument(root) ==
  JObject(<<Member("format", JScalar(Str)), Member("version", JScalar(Str)),
            Member("model", JArray(<<ElabNodeJson(root)>>))>>)

=============================================================================
