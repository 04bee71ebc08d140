---------------------------- MODULE MCToolFlows ----------------------------
(***************************************************************************)
(* Command lines for ToolFlows: input paths with and without a directory,  *)
(* an extension, and a dot in the directory name; templates named as in    *)
(* the renderer's documentation and not; -o given or not.                 *)
(***************************************************************************)
EXTENDS ToolFlows

MCPaths     == {Chars("r.c"), Chars("r"), Chars("d/r.c"), Chars("d.x/r"), Chars("./r")}
MCTemplates == {Chars("t_j2_h.j2"), Chars("d/t_j2_a.h.j2"), Chars("t.j2")}
MCOutputs   == {<<>>, Chars("o")}

=============================================================================
