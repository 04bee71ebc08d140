------------------------------ MODULE FileNames ------------------------------
(***************************************************************************)
(* The default file names the tools derive from their inputs, translated   *)
(* from the std::string calls that compute them.                           *)
(*                                                                         *)
(* A path is a text (a sequence of one-character strings, see Texts).      *)
(* Positions are 0-based, as in std::string, and NPOS is std::string::npos, *)
(* the largest size_t, written -1 (its value as a signed number).  The only *)
(* arithmetic these functions do on npos is npos + 1, which wraps to 0     *)
(* (SizeSucc), and comparisons, where npos is above every position         *)
(* (SizeGreater).                                                          *)
(***************************************************************************)
EXTENDS Integers, Sequences, SequencesExt, Texts

NPOS == -1

SizeSucc(x) == x + 1

SizeGreater(x, y) == CASE y = NPOS -> FALSE
                       [] x = NPOS -> TRUE
                       [] OTHER    -> x > y

\* std::string::find_last_of(chars): the last position holding one of chars.
FindLastOf(s, chars) ==
  LET at == {p \in 0 .. Len(s) - 1 : s[p + 1] \in chars}
  IN IF at = {} THEN NPOS ELSE Max(at)

\* std::string::find(t): the first position where t begins.
Find(s, t) ==
  LET at == {p \in 0 .. Len(s) - Len(t) : SubSeq(s, p + 1, p + Len(t)) = t}
  IN IF at = {} THEN NPOS ELSE Min(at)

\* std::string::substr(pos, n), for pos <= size; n = NPOS or past the end
\* takes the rest.
Substr(s, pos, n) ==
  IF n = NPOS \/ pos + n > Len(s) THEN SubSeq(s, pos + 1, Len(s))
  ELSE SubSeq(s, pos + 1, pos + n)

\* size_t subtraction a - b; a result below zero wraps to a value at least as
\* large as any string, which substr treats as "the rest".
SizeMinus(a, b) == IF a >= b THEN a - b ELSE NPOS

Slashes == {"/", "\\"}

(***************************************************************************)
(* csv2rdl main (part_004:545-554): cut the input at its last '.', add      *)
(* ".rdl".                                                                 *)
(***************************************************************************)
csv2rdl_output_name(input_file) ==
  LET dot_pos == FindLastOf(input_file, {"."})
  IN IF dot_pos # NPOS THEN Substr(input_file, 0, dot_pos) \o Chars(".rdl")
     ELSE input_file \o Chars(".rdl")

(***************************************************************************)
(* get_default_json_filename (part_006:276-293).                           *)
(***************************************************************************)
get_default_json_filename(input_file, suffix) ==
  LET last_slash == FindLastOf(input_file, Slashes)
      last_dot   == FindLastOf(input_file, {"."})
      basename   == IF last_slash # NPOS THEN Substr(input_file, last_slash + 1, NPOS)
                    ELSE input_file
      stem       == IF last_dot # NPOS /\ SizeGreater(last_dot, last_slash)
                    THEN Substr(basename, 0,
                                last_dot - (IF last_slash # NPOS THEN last_slash + 1 ELSE 0))
                    ELSE basename
  IN stem \o suffix \o Chars(".json")

(***************************************************************************)
(* systemrdl_render's output name (parser_main.cpp:208-234).               *)
(***************************************************************************)
render_output_name(rdl_file, template_file) ==
  LET rdl_base  == Substr(rdl_file, SizeSucc(FindLastOf(rdl_file, Slashes)), NPOS)
      dot_pos   == FindLastOf(rdl_base, {"."})
      rdl_stem  == IF dot_pos # NPOS THEN SubSeq(rdl_base, 1, dot_pos) ELSE rdl_base
      tmpl_base == Substr(template_file, SizeSucc(FindLastOf(template_file, Slashes)), NPOS)
      j2_pos    == Find(tmpl_base, Chars("_j2_"))
      start     == j2_pos + 4
      end       == Find(tmpl_base, Chars(".j2"))
      named     == j2_pos # NPOS /\ end # NPOS
  IN IF named
     THEN rdl_stem \o <<"_">> \o Substr(tmpl_base, start, SizeMinus(end, start))
     ELSE rdl_stem \o Chars("_rendered.txt")

(***************************************************************************)
(* References: the names the documentation gives.                           *)
(***************************************************************************)
\* The directory part of a path (up to and including its last slash), its
\* file name, and the file name without its extension, as
\* std::filesystem::path::stem defines it (a leading dot is not an
\* extension).
DirOf(p)  == LET s == FindLastOf(p, Slashes) IN IF s = NPOS THEN <<>> ELSE SubSeq(p, 1, s + 1)
BaseOf(p) == LET s == FindLastOf(p, Slashes) IN IF s = NPOS THEN p ELSE SubSeq(p, s + 2, Len(p))
StemOf(name) ==
  LET d == FindLastOf(name, {"."})
  IN IF d = NPOS \/ d = 0 \/ name \in {Chars("."), Chars("..")} THEN name
     ELSE SubSeq(name, 1, d)

\* README "JSON Output": "<input_basename>_ast.json", input.rdl giving
\* input_ast.json.
DocumentedJsonName(input_file, suffix) ==
  StemOf(BaseOf(input_file)) \o suffix \o Chars(".json")

\* csv2rdl --help: "Output RDL file (default: <input>.rdl)": the input file
\* with its extension replaced, in the input's directory.
DocumentedRdlName(input_file) ==
  DirOf(input_file) \o StemOf(BaseOf(input_file)) \o Chars(".rdl")

=============================================================================
