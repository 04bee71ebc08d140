# TLA+ models of the SystemRDL toolkit

This directory holds TLA+ specifications of the SystemRDL toolkit's own code
(`src/`), the TLC configurations that check them, and `PROJECT.json`. That file
lists the components, runs, mutants, the source lines every definition
models, the findings and the hazards.

## 1. The system

The source tree has these parts:

| Part | Source | State it keeps | Operations |
|---|---|---|---|
| CSV parser `CSVParser` | `src/unnamed/part_004` 13-382 | locals of `parse()`: `content`, `csv_lines`, `first_line`, `column_mapping`, `rows` | `parse`, `parse_csv_content`, `detect_delimiter`, `split_csv_line`, `trim`, `process_*`, `to_lower`, `levenshtein_distance`, `find_best_match`, `create_column_mapping`, `parse_row` |
| RDL generator `RDLGenerator` | `part_004` 385-518 | locals `current_addrmap`, `current_reg`, `in_reg`; members `current_addrmap_offset`, `current_reg_offset`; the output stream | `generate` (address-map, register and field branches, closing code), `format_address`, `escape_string`, `to_lower` |
| `csv2rdl` main | `part_004` 520-591 | input and output names | parse, then generate, then write; default output name |
| JSON output | `src/unnamed/part_006` | `JsonBuilder`: stream, `indent_level_`, `first_item_`, `is_array_stack_` | `start_object`/`end_object`, `start_array`/`end_array`, `add_*`; AST and elaborated-model converters; `get_default_json_filename` |
| Library API | `src/parser_main.cpp` 259-598, `src/systemrdl_api.h` | `ParseContext` (parser, token stream, error listener) | `parse`, `elaborate`, `csv_to_rdl` (a stub), `file::`, `stream::` wrappers |
| Command-line tools | `src/parser_main.cpp` 12-258, `src/elaborator_main.cpp` | none beyond a run | parse and print, elaborate and print, render a template |
| Example programs | `src/example/example.cpp` 18-128 (library example), 134-494 (API example) | `test_example.rdl` | the library example parses, elaborates and prints a file; the API example makes ten library calls |
| Elaborator core, ANTLR parser | not under `src/` | | |

The parts interact as follows. `csv2rdl` is the pipeline CSV file → `CSVParser::parse` → `std::vector<CSVRow>` →
`RDLGenerator::generate` → RDL text. `CSVRow` (part_004 13-27) is the
interface between the two. The parser, elaborator and renderer tools
use the ANTLR parser and the elaborator core, which live outside `src/`.
The JSON converters walk their results. The library API runs the same
parser and elaborator behind `Result`-returning calls, and converts with
its own nlohmann-based converters. `systemrdl_render` and the API example
are its clients.

### What is hard in this code

- The CSV parser splits records in two passes that must agree.
  `parse_csv_content` finds line ends while tracking quotes.
  `split_csv_line` then splits each line into cells, treating `""` as an
  escape. The delimiter is guessed again for every line from character counts.
- The RDL generator writes a register's name and address when the register
  is *closed*, using members that the next register overwrites. The
  address-map branch, the register branch and the code after the loop must
  close scopes in the right order.
- The text conversions (`format_address`, `to_lower`) decide the meaning
  of what is written.

## 2. Modules

| Module | Role |
|---|---|
| `Texts` | `Chars` (a string literal as a text) and `SeqFold`, a left fold that binds every intermediate accumulator to a value. |
| `RcsvSemantics` | Reference: what a row vector means by RCSV (`src/doc/RCSV.md`). It defines row types, the structure rules (`Conformant`), the register map the rows describe (`Denote`), and what numbers and access values mean. No code is modelled here. |
| `RcsvHierarchy` | Abstract specification of the conversion. The register map only grows at its end: an address map, a register in the last address map, or a field in the last register. |
| `RdlGenerator` | `RDLGenerator::generate`. There is one action per loop branch (`AddrmapDefinition`, `RegisterDefinition`, `FieldDefinition`, `SkipRow`) plus `CloseStructures`. The output is the sequence of RDL constructs. `ReadBack` reads them back the way a SystemRDL parser nests them. `Written` is the register map written so far. |
| `MCRdlGenerator` | Row vectors for TLC. |
| `Rfc4180` | Reference: how a table is written as CSV (RFC 4180). |
| `CsvParser` | `CSVParser::parse`. The helpers are operators translated from the code. The loop has the actions `ReadContent`, `ParseHeader`, `ParseDataRow` and `ReturnRows`. |
| `MCCsvParser` | CSV files written from small tables. An auxiliary variable `doc` keeps the table each file was written from. |
| `JsonSyntax` | Reference: a JSON reader over the builder's tokens (`{ } [ ] , key scalar`). `ReadToken` is one step of a pushdown reader. `HasReadJsonOf` says the reader has read exactly one given JSON value. |
| `JsonBuilder` | `JsonBuilder` (part_006 15-120). Its variables are `json_` (the tokens written), `indent_level_`, `first_item_` and `is_array_stack_`. There is one operator per method: `start_object`, `end_object`, `start_array`, `end_array`, `add_value`. `undefined` records a `pop_back` on an empty stack. |
| `JsonConverters` | The two converters as the sequence of builder calls they make for a tree: `convert_node` (AST), and `pre_visit`/`traverse`/`post_visit` (elaborated model). Next to each is the JSON value section 6 of the specification gives (`AstDocument`, `ElabDocument`). |
| `JsonOutput` | A converter driving a builder: one action per builder method, taking the next call from `calls`. `reader` is an observer that reads what each step appends. |
| `MCJsonOutput` | AST trees of depth up to 3, and elaborated trees with 0-2 array dimensions, up to 2 children and three property lists. |
| `FileNames` | The default output names, as operators over texts: `csv2rdl_output_name`, `get_default_json_filename`, and `render_output_name`. It has the `std::string` calls they use (`find_last_of`, `find`, `substr`, `npos`), with npos as the largest `size_t`. It also has the names the documentation gives. |
| `ToolFlows` | The `main` functions of `systemrdl_parser`, `systemrdl_elaborator`, `systemrdl_render`, `csv2rdl` and the library example (`example.cpp` 18-128). A run is a sequence of steps (`pc`), and each step can fail the way the code lets it. `errors` collects the errors met, and `exit_code` is the value `main` returns. |
| `ApiResult` | `Result` (`systemrdl_api.h` 15-44) and what the header promises: the answers each call may get (`Answers`), given its input (`Good`, `Document`). A call is a record of what the environment decides: whether the file opens, syntax errors, elaborator errors, a missing model, where something throws, and the tree. |
| `ApiContract` | Abstract specification of the API: a call is issued, answered in one step with one of `Answers(call)`, and taken. |
| `Api` | The API implementation (`parser_main.cpp` 270-598), one action per step: `Issue`, `FileOpen`, `StreamRead`, `ParseContext` (with the syntax check), `RunElaborator`, `ToJson` (converter, document, `dump`), `CsvToRdlStub`, `StreamWrite`, `ReturnResult`, `Take`. The converters `convert_ast_to_json`, `convert_property_to_json` and `convert_elaborated_node_to_json` are recursive operators. A JSON object is a function from keys (`JMap`), as nlohmann's std::map-backed objects are. `Answered` is the refinement mapping to `ApiContract`. |
| `ApiExample` | The API example's `main` (`example.cpp` 134-494) as the client of `Api`: its ten calls in order, the unchecked write of `test_example.rdl`, and each answer taken. |
| `MCApi` | Calls for TLC: three parse trees, three elaborated models (array dimensions 0-2, every property type, 0-2 children), and every outcome of opening, syntax, elaboration and throwing. |
| `MCToolFlows` | Input paths (with and without a directory, with a dot in a directory, a leading `./`), template names with and without `_j2_`, and `-o` given or not. |

Text is modelled as a sequence of one-character strings. Cells are texts over
small alphabets: a name, a digit string, a quote, a line break, a space and the
delimiters.

The following are left out, because no property reads them:

- formatting in the generator model: indentation, blank lines, the
  `name =`/`desc =` documentation lines, and `escape_string`;
- in the builder model, the whitespace and the characters of keys and
  values.

A JSON value is kept as its kind (string, number, bool). `JsonSyntax` also
has `JMap` and `Unordered`. `Unordered` turns a document of section 6 into
key-to-value functions, which compares documents up to member order.

## 3. Runs

| Run | Config | Expect | Checks |
|---|---|---|---|
| `gen_any_rows` | `GenAnyRows.cfg` | pass | `TypeOK`, `OutputWellFormed`, `RowsDescribed` and `ImplementsRcsvHierarchy`, for every sequence of up to 4 rows drawn from 8 kinds: two address maps, two registers, a field with range 7:4 and one without a range, a row with every column set, and a blank row. The RDL written nests correctly: no field outside a register, no register in a register, no `};` over an open register, and nothing left open at the end. `RdlGenerator` implements `RcsvHierarchy` under the mapping `tree <- Shape(Written)`: even for malformed rows, the register map written only grows at its end. `RowsDescribed`: for the sequences that follow the RCSV structure rules, the written map has the names, nesting, order, bit ranges and reset values the rows describe, in every state, the open register included. |
| `gen_decimal_offset` | `GenDecimalOffset.cfg` | violation | `RegisterAddressesPreserved`: reg_offset `16` is written `@ 0x16`. |
| `gen_addrmap_offset` | `GenAddrmapOffset.cfg` | violation | `AbsoluteAddressesPreserved`: an address map at `0x10` holding a register at `0x4` is written without its offset, so the register lands at `0x4` instead of `0x14`. |
| `csv_plain` | `CsvPlain.cfg` | pass | `TypeOK` and `RowsRecovered`: every file written by RFC 4180 from a table of up to 2 records parses back into the rows the table describes. Quoted quotes, line breaks and the file's own delimiter appear inside cells. Each file is written with and without a final line break, with `,` and with `;`, and under exact, cased (`Reg_Name`), abbreviated (`desc`) and misspelt (`field_nam`) headers. |
| `csv_mixed` | `CsvMixed.cfg` | violation | `RowsRecovered`: a `;` file whose description cell is a plain `,` (unquoted) has one semicolon and one comma on the line. The tie picks `,`, and the cells come out wrong. |
| `json_ast` | `JsonAst.cfg` | pass | `TypeOK` (`indent_level_` is the depth of `is_array_stack_`) and `JsonWellFormed`. The AST converter on every tree of depth up to 3, childless rules included, and the elaborated converter on nodes without properties, write text that is at every step a prefix of JSON, and the finished text is one JSON value. Whether it is the document section 6 describes is `JsonRoundTrip`, which fails on a childless rule (see the hazard at parser_main.cpp:313). |
| `json_elab_props` | `JsonElabProps.cfg` | violation | `JsonRoundTrip`: a node with properties gets an unkeyed `{` after a comma inside its own object, which is not JSON. |
| `tools_exit` | `ToolsExit.cfg` | violation | `ExitStatusMatchesErrors` over `systemrdl_elaborator`, `systemrdl_render` and `csv2rdl`: `csv2rdl` opens its output, the write fails, and `main` returns 0. |
| `all_tools_failures` | `AllToolsFailures.cfg` | pass | `NoOutputFromFailedRun`: no run of the four tools or the library example that returns 1 leaves an output file. This covers every step's outcomes, help alone and with other arguments, and failed writes. |
| `parser_exit` | `ParserExit.cfg` | violation | `ExitStatusMatchesErrors`: `systemrdl_parser` reports syntax errors and returns 0. |
| `api_calls` | `ApiCalls.cfg` | pass | `ImplementsApiContract`: `Api`, driven by the API example, implements `ApiContract` under `answer <- Answered`. Every call, through every outcome of opening, syntax check, elaboration and exceptions, answers as `systemrdl_api.h` promises. It succeeds exactly when it should, and a successful parse or elaborate carries the section-6 document of its input, up to member order. |
| `csv2rdl_default_name` | `Csv2RdlName.cfg` | violation | `DefaultRdlNameDocumented`: for `./r`, the last `.` is the directory's, and the default output is `.rdl`, not `./r.rdl`. |

Each property of a passing run has a mutant in `PROJECT.json` that TLC
catches:

| Run / property | Mutant |
|---|---|
| `gen_any_rows` `TypeOK` | closing before the last row |
| `gen_any_rows` `OutputWellFormed` | the address-map branch leaves `in_reg` set |
| `gen_any_rows` `RowsDescribed` | a field's range is written as `[lsb:msb]` |
| `gen_any_rows` `ImplementsRcsvHierarchy` | the register branch closes the old register under the new name |
| `csv_plain` `TypeOK` | `find_best_match` returns 1-based indices |
| `csv_plain` `RowsRecovered` | `split_csv_line` without the `""` escape |
| `json_ast` `TypeOK` | `end_array` leaves `indent_level_` |
| `json_ast` `JsonWellFormed` | `start_object` writes no separator |
| `all_tools_failures` `NoOutputFromFailedRun` | `systemrdl_render` opens its output before rendering the template |
| `api_calls` `ImplementsApiContract` | `elaborate` does not look at the elaborator's error list |

### Bounds

- **Generator, `gen_any_rows`:** 4 rows are enough to put every row kind
  after every other kind and to take every branch after every other. This
  includes a field row before any register and a mixed row after an open
  register.
  Among these sequences, the conformant ones include two address maps, a
  second register after a field (the name written at the close comes from
  `current_reg`), and a field whose range tells `[msb:lsb]` from `[lsb:msb]`.
- **Generator, `gen_addrmap_offset` and `gen_decimal_offset`:** up to 3 and
  5 conformant rows, with address maps at 0 and 0x10 and with hexadecimal
  and decimal register offsets.
- **Parser:** cells of up to 2 characters and up to 2 records after the
  header. This is enough to put `""`, a line break or a delimiter inside a
  quoted cell, two records around such a cell, and a cell that ends in a
  quote.
- **JSON:** depth 3 and up to 2 children reach every pattern that places a
  comma:
  - an object inside an array inside an object inside an array;
  - a first and a later sibling;
  - a rule without children, for which the converters write no
    `"children"` member;
  - terminals.

  Array dimensions 0-2 reach the array of `{size}` objects, both empty and
  with more than one element. The property lists reach none, one and two
  properties, and every value type.
- **Tools:** each step chooses every outcome the code distinguishes. The paths
  include the cases where `find_last_of` and `find` return npos, a dot in a
  directory, and a template with and without `_j2_`.
- **API, `api_calls`:** the example's ten calls, each over every input
  `MCApi` allows for its entry point. These reach every early return and
  catch of every entry point, and both converters on trees that take every
  optional section both ways. They also reach both outcomes of the
  test-file write before the two `file::` calls.
- **Performance note:** folds use `SeqFold`, which hands the accumulator on
  inside a singleton set. TLC then evaluates each step once, even under a
  prime, which the refinement check in `gen_any_rows` needs. The JSON text is read incrementally by
  `reader`, so no state re-reads the whole text.

### Fairness

One liveness promise is checked. `ApiContract!LiveSpec` says every call is
answered (`WF` of `Answer`): every entry point returns. `api_calls` checks
it as part of `ImplementsApiContract`, under `WF` of the example's whole
next-state relation. That fairness is what the code gives. `main` is one
thread, and the library runs on the caller's thread. Its streams are
`std::istringstream`/`std::ostringstream` and its file is local, so no step
waits on anything: an enabled step is eventually taken. A `stream::` call
reading a stream that never ends (an interactive `std::cin`) would not
return, and the contract does not hold for such a caller. A mutant whose
`stream::` wrapper never returns after an error breaks only the liveness
part, and TLC reports it.

The other models check no liveness. Every other modelled function is a
sequential loop over a finite input, or a straight-line `main`, and it terminates. Every
config says `CHECK_DEADLOCK FALSE`, with the reason: the function returns, and
its final states (`done`, `pc = "done"`, `calls = <<>>`, `pc = "exit"`, and
the API example after its tenth answer) are those returns. No code in `src/` runs concurrently. There are no threads or
callbacks, so interleavings are not a hazard here.

## 4. Findings

1. **`format_address` (part_004:494) corrupts decimal offsets.** RCSV allows
   decimal offsets, but `16` becomes `0x16`. This is a code bug.
2. **`detect_delimiter` runs for every line (part_004:62).** It counts
   characters inside quotes. The comment above the call says the delimiter
   comes from the first line. Files whose descriptions mention the other
   delimiter often enough are misparsed.
3. **The elaborated converter writes its properties without a key
   (part_006:223).** It calls `start_object()` instead of
   `start_object("properties")`, and the builder writes a separator first.
   Every node with properties therefore gives `..., {"_section": ...}` inside
   an object, which no JSON parser accepts, and the specification's
   `"properties"` member is missing.
4. **`systemrdl_parser` returns 0 on syntax errors (parser_main.cpp:106).**
   It prints them and goes on. The specification says every tool exits 1 on a
   syntax error.
5. **`generate` drops the address map's offset (part_004:409).** The offset
   is stored in `current_addrmap_offset`, and nothing writes it. The address
   map is written as a plain definition, which SystemRDL places at 0. RCSV
   9.1 says a register's absolute address is `addrmap_offset + reg_offset`.
6. **The `csv2rdl` default name (part_004:549) cuts at the last `.` of the
   whole path.** `./r` and `d.x/r` lose their file name, and `.rdl` or
   `d.rdl` is written instead of a name next to the input.
7. **`csv2rdl` and `systemrdl_render` do not check their write
   (part_004:579-580, parser_main.cpp:243-244).** Only the open is checked.
   A failing `<<` (a full disk) leaves a truncated file, and `main` returns 0.
   The specification says every tool exits 1 on an I/O error. `tools_exit`
   shows it for `csv2rdl`.

The model also has the `argc == 2` test of both tools' help handling
(parser_main.cpp:145, part_004:530). Help given alone returns 0. Help given
with other arguments returns 1, and the model counts that as a usage error.

Not run, kept as hazards in `PROJECT.json`:

- `systemrdl::csv_to_rdl` (parser_main.cpp:462-478) is a stub. It succeeds
  with an empty address map for any CSV, although the header says it
  converts. `ApiContract` keeps RDL text abstract, so no run tells the two
  apart.
- The API writes properties into a std::map-backed object
  (parser_main.cpp:379), so they come out sorted by name. Section 6 says
  insertion order is kept. `ImplementsApiContract` compares up to member
  order.
- The API's `convert_ast_to_json` (parser_main.cpp:313) and the CLI
  converter (part_006:143) write no `"children"` for a rule without
  children. Section 6 gives every AST rule node a `children` array.
  `JsonRoundTrip` over `MCJsonOutput`'s trees fails on `Rule(<<>>)`, but no
  run slot is left for it. `json_ast` checks those trees for well-formed JSON
  only, and `MCApi` has no such tree.
- The library example (example.cpp:46) never checks syntax errors, and can
  return 0 after them, as `systemrdl_parser` does.

- `generate` writes `sw = ro`/`wo` (part_004:449), where the RCSV mapping
  table says `r`/`w`. The RCSV example in 13.3 itself shows `ro`, so the
  specification does not settle this.
- `get_default_json_filename` (part_006:288) keeps the extension of a path
  without a slash, because its `last_dot > last_slash` comparison is false
  when `last_slash` is npos: `r.c` gives `r.c_ast.json`. No code under
  `src/` calls it.

## 5. Not modelled, and the plan

`PROJECT.json` has room for at most 12 runs, and all 12 are used. New
questions have to share a run with an existing one whose cfg and bounds suit
them, or replace a weaker one.

Modules still to write, in order:

1. **`CsvToRdl`.** Composes `CsvParser` and `RdlGenerator` (INSTANCE) for the
   `csv2rdl` main. It would check the end-to-end meaning of a CSV file. The
   lost `addrmap_offset` is already shown by `gen_addrmap_offset`.
2. **`HeaderMatch`.** `find_best_match` over misspelt headers: collisions
   (part_004:302) and ties at equal distance (part_004:267, where
   `reg_type` becomes `reg_name` and `field_xsb` becomes `field_lsb`). Checking
   `levenshtein_distance` against the recursive definition of edit distance
   cannot share `csv_plain`. TLC rejects a constant formula as an INVARIANT or
   PROPERTY, and a state predicate would be evaluated again in each of that
   run's thousands of initial states. So this needs a run of its own, with one
   initial state per pair of words.

Each of these needs a run slot. A third candidate for a slot is the
`JsonRoundTrip` run over childless rules. Every slot is used for a run
that shows a different finding or checks a passing property.

Not modelled at all:

- the ANTLR-generated lexer and parser (generated code);
- the Inja template engine (third-party);
- printing and JSON whitespace (pure output);
- the test script (`part_003`; a shell driver of the tools);
- `printAST` (parser_main.cpp:12-73) and `ElaboratedModelPrinter`
  (elaborator_main.cpp:13-98): console printers whose only state is the
  indentation depth;
- the elaborator core. It is not under `src/`. Every run slot is used by
  code that is, and its outcomes (errors, a missing model, an exception)
  are inputs of `Api` and `ToolFlows`;
- the printing of the example programs (output only);
- the RCSV columns `onread` and `onwrite` (RCSV.md 7). `standard_columns`
  (part_004:82) has no slot for them, so `find_best_match` drops them
  (hazard part_004:273) and no model row can carry them.
