\* ToolFlows for {"csv2rdl"}.
CONSTANTS
  Tools = {"csv2rdl"}
  Paths <- MCPaths
  Templates <- MCTemplates
  Outputs <- MCOutputs
SPECIFICATION Spec
INVARIANT DefaultRdlNameDocumented
\* main returns its exit code.
CHECK_DEADLOCK FALSE
