\* ToolFlows for {"elaborator", "render", "csv2rdl"}.
CONSTANTS
  Tools = {"elaborator", "render", "csv2rdl"}
  Paths <- MCPaths
  Templates <- MCTemplates
  Outputs <- MCOutputs
SPECIFICATION Spec

INVARIANT ExitStatusMatchesErrors
\* main returns its exit code.
CHECK_DEADLOCK FALSE
