\* ToolFlows for {"parser"}.
CONSTANTS
  Tools = {"parser"}
  Paths <- MCPaths
  Templates <- MCTemplates
  Outputs <- MCOutputs
SPECIFICATION Spec
INVARIANT ExitStatusMatchesErrors
\* main returns its exit code.
CHECK_DEADLOCK FALSE
