\* ToolFlows for the four tools and the library example.
CONSTANTS
  Tools = {"parser", "elaborator", "render", "csv2rdl", "example"}
  Paths <- MCPaths
  Templates <- MCTemplates
  Outputs <- MCOutputs
SPECIFICATION Spec
INVARIANT NoOutputFromFailedRun
\* main returns its exit code.
CHECK_DEADLOCK FALSE
