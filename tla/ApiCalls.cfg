\* The example program's ten calls through the library, on every outcome
\* of the parser and the elaborator for its inputs.
CONSTANTS
  Calls <- MCCalls
SPECIFICATION ExampleSpec
PROPERTY ImplementsApiContract
\* main returns 0 after its last call.
CHECK_DEADLOCK FALSE
