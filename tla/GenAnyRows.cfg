\* Arbitrary rows, malformed ones included: the written RDL always nests,
\* and the register map it describes only grows at its end.
CONSTANTS
  Inputs <- AnyInputs
SPECIFICATION Spec
INVARIANT TypeOK
INVARIANT OutputWellFormed
INVARIANT RowsDescribed
PROPERTY ImplementsRcsvHierarchy
\* generate() returns after the last row.
CHECK_DEADLOCK FALSE
