\* Rows following the RCSV structure rules.
CONSTANTS
  Inputs <- ConformantInputs
SPECIFICATION Spec
INVARIANT RegisterAddressesPreserved
\* generate() returns after the last row.
CHECK_DEADLOCK FALSE
