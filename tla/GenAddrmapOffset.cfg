\* Conformant rows whose address maps sit at 0 and at 0x10.
CONSTANTS
  Inputs <- OffsetInputs
SPECIFICATION Spec
INVARIANT AbsoluteAddressesPreserved
\* generate() returns after the last row.
CHECK_DEADLOCK FALSE
