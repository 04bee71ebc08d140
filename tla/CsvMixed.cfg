\* Files whose quoted descriptions hold the other delimiter character.
CONSTANTS
  Documents <- MixedDocuments
  Files <- DocFiles
SPECIFICATION MCSpec
INVARIANT RowsRecovered
\* parse() returns after the last logical line.
CHECK_DEADLOCK FALSE
