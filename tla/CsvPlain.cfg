\* Files whose quoted cells hold quotes, line breaks and the file's own
\* delimiter, under exact, cased, abbreviated and misspelt headers.
CONSTANTS
  Documents <- PlainDocuments
  Files <- DocFiles
SPECIFICATION MCSpec
INVARIANT TypeOK
INVARIANT RowsRecovered
\* parse() returns after the last logical line.
CHECK_DEADLOCK FALSE
