SPECIFICATION FairSpec
CONSTANTS
  Bytes = {x}
  CR = cr
  LF = lf
  MaxLen = 5
INVARIANTS TypeOK LinesOfStream HeadersEndAtBlank
PROPERTY LfLineReturned
