SPECIFICATION FairSpec
CONSTANTS
  Bytes = {x}
  CR = cr
  LF = lf
  MaxLen = 3
PROPERTY CrLineReturned
CHECK_DEADLOCK FALSE
