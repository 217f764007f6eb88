SPECIFICATION Spec
CONSTANTS
  Typed <- Forms
  Raw <- OddTexts
  MaxTries = 2
INVARIANTS TypeOK PageMeansRow RetryStoresOnce RowsAsTyped DecodesOnce
\* The client stops when it has its page, or has tried often enough.
CHECK_DEADLOCK FALSE
