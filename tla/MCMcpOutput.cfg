\* Every output of up to four items with lengths around the limit.
CONSTANTS
  Limit = 4
  Totals <- MCTotals
  Lengths <- MCLengths
SPECIFICATION OutputFairSpec
CHECK_DEADLOCK FALSE
INVARIANTS
  TypeOK
  AnswerIsBest
  OmissionIsTold
PROPERTIES
  SearchEnds
