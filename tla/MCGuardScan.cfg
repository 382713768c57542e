\* All texts of up to five or six symbols of each group.
CONSTANTS
  Texts <- MCTexts
SPECIFICATION Spec
CHECK_DEADLOCK FALSE
INVARIANTS
  MaskIsTheCode
  CountIsTheStatement
  VerdictFromWords
