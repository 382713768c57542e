\* Two databases and two handlers, with fairness; the process stops for good at its end.
CONSTANTS
  N = 2
  Handler = {h1, h2}
SPECIFICATION FairSpec
CHECK_DEADLOCK FALSE
INVARIANTS
  TypeOK
  ExitLeavesNothingOpen
  ServedInFull
PROPERTIES
  SignalEndsProcess
