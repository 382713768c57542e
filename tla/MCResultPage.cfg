\* Pages of at most two rows of a table of three; one write by somebody else.
CONSTANTS
  a = a
  b = b
  s = s
  beginning = beginning
  Value = {a, b, s}
  Size <- MCSize
  Preview <- MCPreview
  PreviewSize = 4
  Columns = 2
  Row <- MCRow
  RowCap = 2
  Limits <- MCLimits
  Skeleton = 3
  Names = 2
  Optional = 2
  Digits <- MCDigits
  ElapsedRoom = 3
  Elapsed = {1, 2}
  RefSize = 5
  MaxRows = 3
  MaxChanges = 1
SPECIFICATION Spec
CHECK_DEADLOCK FALSE
INVARIANTS
  AnswerWithinLimit
  CutsAreTold
  OpenedIsWhatWasCut
  FileIsOneSnapshot
