\* A result, and two edits faster than the effects of the first.
CONSTANTS
  a = a
  m = m
  w = w
  d1 = d1
  q1 = q1
  Idle = Idle
  NoReq = NoReq
  NoText = NoText
  NoResult = NoResult
  NoError = NoError
  NoExport = NoExport
  Text = {a, m, w}
  Magic = {m}
  Refused = {w}
  Db = {d1}
  Req = {q1}
SPECIFICATION Spec
PROPERTIES
  EditKeepsResult
