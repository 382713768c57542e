\* Two texts a query can be, a magic one and a refused one; two databases; two requests.
CONSTANTS
  a = a
  b = b
  m = m
  w = w
  d1 = d1
  d2 = d2
  q1 = q1
  q2 = q2
  Idle = Idle
  NoReq = NoReq
  NoText = NoText
  NoResult = NoResult
  NoError = NoError
  NoExport = NoExport
  Text = {a, b, m, w}
  Magic = {m}
  Refused = {w}
  Db = {d1, d2}
  Req = {q1, q2}
SPECIFICATION Spec
SYMMETRY Symmetry
INVARIANTS
  FreshView
  LockedWhileWorking
  EditorMatchesUrl
PROPERTIES
  ExportOfQueryResult
