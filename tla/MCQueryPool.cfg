\* Two handlers on two connections.
CONSTANTS
  r1 = r1
  r2 = r2
  c1 = c1
  c2 = c2
  NoRequest = NoRequest
  Request = {r1, r2}
  Conn = {c1, c2}
SPECIFICATION FairSpec
INVARIANTS
  TypeOK
  OneConnectionPerRequest
  NothingHeldAfterAnswer
  SlotHeldByLiveExport
PROPERTIES
  LendsCleanSessions
  EveryRequestAnswered
