\* A limit of three bytes for a request and two for the discovery document.
CONSTANTS
  Environments <- MCEnvironments
  Requests <- MCRequests
  BadIds = {"a b"}
  MaxBody = 2
  MaxRequest = 3
SPECIFICATION Spec
CHECK_DEADLOCK FALSE
INVARIANTS
  ServesOneSource
  IdsNameTheirDatabase
  DocumentIsWhole
  AccessAsConfigured
  OneWholeMessage
