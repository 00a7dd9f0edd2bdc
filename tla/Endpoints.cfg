\* Two endpoints with two names, three calls at a time, three versions.
\* When the tenant and every endpoint are deleted nothing is left to do.
SPECIFICATION Spec
CONSTANTS
  Endpoint = {e1, e2}
  EventType = {t1, t2}
  Name = {n1, n2}
  Call = {c1, c2, c3}
  MaxVersion = 3
  None = None
INVARIANTS TypeOK NamesDiffer
PROPERTIES DeletedForGood NoneAfterDeletion
CHECK_DEADLOCK FALSE
