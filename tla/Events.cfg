\* Three requests on two keys, two publishers, two faults.
SPECIFICATION FairSpec
CONSTANTS
  Tenant = {t1}
  Key = {k1, k2}
  EventId = {e1, e2}
  Request = {r1, r2, r3}
  Publisher = {p1, p2}
  BatchSize = 2
  MaxFaults = 2
  None = None
INVARIANTS TypeOK OneEventPerKey AcceptedIsStored CopiesNeedFaults
PROPERTIES ImplementsService EventuallyPublished
CHECK_DEADLOCK FALSE
