\* One request, one publisher, no fault.
SPECIFICATION Spec
CONSTANTS
  Tenant = {t1}
  Key = {k1}
  EventId = {e1}
  Request = {r1}
  Publisher = {p1}
  BatchSize = 1
  MaxFaults = 0
  None = None
INVARIANTS DeliveryServiceUnderstands
CHECK_DEADLOCK FALSE
