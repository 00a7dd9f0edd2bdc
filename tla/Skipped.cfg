\* One transient error.
SPECIFICATION PipelineSpec
CONSTANTS
  Endpoint = {p1}
  EventType = {t1}
  Message <- MCMessage
  Poison = {}
  Event = {e1}
  TypeOf <- MCTypeOf
  MaxLog = 2
  MaxEvents = 0
  MaxErrors = 1
  MaxRestarts = 1
INVARIANTS FailedIsRedelivered
CHECK_DEADLOCK FALSE
