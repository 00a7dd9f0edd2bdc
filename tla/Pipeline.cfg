\* Two changes of two endpoints in any order, two events, an error and a
\* restart of either consumer.
SPECIFICATION PipelineSpec
CONSTANTS
  Endpoint = {p1, p2}
  EventType = {t1}
  Message <- MCMessage
  Poison <- MCPoison
  Event = {e1, e2}
  TypeOf <- MCTypeOf
  MaxLog = 2
  MaxEvents = 2
  MaxErrors = 1
  MaxRestarts = 1
SYMMETRY SymAll
INVARIANTS PipelineTypeOK NothingUnseen DeletedStaysOut CaughtUpIsCurrent OwedIsDelivered DeliveredWasListed
CHECK_DEADLOCK FALSE
