\* Two changes of one endpoint, one relay, one write that fails; nothing goes
\* wrong in the consumer.
SPECIFICATION ChangesSpec
CONSTANTS
  Endpoint = {p1}
  EventType = {t1}
  Message <- MCMessage
  Poison = {}
  Id = {1, 2}
  Relay = {r1}
  BatchSize = 2
  MaxFaults = 1
  changes <- MCChanges
  MaxLog = 3
  MaxErrors = 0
  MaxRestarts = 0
INVARIANTS FannedOutAsSubscribed
CHECK_DEADLOCK FALSE
