\* One delivery, one worker, nothing crashes, is lost or overruns; the customer
\* answers with bytes that the attempts table does not take.
SPECIFICATION Spec
CONSTANTS
  Id = {d1}
  Event = {e1}
  Endpoint = {p1}
  Worker = {w1}
  Policies = {2}
  Obstacles = {"answer"}
  Concurrency = 1
  BatchSize = 1
  OutlastsLease = FALSE
  MaxFaults = 0
  MaxClaims = 4
  None = None
INVARIANTS SentWithinPolicy
