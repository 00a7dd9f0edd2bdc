\* Four rows with two times and two states, pages of one or two; delays with
\* caps at and between what doubling reaches; two schedulers and three
\* deliveries, one of which may never be recorded.
SPECIFICATION Spec
CONSTANTS
  Id = {1, 2, 3, 4}
  Time = {1, 2}
  Status = {"ACTIVE", "DELETED"}
  Limits = {0, 1, 2, 3}
  MaxLimit = 2
  DefaultLimit = 2
  Start = Start
  End = End
  Initials = {100, 150}
  Maxima = {150, 250, 350}
  Jitters = {0, 25, 100}
  MaxAttempts = 4
  Delivery = {d1, d2, d3}
  Worker = {w1, w2}
  Blocked = {d1}
  Concurrency = 1
  BatchSize = 1
  Lease = 3
  Longest = 1
  Attempts = 2
  MaxMishaps = 1
INVARIANTS EveryRowOnce WaitsDouble
PROPERTIES EventuallySettled
CHECK_DEADLOCK FALSE
