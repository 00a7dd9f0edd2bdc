\* Duplicated messages, several endpoints, batches, replays and replays of
\* replays, secrets that do not decrypt, answers that cannot be stored; every
\* attempt ends within its lease.
SPECIFICATION Spec
CONSTANTS
  Id = {d1, d2, d3}
  Event = {e1}
  Endpoint = {p1, p2, p3}
  Worker = {w1, w2}
  Policies = {2}
  Obstacles = {"none", "secret", "answer"}
  Concurrency = 2
  BatchSize = 3
  OutlastsLease = FALSE
  MaxFaults = 1
  MaxClaims = 2
  None = None
SYMMETRY SymAll
INVARIANTS OneOriginal ReplaySourceSettled WithinPool NeverStranded ExclusiveAttempt SuccessIsSettled
