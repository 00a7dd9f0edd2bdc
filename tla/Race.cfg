\* Deliveries to two endpoints that contend for two workers: a secret that does
\* not decrypt or answers that cannot be stored beside a row without either, an
\* attempt that outlasts its lease or is lost.
\* MaxClaims is above what two retries and a fault can ask for.
SPECIFICATION Spec
CONSTANTS
  Id = {d1, d2}
  Event = {e1}
  Endpoint = {p1, p2}
  Worker = {w1, w2}
  Policies = {2}
  Obstacles = {"none", "secret", "answer"}
  Concurrency = 2
  BatchSize = 1
  OutlastsLease = TRUE
  MaxFaults = 1
  MaxClaims = 4
  None = None
INVARIANTS TypeOK AttemptLedger RecordNeverRejected VerdictHasEvidence ClaimsPaidFor
SYMMETRY SymAll
PROPERTIES SettledIsFinal ImplementsLifecycle
