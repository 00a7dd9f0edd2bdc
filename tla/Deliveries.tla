----------------------------- MODULE Deliveries -----------------------------
(***************************************************************************)
(* The delivery engine of the delivery service: the tables deliveries and  *)
(* delivery_attempts, the workers that claim rows under a lease and POST   *)
(* them to the customer, and the replay of settled deliveries.             *)
(*                                                                         *)
(* Every SQL transaction is one action: Postgres runs it atomically, and   *)
(* FOR UPDATE SKIP LOCKED keeps two claims off the same row.  What happens *)
(* between two transactions of one goroutine (the HTTP call, the answer,   *)
(* the record) is a step of its own, so workers interleave there.          *)
(*                                                                         *)
(* Time is kept as two facts a query can see: a row is due or not          *)
(* (next_attempt_at <= NOW()), a lease is held or expired                  *)
(* (lease_expires_at < NOW()).  Left out: tenants, payloads, headers,      *)
(* timestamps and the columns that only repeat the last result.            *)
(***************************************************************************)
EXTENDS Naturals, FiniteSets

CONSTANTS
  Id,             \* delivery ids the tables may use
  Event, Endpoint,
  Worker,         \* delivery-service processes, each with its own scheduler
  Policies,       \* values of RetryPolicy.MaxAttempts a snapshot may carry
  Obstacles,      \* what may stand between a row and its record: nothing, a stored
                  \* secret that does not decrypt with the configured key, or
                  \* answers that may hold what TEXT refuses (0x00, no UTF-8)
  Concurrency, BatchSize,
  OutlastsLease,  \* TRUE when an attempt may run longer than the 30 s lease
  MaxFaults,      \* bound: crashes, lost attempts and lease overruns
  MaxClaims,      \* bound: claims of one row
  None            \* SQL NULL in replay_of_delivery_id

ASSUME DeliveriesAssumption ==
  /\ Policies \subseteq Nat \ {0}
  /\ Obstacles \subseteq {"none", "secret", "answer"}
  /\ Concurrency \in Nat \ {0} /\ BatchSize \in Nat \ {0}
  /\ OutlastsLease \in BOOLEAN
  /\ MaxFaults \in Nat /\ MaxClaims \in Nat
  /\ None \notin Id
  /\ IsFiniteSet(Id)

VARIABLES
  rows,      \* table deliveries: a function on the ids inserted so far
  attempts,  \* table delivery_attempts
  inflight,  \* Deliver goroutines: the attempt each one carries
  replays,   \* ids that a Replay call has read as replayable and not yet copied
  faults     \* faults so far

vars == <<rows, attempts, inflight, replays, faults>>

Settled == {"DELIVERED", "FAILED", "DLQ"}
Status  == {"PENDING", "IN_PROGRESS", "RETRYING"} \cup Settled
Result  == {"SUCCESS", "RETRYABLE_FAILURE", "PERMANENT_FAILURE"}

Row ==
  [status : Status, event : Event, endpoint : Endpoint, max : Policies,
   obstacle : Obstacles, count : Nat, due : BOOLEAN,
   lease : {"none", "held", "expired"}, replayOf : Id \cup {None}]

Attempt  == [worker : Worker, id : Id, number : Nat, result : Result \cup {"none"}]
Recorded == [id : Id, number : Nat, result : Result]

Fresh == Id \ DOMAIN rows

-----------------------------------------------------------------------------
(* Creation and replay.                                                     *)

\* A row as both INSERT statements write it.
NewRow(event, endpoint, max, obstacle, source) ==
  [status |-> "PENDING", event |-> event, endpoint |-> endpoint, max |-> max,
   obstacle |-> obstacle, count |-> 0, due |-> TRUE, lease |-> "none",
   replayOf |-> source]

\* Mutant of Conflicts: an index on unsettled rows only.
MutConflictsOpenOnly(event, endpoint) ==
  \E i \in DOMAIN rows : /\ rows[i].event = event
                         /\ rows[i].endpoint = endpoint
                         /\ rows[i].replayOf = None
                         /\ rows[i].status \notin Settled

\* The partial unique index that ON CONFLICT DO NOTHING runs into.
Conflicts(event, endpoint) ==
  \E i \in DOMAIN rows : /\ rows[i].event = event
                         /\ rows[i].endpoint = endpoint
                         /\ rows[i].replayOf = None

\* One EventAccepted message, handled for the first or any later time: one
\* transaction inserts a row for every subscribed endpoint that has none.
\* snap holds what GetForEvent returned.
CreateDeliveries(event, eps, snap) ==
  LET missing == {p \in eps : ~Conflicts(event, p)} IN
  \E at \in [missing -> Fresh] :
    /\ \A p, q \in missing : at[p] = at[q] => p = q
    /\ rows' = [i \in DOMAIN rows \cup {at[p] : p \in missing} |->
                  IF i \in DOMAIN rows THEN rows[i]
                  ELSE LET p == CHOOSE q \in missing : at[q] = i
                       IN  NewRow(event, p, snap[p].max, snap[p].obstacle, None)]
    /\ UNCHANGED <<attempts, inflight, replays, faults>>

\* Mutants of ReplayGet: no check of the status, no check that the row exists.
MutReplayGetAnyStatus(i) ==
  /\ i \in DOMAIN rows
  /\ replays' = replays \cup {i}
  /\ UNCHANGED <<rows, attempts, inflight, faults>>

MutReplayGetUnchecked(i) ==
  /\ replays' = replays \cup {i}
  /\ UNCHANGED <<rows, attempts, inflight, faults>>

\* Service.Replay reads the row and checks its status ...
ReplayGet(i) ==
  /\ i \in DOMAIN rows
  /\ rows[i].status \in {"FAILED", "DLQ"}
  /\ replays' = replays \cup {i}
  /\ UNCHANGED <<rows, attempts, inflight, faults>>

\* ... and then copies what it read into a new row, in a statement of its own.
CreateReplay(i, new) ==
  /\ i \in replays
  /\ new \in Fresh
  /\ rows' = [j \in DOMAIN rows \cup {new} |->
                IF j \in DOMAIN rows THEN rows[j]
                ELSE NewRow(rows[i].event, rows[i].endpoint, rows[i].max,
                            rows[i].obstacle, i)]
  /\ replays' = replays \ {i}
  /\ UNCHANGED <<attempts, inflight, faults>>

-----------------------------------------------------------------------------
(* Workers.                                                                 *)

\* Mutant of Claimable: the lease is not asked for.
MutClaimableAnyLease(i) ==
  \/ rows[i].status \in {"PENDING", "RETRYING"} /\ rows[i].due
  \/ rows[i].status = "IN_PROGRESS"

\* The WHERE clause of the claim query.
Claimable(i) ==
  \/ rows[i].status \in {"PENDING", "RETRYING"} /\ rows[i].due
  \/ rows[i].status = "IN_PROGRESS" /\ rows[i].lease = "expired"

\* The slots of a worker's semaphore that are taken, and how many are free.
Busy(w) == {a \in inflight : a.worker = w}

Available(w) == Concurrency - Cardinality(Busy(w))

\* Mutant of BatchLimit: the free slots are not looked at.
MutBatchLimitFixed(w) == BatchSize

BatchLimit(w) == IF BatchSize > Available(w) THEN Available(w) ELSE BatchSize

\* Mutants of Claim: the attempt is not counted; the lease is not written.
MutClaimUncounted(row) ==
  [row EXCEPT !.status = "IN_PROGRESS", !.lease = "held"]

MutClaimNoLease(row) ==
  [row EXCEPT !.status = "IN_PROGRESS", !.count = @ + 1]

\* The row after its claim.
Claim(row) ==
  [row EXCEPT !.status = "IN_PROGRESS", !.lease = "held", !.count = @ + 1]

\* One tick of a scheduler with a free slot: claim at most BatchLimit rows in
\* one transaction and start a goroutine for each.  Which rows: the first by
\* next_attempt_at that no other transaction has locked at that moment.  Any
\* set of claimable rows stands for them here, which allows more than the
\* query does; the order and its effect are in module Scheduling.
ClaimBatch(w, batch) ==
  /\ Available(w) > 0
  /\ batch # {}
  /\ Cardinality(batch) <= BatchLimit(w)
  /\ \A i \in batch : Claimable(i) /\ rows[i].count < MaxClaims
  /\ rows' = [i \in DOMAIN rows |-> IF i \in batch THEN Claim(rows[i]) ELSE rows[i]]
  /\ inflight' = inflight \cup
       {[worker |-> w, id |-> i, number |-> Claim(rows[i]).count, result |-> "none"]
          : i \in batch}
  /\ UNCHANGED <<attempts, replays, faults>>

\* The POST to the customer and how its answer is classified.
Send(a, result) ==
  /\ a \in inflight
  /\ a.result = "none"
  /\ rows[a.id].obstacle # "secret"
  /\ inflight' = (inflight \ {a}) \cup {[a EXCEPT !.result = result]}
  /\ UNCHANGED <<rows, attempts, replays, faults>>

\* Deliver returns before it sends: nothing is recorded, the lease stays.
DecryptFails(a) ==
  /\ a \in inflight
  /\ a.result = "none"
  /\ rows[a.id].obstacle = "secret"
  /\ inflight' = inflight \ {a}
  /\ UNCHANGED <<rows, attempts, replays, faults>>

\* Mutant of HasNext: the last retry but one gets no time.
MutHasNextEarly(a) ==
  a.result = "RETRYABLE_FAILURE" /\ a.number + 1 < rows[a.id].max

\* Deliver computes the time of the next attempt.
HasNext(a) ==
  a.result = "RETRYABLE_FAILURE" /\ a.number < rows[a.id].max

\* Mutant of NextStatus: the row goes to the DLQ one attempt early.
MutNextStatusEarly(a) ==
  CASE a.result = "SUCCESS" -> "DELIVERED"
    [] a.result = "PERMANENT_FAILURE" -> "FAILED"
    [] a.result = "RETRYABLE_FAILURE" ->
         IF a.number + 1 >= rows[a.id].max THEN "DLQ" ELSE "RETRYING"

\* The status RecordAttemptAndTransition derives from the claimed copy.
NextStatus(a) ==
  CASE a.result = "SUCCESS" -> "DELIVERED"
    [] a.result = "PERMANENT_FAILURE" -> "FAILED"
    [] a.result = "RETRYABLE_FAILURE" ->
         IF a.number >= rows[a.id].max THEN "DLQ" ELSE "RETRYING"

\* UNIQUE (delivery_id, attempt_number); next_attempt_at NOT NULL.
Rejected(a) ==
  \/ \E r \in attempts : r.id = a.id /\ r.number = a.number
  \/ /\ rows[a.id].status = "IN_PROGRESS"
     /\ NextStatus(a) = "RETRYING"
     /\ ~HasNext(a)

\* response_body TEXT: the answer as it came, cut at 64 KiB.
Refused(a) == rows[a.id].obstacle = "answer"

\* Mutant of Transition: UPDATE ... WHERE id=$1, without the status.
MutTransitionAnyStatus(row, status) ==
  [row EXCEPT !.status = status, !.lease = "none",
              !.due = IF status = "RETRYING" THEN FALSE ELSE @]

\* The row after the UPDATE, whose WHERE asks for status IN_PROGRESS only.
Transition(row, status) ==
  IF row.status = "IN_PROGRESS"
  THEN [row EXCEPT !.status = status, !.lease = "none",
                   !.due = IF status = "RETRYING" THEN FALSE ELSE @]
  ELSE row

RecordAttemptAndTransition(a) ==
  /\ a \in inflight
  /\ a.result # "none"
  /\ inflight' = inflight \ {a}
  /\ \/ /\ Rejected(a) \/ Refused(a)     \* the transaction rolls back
        /\ UNCHANGED <<rows, attempts>>
     \/ /\ ~Rejected(a)
        /\ attempts' = attempts \cup
             {[id |-> a.id, number |-> a.number, result |-> a.result]}
        /\ rows' = [rows EXCEPT ![a.id] = Transition(@, NextStatus(a))]
  /\ UNCHANGED <<replays, faults>>

-----------------------------------------------------------------------------
(* Time and faults.                                                         *)

\* NOW() reaches next_attempt_at.
BecomeDue(i) ==
  /\ i \in DOMAIN rows
  /\ rows[i].status = "RETRYING" /\ ~rows[i].due
  /\ rows' = [rows EXCEPT ![i].due = TRUE]
  /\ UNCHANGED <<attempts, inflight, replays, faults>>

\* The attempt that the row's lease was given to is still in a goroutine.
HolderAlive(i) == \E a \in inflight : a.id = i /\ a.number = rows[i].count

\* NOW() passes lease_expires_at of a row whose attempt is gone ...
LeaseExpires(i) ==
  /\ i \in DOMAIN rows
  /\ rows[i].lease = "held"
  /\ ~HolderAlive(i)
  /\ rows' = [rows EXCEPT ![i].lease = "expired"]
  /\ UNCHANGED <<attempts, inflight, replays, faults>>

\* ... or is still running: nothing renews a lease, and request_timeout_ms
\* may be four times as long.
LeaseOverrun(i) ==
  /\ OutlastsLease
  /\ i \in DOMAIN rows
  /\ rows[i].lease = "held"
  /\ HolderAlive(i)
  /\ faults < MaxFaults
  /\ rows' = [rows EXCEPT ![i].lease = "expired"]
  /\ faults' = faults + 1
  /\ UNCHANGED <<attempts, inflight, replays>>

\* A goroutine ends without recording: the record's transaction fails, or the
\* answer to the claim's commit never arrives.
LoseAttempt(a) ==
  /\ a \in inflight
  /\ faults < MaxFaults
  /\ inflight' = inflight \ {a}
  /\ faults' = faults + 1
  /\ UNCHANGED <<rows, attempts, replays>>

\* The process dies or is told to stop: the cancelled context fails every
\* request in flight and then every record.
Crash(w) ==
  /\ \E a \in inflight : a.worker = w
  /\ faults < MaxFaults
  /\ inflight' = {a \in inflight : a.worker # w}
  /\ faults' = faults + 1
  /\ UNCHANGED <<rows, attempts, replays>>

-----------------------------------------------------------------------------
Init ==
  /\ rows = [i \in {} |-> None]
  /\ attempts = {}
  /\ inflight = {}
  /\ replays = {}
  /\ faults = 0

Next ==
  \/ \E event \in Event, eps \in SUBSET Endpoint :
       \E snap \in [eps -> [max : Policies, obstacle : Obstacles]] :
         CreateDeliveries(event, eps, snap)
  \/ \E i \in Id : ReplayGet(i)
  \/ \E i \in Id, new \in Id : CreateReplay(i, new)
  \/ \E w \in Worker, batch \in SUBSET DOMAIN rows : ClaimBatch(w, batch)
  \/ \E a \in inflight, result \in Result : Send(a, result)
  \/ \E a \in inflight : DecryptFails(a)
  \/ \E a \in inflight : RecordAttemptAndTransition(a)
  \/ \E i \in Id : BecomeDue(i)
  \/ \E i \in Id : LeaseExpires(i)
  \/ \E i \in Id : LeaseOverrun(i)
  \/ \E a \in inflight : LoseAttempt(a)
  \/ \E w \in Worker : Crash(w)

Spec == Init /\ [][Next]_vars

-----------------------------------------------------------------------------
(* Properties.                                                              *)

\* Every row, attempt and pending replay is well formed and refers to a row
\* that exists (delivery_attempts.delivery_id REFERENCES deliveries).
TypeOK ==
  /\ DOMAIN rows \subseteq Id
  /\ rows \in [DOMAIN rows -> Row]
  /\ attempts \subseteq Recorded /\ inflight \subseteq Attempt
  /\ \A a \in attempts \cup inflight : a.id \in DOMAIN rows
  /\ replays \subseteq DOMAIN rows
  /\ faults \in Nat

\* An attempt number of a row is given to one goroutine, ends in at most one
\* row of delivery_attempts, and is never above the row's attempt_count.
AttemptLedger ==
  /\ \A a \in attempts \cup inflight : a.number \in 1..rows[a.id].count
  /\ \A a, b \in inflight : a.id = b.id /\ a.number = b.number => a = b
  /\ \A a, b \in attempts : a.id = b.id /\ a.number = b.number => a = b
  /\ \A a \in inflight, b \in attempts : ~(a.id = b.id /\ a.number = b.number)

\* No constraint keeps an answer that has arrived from being recorded, however
\* many workers hold the row (its bytes may, see Refused): its attempt number
\* is free in delivery_attempts, and Deliver and RecordAttemptAndTransition,
\* which test the retry budget separately, agree (a RETRYING row without a
\* next_attempt_at would break NOT NULL).
RecordNeverRejected ==
  \A a \in inflight : a.result # "none" => ~Rejected(a)

Evidence(i, result, lo) ==
  \E r \in attempts : r.id = i /\ r.result = result /\ r.number >= lo

HasEvidence(i) ==
  /\ rows[i].status = "DELIVERED" => Evidence(i, "SUCCESS", 1)
  /\ rows[i].status = "FAILED" => Evidence(i, "PERMANENT_FAILURE", 1)
  /\ rows[i].status = "DLQ" => Evidence(i, "RETRYABLE_FAILURE", rows[i].max)
  /\ rows[i].status = "RETRYING" => Evidence(i, "RETRYABLE_FAILURE", 1)

\* No verdict without the attempt it rests on, whichever of several workers
\* wrote it: DELIVERED needs a recorded 2xx, FAILED a recorded permanent
\* failure, DLQ a recorded retryable failure that was at least the
\* MaxAttempts-th attempt, RETRYING a recorded retryable failure.
VerdictHasEvidence == \A i \in DOMAIN rows : HasEvidence(i)

\* However often an EventAccepted message is handled, and whatever has become of
\* the rows since, an event has one original delivery per endpoint.
OneOriginal ==
  \A i, j \in DOMAIN rows :
    /\ rows[i].replayOf = None /\ rows[j].replayOf = None
    /\ rows[i].event = rows[j].event /\ rows[i].endpoint = rows[j].endpoint
    => i = j

\* Replay checks a status in one statement and copies the row in another; the
\* row it copies has still ended in failure, and the copy goes where the
\* original went.
ReplaySourceSettled ==
  \A i \in DOMAIN rows : rows[i].replayOf # None =>
    LET source == rows[i].replayOf IN
    /\ source \in DOMAIN rows
    /\ rows[source].status \in {"FAILED", "DLQ"}
    /\ rows[source].event = rows[i].event
    /\ rows[source].endpoint = rows[i].endpoint

\* A worker never has more goroutines than its semaphore has slots, so the
\* scheduler loop never waits at `sem <- struct{}{}` with claimed rows whose
\* leases run out meanwhile.
WithinPool == \A w \in Worker : Available(w) \in 0..Concurrency

\* No row is lost to the claim query: a row in progress carries a lease that
\* will expire, a row not in progress carries none, and a new row is due.
NeverStranded ==
  \A i \in DOMAIN rows :
    /\ rows[i].status = "IN_PROGRESS" <=> rows[i].lease # "none"
    /\ rows[i].status = "PENDING" => rows[i].due

\* A row that is DELIVERED, FAILED or in the DLQ never changes again, although
\* workers whose lease has expired still record their attempts on it.
SettledIsFinal ==
  [][\A i \in DOMAIN rows :
       rows[i].status \in Settled => rows'[i] = rows[i]]_vars

\* If no attempt outlasts its lease, a row is never with two goroutines, and
\* the one that has it carries the row's latest attempt.
ExclusiveAttempt ==
  ~OutlastsLease =>
    /\ \A a, b \in inflight : a.id = b.id => a = b
    /\ \A a \in inflight : /\ rows[a.id].status = "IN_PROGRESS"
                           /\ rows[a.id].lease = "held"
                           /\ a.number = rows[a.id].count

\* A delivery with a recorded 2xx is DELIVERED: only failed requests are
\* retried, and a success is never reported as a failure.
SuccessIsSettled ==
  \A r \in attempts : r.result = "SUCCESS" => rows[r.id].status = "DELIVERED"

\* The tables as DeliveryLifecycle sees them.
Outcome(row) ==
  [verdict |-> IF row.status \in Settled THEN row.status ELSE "OPEN",
   target |-> <<row.event, row.endpoint>>, budget |-> row.max, source |-> row.replayOf]

Lifecycle == INSTANCE DeliveryLifecycle WITH
  LateAnswers <- OutlastsLease,
  delivery <- [i \in DOMAIN rows |-> Outcome(rows[i])],
  answers <- attempts

\* Workers, claims, leases, crashes and the two-step replay implement the
\* lifecycle: one original per event and endpoint, one recorded answer per
\* attempt number, the answer decides the delivery once and for all (and always
\* does if no attempt outlasts its lease), only failed deliveries are replayed.
ImplementsLifecycle == Lifecycle!Spec

\* The retry budget bounds what a customer is sent whose answers can be stored:
\* workers that hold a row side by side and answers that reopen it add no
\* attempt, only a crash, a lost record or an overrun lease buys one beyond
\* MaxAttempts.
ClaimsPaidFor ==
  \A i \in DOMAIN rows :
    rows[i].obstacle = "none" => rows[i].count <= rows[i].max + faults

\* What README.md:52 promises of every customer: failed requests are retried
\* according to the policy and no more, so where nothing crashes, is lost or
\* overruns, nobody is sent more than MaxAttempts requests.
SentWithinPolicy ==
  faults = 0 =>
    \A a \in inflight : a.result # "none" => a.number <= rows[a.id].max
=============================================================================
