------------------------------ MODULE Scheduling ------------------------------
(***************************************************************************)
(* Which rows the schedulers of the delivery service claim, in which order *)
(* and how soon: what module Deliveries leaves open.  Rows are claimed in  *)
(* the order of next_attempt_at, at most as many as a worker has free      *)
(* slots.  A claim leaves next_attempt_at alone, so a row whose lease has  *)
(* expired is ahead of every row that became due since, for ever if its    *)
(* attempts are never recorded.                                            *)
(*                                                                         *)
(* A row that its claim finds locked by another claim is one whose lease   *)
(* the other has just renewed, so SKIP LOCKED and the WHERE clause pass    *)
(* over the same rows.                                                     *)
(*                                                                         *)
(* Time is counted in periods of the schedulers' ticker, 250 ms: in each,  *)
(* every worker ticks once.  Attempts and leases last whole periods.  Left *)
(* out: what an attempt was answered and why (Deliveries).                 *)
(***************************************************************************)
EXTENDS Naturals, FiniteSets, SequencesExt

CONSTANTS
  Delivery, Worker,
  Blocked,      \* deliveries that may never be recorded: Deliveries' obstacles
  Concurrency, BatchSize,
  Lease,        \* periods that a claim lasts: 120 are 30 s
  Longest,      \* periods that an attempt may take: request_timeout_ms
  Attempts,     \* RetryPolicy.MaxAttempts
  MaxMishaps    \* bound: failed claims, lost records and crashes

ASSUME SchedulingAssumption ==
  /\ Blocked \subseteq Delivery /\ IsFiniteSet(Delivery)
  /\ Concurrency \in Nat \ {0} /\ BatchSize \in Nat \ {0}
  /\ Lease \in Nat \ {0} /\ Longest \in Nat
  /\ Attempts \in Nat \ {0} /\ MaxMishaps \in Nat

VARIABLES
  status,    \* of each row; "none" before it is created
  queue,     \* rows that are due and not settled, by next_attempt_at
  tries,     \* attempt_count, which counts no further than Attempts
  lease,     \* periods until lease_expires_at has passed
  running,   \* of each worker, the attempts in its slots
  ticked,    \* workers that have ticked in this period
  mishaps

schedule == <<status, queue, tries, lease, running, ticked, mishaps>>

\* Mutant of Overdue: nobody looks for expired leases.
MutOverdueIgnored(i) == status[i] \in {"PENDING", "RETRYING"}

\* The WHERE clause of the claim query, of a row that is due.
Overdue(i) ==
  \/ status[i] \in {"PENDING", "RETRYING"}
  \/ status[i] = "IN_PROGRESS" /\ lease[i] = 0

Limit(w) ==
  LET available == Concurrency - Len(running[w]) IN
  IF BatchSize > available THEN available ELSE BatchSize

\* ORDER BY next_attempt_at LIMIT.
Batch(w) ==
  LET found == SelectSeq(queue, Overdue)
  IN  SubSeq(found, 1, IF Len(found) > Limit(w) THEN Limit(w) ELSE Len(found))

Try(i) == IF tries[i] < Attempts THEN tries[i] + 1 ELSE Attempts

\* A tick claims its batch and starts a goroutine for each row.
Tick(w) ==
  /\ w \notin ticked
  /\ ticked' = ticked \cup {w}
  /\ LET batch == Batch(w) IN
     /\ status' = [i \in Delivery |-> IF Contains(batch, i) THEN "IN_PROGRESS" ELSE status[i]]
     /\ tries' = [i \in Delivery |-> IF Contains(batch, i) THEN Try(i) ELSE tries[i]]
     /\ lease' = [i \in Delivery |-> IF Contains(batch, i) THEN Lease ELSE lease[i]]
     /\ \E duration \in [DOMAIN batch -> 0..Longest] :
          running' = [running EXCEPT ![w] = @ \o
            [k \in DOMAIN batch |->
               [row |-> batch[k], number |-> Try(batch[k]), left |-> duration[k]]]]
  /\ UNCHANGED <<queue, mishaps>>

\* What an attempt leaves of its row.  Nothing if there is no record or another
\* attempt has settled the row; else it is settled or due again later.
Transition(task) ==
  \/ /\ task.row \in Blocked \/ status[task.row] # "IN_PROGRESS"
     /\ UNCHANGED <<status, queue, lease>>
  \/ /\ status[task.row] = "IN_PROGRESS"
     /\ \/ status' = [status EXCEPT ![task.row] = "SETTLED"]
        \/ /\ task.number < Attempts
           /\ status' = [status EXCEPT ![task.row] = "RETRYING"]
     /\ queue' = Remove(queue, task.row)
     /\ lease' = [lease EXCEPT ![task.row] = 0]

\* An attempt ends and gives its slot back.
Finish(w, k) ==
  /\ k \in DOMAIN running[w]
  /\ running[w][k].left = 0
  /\ running' = [running EXCEPT ![w] = RemoveAt(@, k)]
  /\ Transition(running[w][k])
  /\ UNCHANGED <<tries, ticked, mishaps>>

-----------------------------------------------------------------------------
(* Time, and what others do.                                                *)

Sooner(n) == IF n > 0 THEN n - 1 ELSE 0

\* The next period begins when everything that belongs into this one is done.
Period ==
  /\ ticked = Worker
  /\ \A w \in Worker : \A k \in DOMAIN running[w] : running[w][k].left > 0
  /\ ticked' = {}
  /\ lease' = [i \in Delivery |-> Sooner(lease[i])]
  /\ running' = [w \in Worker |->
                   [k \in DOMAIN running[w] |-> [running[w][k] EXCEPT !.left = @ - 1]]]
  /\ UNCHANGED <<status, queue, tries, mishaps>>

\* A new row is due at once.
Create(i) ==
  /\ status[i] = "none"
  /\ status' = [status EXCEPT ![i] = "PENDING"]
  /\ queue' = Append(queue, i)
  /\ UNCHANGED <<tries, lease, running, ticked, mishaps>>

\* NOW() reaches next_attempt_at, which is later than that of all rows due before.
BecomeDue(i) ==
  /\ status[i] = "RETRYING" /\ ~Contains(queue, i)
  /\ queue' = Append(queue, i)
  /\ UNCHANGED <<status, tries, lease, running, ticked, mishaps>>

Mishap == mishaps < MaxMishaps /\ mishaps' = mishaps + 1

\* ClaimBatch returns an error, and the loop waits for its next tick.
ClaimFails(w) ==
  /\ w \notin ticked
  /\ ticked' = ticked \cup {w}
  /\ Mishap
  /\ UNCHANGED <<status, queue, tries, lease, running>>

\* The record's transaction fails.
RecordFails(w, k) ==
  /\ k \in DOMAIN running[w]
  /\ running[w][k].left = 0
  /\ running' = [running EXCEPT ![w] = RemoveAt(@, k)]
  /\ Mishap
  /\ UNCHANGED <<status, queue, tries, lease, ticked>>

\* A worker dies, and another process takes its place.
Crash(w) ==
  /\ running[w] # <<>>
  /\ running' = [running EXCEPT ![w] = <<>>]
  /\ Mishap
  /\ UNCHANGED <<status, queue, tries, lease, ticked>>

-----------------------------------------------------------------------------
SchedulingInit ==
  /\ status = [i \in Delivery |-> "none"]
  /\ queue = <<>>
  /\ tries = [i \in Delivery |-> 0]
  /\ lease = [i \in Delivery |-> 0]
  /\ running = [w \in Worker |-> <<>>]
  /\ ticked = {}
  /\ mishaps = 0

\* What happens because time passes: tickers tick and requests time out.
Advance ==
  \/ \E w \in Worker : Tick(w)
  \/ \E w \in Worker, k \in 1..Concurrency : Finish(w, k)
  \/ Period

SchedulingNext ==
  \/ Advance
  \/ \E i \in Delivery : Create(i)
  \/ \E i \in Delivery : BecomeDue(i)
  \/ \E w \in Worker : ClaimFails(w)
  \/ \E w \in Worker, k \in 1..Concurrency : RecordFails(w, k)
  \/ \E w \in Worker : Crash(w)

SchedulingFairness ==
  /\ WF_schedule(Advance)
  /\ \A i \in Delivery : WF_schedule(BecomeDue(i))

SchedulingSpec ==
  SchedulingInit /\ [][SchedulingNext]_schedule /\ SchedulingFairness

-----------------------------------------------------------------------------
(* Properties.                                                              *)

\* The attempts that blocked rows make while one lease lasts leave a tick over,
\* even for a single slot.
RoomForOthers == Cardinality(Blocked) * (Longest + 1) < Lease

\* Every delivery whose attempts can be recorded ends DELIVERED, FAILED or in the DLQ,
\* whatever crashes and although the rows that never can are ahead of it each
\* time their lease expires: provided these leave a worker room.  Without that
\* proviso they can keep every other row waiting for ever.
EventuallySettled ==
  RoomForOthers =>
    \A i \in Delivery \ Blocked : status[i] # "none" ~> status[i] = "SETTLED"
===============================================================================
