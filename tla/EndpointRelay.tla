----------------------------- MODULE EndpointRelay -----------------------------
(***************************************************************************)
(* The endpoint service's outbox: rows of outbox_messages that the relay   *)
(* of every replica claims under a 30 s lease, writes to Kafka one by one, *)
(* and marks or releases afterwards.                                       *)
(*                                                                         *)
(* All replicas have one worker id, so a row says whether it is locked but *)
(* not by whom.  Left out: the attempts column and retryDelay, which say   *)
(* how long a released row waits.                                          *)
(***************************************************************************)
EXTENDS Naturals, FiniteSets

CONSTANTS
  Id,          \* rows, in the order of (created_at, id)
  Relay,       \* the relay of each replica
  BatchSize,   \* LIMIT of a claim
  MaxFaults    \* bound: failed calls, overrun leases, crashes

ASSUME RelayAssumption ==
  /\ Id \subseteq Nat
  /\ IsFiniteSet(Relay)
  /\ BatchSize \in Nat \ {0} /\ MaxFaults \in Nat

VARIABLES
  outbox,    \* the table, by id
  flush,     \* flush calls: what is left of the batch, and the step its first row is at
  copies,    \* messages on the topic, by row
  faults

vars == <<outbox, flush, copies, faults>>

Row == [published : BOOLEAN, available : BOOLEAN, lock : {"none", "held", "expired"}]
Flush == [todo : SUBSET Id, stage : {"publish", "mark", "release"}]

NewRow == [published |-> FALSE, available |-> TRUE, lock |-> "none"]
Idle == [todo |-> {}, stage |-> "publish"]

Fault == faults < MaxFaults /\ faults' = faults + 1

-----------------------------------------------------------------------------
(* The table.                                                               *)

\* Transactions may commit in another order than that of their created_at.
Enqueue(i) ==
  /\ i \notin DOMAIN outbox
  /\ outbox' = [j \in DOMAIN outbox \cup {i} |-> IF j = i THEN NewRow ELSE outbox[j]]
  /\ UNCHANGED <<flush, copies, faults>>

\* Mutant of Claimable: rows whose lease ran out stay with their holder.
MutClaimableUnlocked ==
  {i \in DOMAIN outbox :
     ~outbox[i].published /\ outbox[i].available /\ outbox[i].lock = "none"}

\* Mutant of Claimable: the lease is not looked at.
MutClaimableLocked == {i \in DOMAIN outbox : ~outbox[i].published /\ outbox[i].available}

\* published_at IS NULL AND available_at <= NOW() AND (locked_until IS NULL OR < NOW()).
Claimable ==
  {i \in DOMAIN outbox :
     ~outbox[i].published /\ outbox[i].available /\ outbox[i].lock # "held"}

\* ORDER BY created_at, id LIMIT.
FirstOf(batch, all) ==
  /\ batch \subseteq all /\ Cardinality(batch) <= BatchSize
  /\ Cardinality(batch) < BatchSize => batch = all
  /\ \A i \in batch, j \in all \ batch : i < j

Claim(r, batch) ==
  /\ flush[r].todo = {}
  /\ batch # {} /\ FirstOf(batch, Claimable)
  /\ outbox' = [i \in DOMAIN outbox |->
                  IF i \in batch THEN [outbox[i] EXCEPT !.lock = "held"] ELSE outbox[i]]
  /\ flush' = [flush EXCEPT ![r] = [todo |-> batch, stage |-> "publish"]]
  /\ UNCHANGED <<copies, faults>>

\* Mutant of Marked: locked_by and locked_until stay.
MutMarkedKeepsLock(row) ==
  IF row.lock = "none" THEN row ELSE [row EXCEPT !.published = TRUE]

\* WHERE id=$1 AND locked_by=$2: any lock will do, and none means no update.
Marked(row) ==
  IF row.lock = "none" THEN row
  ELSE [row EXCEPT !.published = TRUE, !.lock = "none"]

Released(row) ==
  IF row.lock = "none" THEN row
  ELSE [row EXCEPT !.available = FALSE, !.lock = "none"]

-----------------------------------------------------------------------------
(* flush: one message after the other.                                      *)

\* The message that r is at.
At(r, i, stage) ==
  /\ i \in flush[r].todo /\ \A j \in flush[r].todo : i <= j
  /\ flush[r].stage = stage

Goto(r, stage) == flush' = [flush EXCEPT ![r].stage = stage]

Leave(r, i) ==
  flush' = [flush EXCEPT ![r] = [todo |-> @.todo \ {i}, stage |-> "publish"]]

Write(i, n) == copies' = [copies EXCEPT ![i] = @ + n]

Publish(r, i) ==
  /\ At(r, i, "publish")
  /\ Write(i, 1)
  /\ Goto(r, "mark")
  /\ UNCHANGED <<outbox, faults>>

\* kafka-go writes again when the broker stored the message but its answer was lost.
PublishRetried(r, i) ==
  /\ At(r, i, "publish")
  /\ Fault
  /\ Write(i, 1)
  /\ UNCHANGED <<outbox, flush>>

\* Mutant of PublishFails: the error is logged only.
MutPublishFailsMarks(r, i) ==
  /\ At(r, i, "publish")
  /\ Fault
  /\ \E stored \in {0, 1} : Write(i, stored)
  /\ Goto(r, "mark")
  /\ UNCHANGED outbox

\* An error, although the broker may have stored the message.
PublishFails(r, i) ==
  /\ At(r, i, "publish")
  /\ Fault
  /\ \E stored \in {0, 1} : Write(i, stored)
  /\ Goto(r, "release")
  /\ UNCHANGED outbox

MarkPublished(r, i) ==
  /\ At(r, i, "mark")
  /\ outbox' = [outbox EXCEPT ![i] = Marked(@)]
  /\ Leave(r, i)
  /\ UNCHANGED <<copies, faults>>

Release(r, i) ==
  /\ At(r, i, "release")
  /\ outbox' = [outbox EXCEPT ![i] = Released(@)]
  /\ Leave(r, i)
  /\ UNCHANGED <<copies, faults>>

\* MarkPublished or Release returns an error, which is logged; the UPDATE may
\* have been made.
UpdateFails(r, i) ==
  /\ \/ At(r, i, "mark") /\ outbox' \in {outbox, [outbox EXCEPT ![i] = Marked(@)]}
     \/ At(r, i, "release") /\ outbox' \in {outbox, [outbox EXCEPT ![i] = Released(@)]}
  /\ Fault
  /\ Leave(r, i)
  /\ UNCHANGED copies

Crash(r) ==
  /\ flush[r].todo # {}
  /\ Fault
  /\ flush' = [flush EXCEPT ![r] = Idle]
  /\ UNCHANGED <<outbox, copies>>

-----------------------------------------------------------------------------
(* Time.                                                                    *)

DelayPasses(i) ==
  /\ i \in DOMAIN outbox /\ ~outbox[i].available
  /\ outbox' = [outbox EXCEPT ![i].available = TRUE]
  /\ UNCHANGED <<flush, copies, faults>>

InHand(i) == \E r \in Relay : i \in flush[r].todo

ExpireLease(i) ==
  /\ i \in DOMAIN outbox /\ outbox[i].lock = "held"
  /\ outbox' = [outbox EXCEPT ![i].lock = "expired"]
  /\ UNCHANGED <<flush, copies>>

\* The relay that held the row is gone, or could not update it.
LeaseExpires(i) == ~InHand(i) /\ ExpireLease(i) /\ UNCHANGED faults

\* A batch of up to 100 messages takes longer than the lease of all of them.
LeaseOverrun(i) == InHand(i) /\ ExpireLease(i) /\ Fault

-----------------------------------------------------------------------------
Init ==
  /\ outbox = [i \in {} |-> NewRow]
  /\ flush = [r \in Relay |-> Idle]
  /\ copies = [i \in Id |-> 0]
  /\ faults = 0

Next ==
  \/ \E i \in Id : Enqueue(i)
  \/ \E r \in Relay : \/ \E batch \in SUBSET DOMAIN outbox : Claim(r, batch)
                      \/ \E i \in Id : \/ Publish(r, i) \/ PublishRetried(r, i)
                                       \/ PublishFails(r, i)
                                       \/ MarkPublished(r, i) \/ Release(r, i)
                                       \/ UpdateFails(r, i)
                      \/ Crash(r)
  \/ \E i \in Id : DelayPasses(i) \/ LeaseExpires(i) \/ LeaseOverrun(i)

Spec == Init /\ [][Next]_vars

\* Time passes; a relay's ticker runs flush again and again, and each step of a
\* flush ends: the writer and the connections have timeouts.
Fairness ==
  /\ \A i \in Id : WF_vars(DelayPasses(i)) /\ WF_vars(LeaseExpires(i))
  /\ \A r \in Relay :
       /\ WF_vars(\E batch \in SUBSET DOMAIN outbox : Claim(r, batch))
       /\ WF_vars(\E i \in Id : \/ Publish(r, i) \/ PublishFails(r, i)
                                \/ MarkPublished(r, i) \/ Release(r, i) \/ UpdateFails(r, i))

FairSpec == Spec /\ Fairness

-----------------------------------------------------------------------------
(* Properties.                                                              *)

TypeOK ==
  /\ DOMAIN outbox \subseteq Id /\ outbox \in [DOMAIN outbox -> Row]
  /\ flush \in [Relay -> Flush]
  /\ \A r \in Relay : flush[r].todo \subseteq DOMAIN outbox
  /\ \A i \in DOMAIN outbox : outbox[i].published => outbox[i].lock = "none"
  /\ copies \in [Id -> Nat] /\ faults \in Nat

\* Although a relay whose lease has run out marks or frees another one's claim,
\* every copy beyond the first is paid for by a failed call, an overrun or a
\* crash: replicas side by side add none.
CopiesNeedFaults == \A i \in Id : copies[i] <= 1 + faults

\* The relay is an at-least-once channel: only what was enqueued is written, and
\* a row is published only when it is on the topic, stale marks included.
Channel == INSTANCE OutboxChannel
  WITH enqueued <- DOMAIN outbox,
       published <- {i \in DOMAIN outbox : outbox[i].published}

ImplementsChannel == Channel!Spec

\* Every row is published in the end, also one whose mark was lost because
\* another relay had freed its lock.
EventuallyPublished ==
  \A i \in Id : i \in DOMAIN outbox ~> i \in DOMAIN outbox /\ outbox[i].published
===============================================================================
