------------------------------- MODULE Consumer -------------------------------
(***************************************************************************)
(* The loop of delivery-service/internal/kafka/consumer.go on one          *)
(* partition of a topic: fetch, handle, commit.  The reader keeps its own  *)
(* position, which runs ahead of the committed offset and goes back to it  *)
(* only when the process restarts or the group rebalances; a commit covers *)
(* every offset up to its message.  Offsets count from 1 here.             *)
(***************************************************************************)
EXTENDS Naturals, Sequences

CONSTANTS
  Message,
  Poison,        \* messages whose handler always returns an error
  MaxLog,        \* bound: length of the topic
  MaxErrors,     \* bound: errors of the handler, the broker or the database
  MaxRestarts    \* bound: restarts and rebalances

ASSUME ConsumerAssumption ==
  /\ Poison \subseteq Message
  /\ MaxLog \in Nat /\ MaxErrors \in Nat /\ MaxRestarts \in Nat

VARIABLES
  topic,       \* the partition's messages
  committed,   \* the group's committed offset
  next,        \* the reader's position
  state,       \* where Run is
  handled,     \* offsets whose handler has returned nil
  failed,      \* offsets whose handler has returned an error
  errors, restarts

loop == <<committed, next, state, handled, failed, errors, restarts>>
vars == <<topic, loop>>

Run == {"fetch", "handle", "commit", "stopped"}

Produce(m) ==
  /\ Len(topic) < MaxLog
  /\ topic' = Append(topic, m)
  /\ UNCHANGED loop

FetchMessage ==
  /\ state = "fetch" /\ next <= Len(topic)
  /\ state' = "handle"
  /\ UNCHANGED <<topic, committed, next, handled, failed, errors, restarts>>

\* Run returns, and nothing in the process calls it again.
FetchFails ==
  /\ state = "fetch" /\ errors < MaxErrors
  /\ state' = "stopped" /\ errors' = errors + 1
  /\ UNCHANGED <<topic, committed, next, handled, failed, restarts>>

HandlerSucceeds ==
  /\ state = "handle" /\ topic[next] \notin Poison
  /\ handled' = handled \cup {next}
  /\ state' = "commit"
  /\ UNCHANGED <<topic, committed, next, failed, errors, restarts>>

\* Mutant of HandlerFails: a failed message goes on to its commit.
MutHandlerFailsCommits ==
  /\ state = "handle"
  /\ \/ topic[next] \in Poison /\ UNCHANGED errors
     \/ errors < MaxErrors /\ errors' = errors + 1
  /\ failed' = failed \cup {next}
  /\ state' = "commit"
  /\ UNCHANGED <<topic, committed, next, handled, restarts>>

\* The error is logged, and the loop goes on to the next message.
HandlerFails ==
  /\ state = "handle"
  /\ \/ topic[next] \in Poison /\ UNCHANGED errors
     \/ errors < MaxErrors /\ errors' = errors + 1
  /\ failed' = failed \cup {next}
  /\ next' = next + 1
  /\ state' = "fetch"
  /\ UNCHANGED <<topic, committed, handled, restarts>>

CommitMessages ==
  /\ state = "commit"
  /\ committed' = next
  /\ next' = next + 1
  /\ state' = "fetch"
  /\ UNCHANGED <<topic, handled, failed, errors, restarts>>

\* Run returns; the broker may have stored the offset all the same.
CommitFails ==
  /\ state = "commit" /\ errors < MaxErrors
  /\ committed' \in {committed, next}
  /\ state' = "stopped" /\ errors' = errors + 1
  /\ UNCHANGED <<topic, next, handled, failed, restarts>>

\* Mutant of Restart: the reader goes on after the message the last one had.
MutRestartAtPosition ==
  /\ restarts < MaxRestarts
  /\ state' = "fetch" /\ restarts' = restarts + 1
  /\ next' = next + 1
  /\ UNCHANGED <<topic, committed, handled, failed, errors>>

Restart ==
  /\ restarts < MaxRestarts
  /\ state' = "fetch" /\ restarts' = restarts + 1
  /\ next' = committed + 1
  /\ UNCHANGED <<topic, committed, handled, failed, errors>>

Init ==
  /\ topic = <<>> /\ committed = 0 /\ next = 1 /\ state = "fetch"
  /\ handled = {} /\ failed = {}
  /\ errors = 0 /\ restarts = 0

Next ==
  \/ \E m \in Message : Produce(m)
  \/ FetchMessage \/ FetchFails
  \/ HandlerSucceeds \/ HandlerFails
  \/ CommitMessages \/ CommitFails
  \/ Restart

Spec == Init /\ [][Next]_vars

-----------------------------------------------------------------------------
(* Properties.                                                              *)

\* The committed offset never passes a message that no handler call was made
\* for: whatever errors, restarts and lost commits there were, an offset the
\* group will not fetch again was handled, or its handler returned an error.
NothingUnseen == \A o \in 1..committed : o \in handled \cup failed

\* What a commit is for was handled: the last offset it covers succeeded.
CommitFollowsHandling == committed > 0 => committed \in handled

\* The comment in Run: a message whose handler failed is not committed, and
\* Kafka will redeliver it after a restart.
FailedIsRedelivered == \A o \in failed \ handled : committed < o
===============================================================================
