----------------------------- MODULE EventService -----------------------------
(***************************************************************************)
(* What clients of POST /v1/events and readers of hookyard.events may rely *)
(* on: a request is answered in one step, with the event of its key or     *)
(* with a new one, and an event that is stored goes into an at-least-once  *)
(* channel in the same step.  No transactions, locks or batches.  Events   *)
(* implements it.                                                          *)
(***************************************************************************)
EXTENDS Naturals

CONSTANTS Tenant, Key, EventId, Request, None

VARIABLES
  keys,       \* the event of each [tenant, key] that was used
  replies,    \* what each request asked for and was told
  enqueued, copies, published   \* the channel

vars == <<keys, replies, enqueued, copies, published>>

Channel == INSTANCE OutboxChannel WITH Id <- EventId

Scope == [tenant : Tenant, key : Key]

Reply(r, told, event) ==
  /\ replies[r].told = "nothing"
  /\ replies' = [replies EXCEPT ![r] = [scope |-> @.scope, told |-> told, event |-> event]]

\* A key that is new: the event is stored, whether or not the client hears of it.
Create(r, event) ==
  /\ replies[r].scope \notin DOMAIN keys
  /\ keys' = [s \in DOMAIN keys \cup {replies[r].scope} |->
                IF s = replies[r].scope THEN event ELSE keys[s]]
  /\ Reply(r, "accepted", event) \/ Reply(r, "failed", None)
  /\ Channel!Enqueue(event)

\* A key that is known.
Repeat(r) ==
  /\ replies[r].scope \in DOMAIN keys
  /\ Reply(r, "accepted", keys[replies[r].scope])
  /\ UNCHANGED <<keys, enqueued, copies, published>>

\* An error stores nothing.
Fail(r) ==
  /\ Reply(r, "failed", None)
  /\ UNCHANGED <<keys, enqueued, copies, published>>

\* The channel's own steps.
Transport ==
  /\ \/ \E event \in EventId : Channel!Deliver(event)
     \/ \E rows \in SUBSET enqueued : Channel!Publish(rows)
  /\ UNCHANGED <<keys, replies>>

Init ==
  /\ keys = [s \in {} |-> None]
  /\ replies \in [Request -> [scope : Scope, told : {"nothing"}, event : {None}]]
  /\ Channel!Init

Next ==
  \/ \E r \in Request : \/ \E event \in EventId : Create(r, event)
                        \/ Repeat(r)
                        \/ Fail(r)
  \/ Transport

Spec == Init /\ [][Next]_vars
===============================================================================
