-------------------------------- MODULE Events --------------------------------
(***************************************************************************)
(* The event service: POST /v1/events stores an event under its            *)
(* idempotency key together with an outbox row, and the outbox publisher   *)
(* of every replica writes the rows to Kafka.                              *)
(*                                                                         *)
(* A request is one transaction (READ COMMITTED) with a step for each      *)
(* statement that sees or locks what others see; a batch of the publisher  *)
(* is one transaction that holds its rows' locks while it writes.  Left    *)
(* out: request validation, payloads, timestamps, the outbox columns       *)
(* attempts and last_error (nothing reads them), and the ORDER BY of the   *)
(* batch, whose rows are chosen freely.                                    *)
(***************************************************************************)
EXTENDS Naturals, FiniteSets

CONSTANTS
  Tenant, Key,
  EventId,
  Request,     \* requests that clients send, repeated ones included
  Publisher,   \* the publisher of each replica
  BatchSize,   \* LIMIT of the batch
  MaxFaults,   \* bound: failed writes and lost transactions of publishers
  None

ASSUME EventsAssumption ==
  /\ BatchSize \in Nat \ {0} /\ MaxFaults \in Nat
  /\ None \notin EventId
  /\ IsFiniteSet(EventId)

VARIABLES
  events,       \* table events: the tenant of each stored event
  idempotency,  \* table event_idempotency: the event of each [tenant, key]
  outbox,       \* table outbox, by event: whether published_at is set
  request,      \* CreateEvent calls
  batch,        \* publishBatch calls: rows locked, still to write, written
  copies,       \* messages on the topic, by event
  faults

tables == <<events, idempotency, outbox>>
publishing == <<batch, copies, faults>>
vars == <<tables, request, publishing>>

Scope == [tenant : Tenant, key : Key]
Stage == {"new", "checked", "inserted", "accepted", "failed"}

-----------------------------------------------------------------------------
(* CreateEvent.                                                             *)

Answer(r, stage, event) ==
  request' = [request EXCEPT ![r] = [stage |-> stage, scope |-> @.scope, event |-> event]]

\* The SELECT on event_idempotency: a key that is known answers the request.
CheckIdempotency(r) ==
  /\ request[r].stage = "new"
  /\ IF request[r].scope \in DOMAIN idempotency
     THEN Answer(r, "accepted", idempotency[request[r].scope])
     ELSE Answer(r, "checked", None)
  /\ UNCHANGED <<tables, publishing>>

\* Another transaction has inserted the key and is still open: an INSERT waits.
KeyLocked(scope) ==
  \E r \in Request : request[r].stage = "inserted" /\ request[r].scope = scope

\* Mutant of KeyTaken: ON CONFLICT DO NOTHING instead of an error.
MutKeyTakenIgnored(scope) == FALSE

\* PRIMARY KEY (tenant_id, idempotency_key).
KeyTaken(scope) == scope \in DOMAIN idempotency

Unused(event) ==
  event \notin DOMAIN events /\ \A r \in Request : request[r].event # event

\* INSERT INTO events, event_idempotency and outbox: not visible to anybody yet.
InsertEvent(r) ==
  /\ request[r].stage = "checked"
  /\ ~KeyLocked(request[r].scope)
  /\ IF KeyTaken(request[r].scope)
     THEN Answer(r, "failed", None)
     ELSE \E event \in EventId : Unused(event) /\ Answer(r, "inserted", event)
  /\ UNCHANGED <<tables, publishing>>

\* Mutant of Store: the outbox row is not part of the transaction.
MutStoreWithoutOutbox(scope, event) ==
  /\ events' = [e \in DOMAIN events \cup {event} |->
                  IF e = event THEN scope.tenant ELSE events[e]]
  /\ idempotency' = [s \in DOMAIN idempotency \cup {scope} |->
                       IF s = scope THEN event ELSE idempotency[s]]
  /\ UNCHANGED outbox

Store(scope, event) ==
  /\ events' = [e \in DOMAIN events \cup {event} |->
                  IF e = event THEN scope.tenant ELSE events[e]]
  /\ idempotency' = [s \in DOMAIN idempotency \cup {scope} |->
                       IF s = scope THEN event ELSE idempotency[s]]
  /\ outbox' = [e \in DOMAIN outbox \cup {event} |->
                  IF e = event THEN FALSE ELSE outbox[e]]

\* The commit, whose answer may be lost on the way to the client.
CommitEvent(r) ==
  /\ request[r].stage = "inserted"
  /\ Store(request[r].scope, request[r].event)
  /\ \E stage \in {"accepted", "failed"} : Answer(r, stage, request[r].event)
  /\ UNCHANGED publishing

\* Mutant of RollBack: the client is told that its event was accepted.
MutRollBackAccepts(r) ==
  /\ request[r].stage \in {"new", "checked", "inserted"}
  /\ Answer(r, "accepted", request[r].event)
  /\ UNCHANGED <<tables, publishing>>

\* The transaction does not begin, a statement or the connection fails, or the
\* process dies, after the SELECT that finds a known key as well.
RollBack(r) ==
  /\ request[r].stage \in {"new", "checked", "inserted"}
  /\ Answer(r, "failed", None)
  /\ UNCHANGED <<tables, publishing>>

-----------------------------------------------------------------------------
(* publishBatch.                                                            *)

Idle == [locked |-> {}, todo |-> {}, sent |-> {}]

\* Mutant of Visible: FOR UPDATE without looking at what is locked.
MutVisibleLocked == {e \in DOMAIN outbox : ~outbox[e]}

\* published_at IS NULL ... FOR UPDATE SKIP LOCKED.
Visible ==
  {e \in DOMAIN outbox : ~outbox[e] /\ \A p \in Publisher : e \notin batch[p].locked}

OpenBatch(p, taken) ==
  /\ batch[p] = Idle
  /\ taken # {} /\ taken \subseteq Visible
  /\ Cardinality(taken) <= BatchSize
  /\ Cardinality(taken) < BatchSize => taken = Visible
  /\ batch' = [batch EXCEPT ![p] = [locked |-> taken, todo |-> taken, sent |-> {}]]
  /\ UNCHANGED <<tables, request, copies, faults>>

Wrote(b, e) == [locked |-> b.locked, todo |-> b.todo \ {e}, sent |-> b.sent \cup {e}]

WriteMessage(p, e) ==
  /\ e \in batch[p].todo
  /\ copies' = [copies EXCEPT ![e] = @ + 1]
  /\ batch' = [batch EXCEPT ![p] = Wrote(@, e)]
  /\ UNCHANGED <<tables, request, faults>>

\* kafka-go writes again when the broker stored the message but its answer
\* was lost.
WriteRetried(p, e) ==
  /\ e \in batch[p].todo
  /\ faults < MaxFaults
  /\ faults' = faults + 1
  /\ copies' = [copies EXCEPT ![e] = @ + 1]
  /\ UNCHANGED <<tables, request, batch>>

\* The row is left for a later batch; the broker may have stored the message.
WriteFails(p, e) ==
  /\ e \in batch[p].todo
  /\ faults < MaxFaults
  /\ faults' = faults + 1
  /\ \E stored \in {0, 1} : copies' = [copies EXCEPT ![e] = @ + stored]
  /\ batch' = [batch EXCEPT ![p].todo = @ \ {e}]
  /\ UNCHANGED <<tables, request>>

\* Mutant of CommitBatch: rows whose write failed are marked as well.
MutCommitBatchMarksAll(p) ==
  /\ batch[p] # Idle
  /\ batch[p].todo = {}
  /\ outbox' = [e \in DOMAIN outbox |-> outbox[e] \/ e \in batch[p].locked]
  /\ batch' = [batch EXCEPT ![p] = Idle]
  /\ UNCHANGED <<events, idempotency, request, copies, faults>>

CommitBatch(p) ==
  /\ batch[p] # Idle
  /\ batch[p].todo = {}
  /\ outbox' = [e \in DOMAIN outbox |-> outbox[e] \/ e \in batch[p].sent]
  /\ batch' = [batch EXCEPT ![p] = Idle]
  /\ UNCHANGED <<events, idempotency, request, copies, faults>>

\* An UPDATE or the commit fails, or the process dies: what was written to
\* Kafka stays, the marks do not.
LoseBatch(p) ==
  /\ batch[p] # Idle
  /\ faults < MaxFaults
  /\ faults' = faults + 1
  /\ batch' = [batch EXCEPT ![p] = Idle]
  /\ UNCHANGED <<tables, request, copies>>

-----------------------------------------------------------------------------
(* The message on the topic and what the delivery service reads from it.    *)

\* Message of publisher.go, with the payload that CreateEvent marshalled.
Envelope(e) ==
  [id |-> e, event_type |-> "EventAccepted", aggregate_type |-> "event",
   aggregate_id |-> e,
   payload |-> [event_id |-> e, tenant_id |-> events[e], event_type |-> "type",
                occurred_at |-> "time"]]

\* Unmarshalling into EventAccepted takes the fields it names and leaves zero
\* values for those that are missing.
Decode(message) ==
  [f \in {"message_id", "event_id", "tenant_id", "event_type", "payload"} |->
     IF f \in DOMAIN message THEN message[f] ELSE None]

\* The checks that HandleEventAccepted makes before it fans the event out.
Acceptable(e) ==
  \A f \in {"event_id", "tenant_id", "event_type", "payload"} : e[f] # None

-----------------------------------------------------------------------------
Init ==
  /\ events = [e \in {} |-> None]
  /\ idempotency = [s \in {} |-> None]
  /\ outbox = [e \in {} |-> FALSE]
  /\ request \in [Request -> [stage : {"new"}, scope : Scope, event : {None}]]
  /\ batch = [p \in Publisher |-> Idle]
  /\ copies = [e \in EventId |-> 0]
  /\ faults = 0

Next ==
  \/ \E r \in Request : \/ CheckIdempotency(r)
                        \/ InsertEvent(r)
                        \/ CommitEvent(r)
                        \/ RollBack(r)
  \/ \E p \in Publisher : \/ \E taken \in SUBSET DOMAIN outbox : OpenBatch(p, taken)
                          \/ \E e \in EventId : \/ WriteMessage(p, e) \/ WriteRetried(p, e)
                                                \/ WriteFails(p, e)
                          \/ CommitBatch(p)
                          \/ LoseBatch(p)

Spec == Init /\ [][Next]_vars

\* A publisher's loop goes on, and since the oldest rows come first every row
\* gets its turn.
Fairness ==
  /\ \A p \in Publisher :
       /\ WF_vars(\E e \in EventId : WriteMessage(p, e) \/ WriteFails(p, e))
       /\ WF_vars(CommitBatch(p))
  /\ \A e \in EventId :
       SF_vars(\E p \in Publisher, taken \in SUBSET DOMAIN outbox :
                 e \in taken /\ OpenBatch(p, taken))

FairSpec == Spec /\ Fairness

-----------------------------------------------------------------------------
(* Properties.                                                              *)

TypeOK ==
  /\ DOMAIN events \subseteq EventId /\ events \in [DOMAIN events -> Tenant]
  /\ DOMAIN idempotency \subseteq Scope /\ idempotency \in [DOMAIN idempotency -> EventId]
  /\ DOMAIN outbox = DOMAIN events /\ outbox \in [DOMAIN outbox -> BOOLEAN]
  /\ request \in [Request -> [stage : Stage, scope : Scope, event : EventId \cup {None}]]
  /\ \A r \in Request : request[r].stage = "inserted" => request[r].event # None
  /\ batch \in [Publisher -> [locked : SUBSET DOMAIN outbox, todo : SUBSET DOMAIN outbox,
                              sent : SUBSET DOMAIN outbox]]
  /\ copies \in [EventId -> Nat] /\ faults \in Nat

\* "Event ingestion with idempotency" (README.md): requests of one tenant that
\* carry the same key, concurrent or repeated, are never answered with two
\* events, and no stored event is without a key of its own.
OneEventPerKey ==
  /\ \A r, s \in Request :
       request[r].stage = "accepted" /\ request[s].stage = "accepted"
         /\ request[r].scope = request[s].scope
       => request[r].event = request[s].event
  /\ \A e \in DOMAIN events : \E s \in DOMAIN idempotency : idempotency[s] = e
  /\ \A s, t \in DOMAIN idempotency : idempotency[s] = idempotency[t] => s = t

\* The API never says "accepted" for an event that was not persisted with its
\* outbox row (README.md, Reliable event ingestion).
AcceptedIsStored ==
  \A r \in Request : request[r].stage = "accepted" =>
    /\ request[r].event \in DOMAIN events \cap DOMAIN outbox
    /\ events[request[r].event] = request[r].scope.tenant

\* A row that is marked published is on the topic, through failed writes, lost
\* batches and other replicas' publishers.
PublishedIsOnTopic == \A e \in DOMAIN outbox : outbox[e] => copies[e] > 0

\* What the client was told of its request.
Told(stage) ==
  IF stage \in {"accepted", "failed"} THEN stage ELSE "nothing"

\* A request is open until it is answered; a failed one names no event.
Replies ==
  [r \in Request |->
     [scope |-> request[r].scope, told |-> Told(request[r].stage),
      event |-> IF request[r].stage = "accepted" THEN request[r].event ELSE None]]

Service == INSTANCE EventService
  WITH keys <- idempotency, replies <- Replies,
       enqueued <- DOMAIN outbox, published <- {e \in DOMAIN outbox : outbox[e]}

\* Requests that overlap, their rollbacks and lost answers, and the publishers'
\* batches implement a service that answers each request in one step and an
\* at-least-once channel: one event per key, accepted only when it was stored
\* and will be sent, published only when it was sent.
ImplementsService == Service!Spec

\* The publisher repeats a message "in a crash scenario" only: replicas that
\* publish side by side add no copies, each one is paid for by a fault.
CopiesNeedFaults == \A e \in EventId : copies[e] <= 1 + faults

\* Every event that was stored reaches the topic in the end.
EventuallyPublished == \A e \in EventId : e \in DOMAIN outbox ~> copies[e] > 0

\* "Hookyard finds the endpoints subscribed to order.created and creates
\* deliveries for them" (README.md): what is on the topic is an event that the
\* delivery service can read.
DeliveryServiceUnderstands ==
  \A e \in EventId : copies[e] > 0 => Acceptable(Decode(Envelope(e)))
===============================================================================
