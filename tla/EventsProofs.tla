----------------------------- MODULE EventsProofs -----------------------------
(***************************************************************************)
(* Theorems about Events, for any number of requests, keys, publishers and *)
(* faults.                                                                 *)
(***************************************************************************)
EXTENDS Events, TLAPS

\* What Store leaves behind.
LEMMA Stored ==
  ASSUME TypeOK, NEW scope \in Scope, NEW event \in EventId, Store(scope, event)
  PROVE  /\ DOMAIN events' = DOMAIN events \cup {event}
         /\ DOMAIN outbox' = DOMAIN outbox \cup {event}
         /\ DOMAIN idempotency' = DOMAIN idempotency \cup {scope}
         /\ events'[event] = scope.tenant /\ ~outbox'[event]
         /\ idempotency'[scope] = event
         /\ \A e \in DOMAIN events \ {event} : events'[e] = events[e]
         /\ \A e \in DOMAIN outbox \ {event} : outbox'[e] = outbox[e]
         /\ \A s \in DOMAIN idempotency \ {scope} : idempotency'[s] = idempotency[s]
         /\ events' \in [DOMAIN events' -> Tenant]
         /\ outbox' \in [DOMAIN outbox' -> BOOLEAN]
         /\ idempotency' \in [DOMAIN idempotency' -> EventId]
  BY DEF Store, TypeOK, Scope

\* What Answer does to the other requests and to its own.
LEMMA Answered ==
  ASSUME TypeOK, NEW r \in Request, NEW stage \in Stage,
         NEW event \in EventId \cup {None}, Answer(r, stage, event)
  PROVE  /\ \A s \in Request \ {r} : request'[s] = request[s]
         /\ request'[r] = [stage |-> stage, scope |-> request[r].scope, event |-> event]
         /\ request' \in [Request -> [stage : Stage, scope : Scope,
                                      event : EventId \cup {None}]]
  BY DEF Answer, TypeOK

\* The changes a request can make: it is answered without touching the tables,
\* it inserts under a free key, or it commits.
LEMMA RequestSteps ==
  ASSUME TypeOK, NEW r \in Request,
         CheckIdempotency(r) \/ InsertEvent(r) \/ CommitEvent(r) \/ RollBack(r)
  PROVE  \/ /\ UNCHANGED tables
            /\ \E stage \in {"checked", "failed"} : Answer(r, stage, None)
         \/ /\ UNCHANGED tables
            /\ request[r].scope \in DOMAIN idempotency
            /\ Answer(r, "accepted", idempotency[request[r].scope])
         \/ /\ UNCHANGED tables
            /\ request[r].scope \notin DOMAIN idempotency
            /\ ~KeyLocked(request[r].scope)
            /\ \E event \in EventId : Unused(event) /\ Answer(r, "inserted", event)
         \/ /\ request[r].stage = "inserted"
            /\ Store(request[r].scope, request[r].event)
            /\ \E stage \in {"accepted", "failed"} : Answer(r, stage, request[r].event)
  BY DEF CheckIdempotency, InsertEvent, CommitEvent, RollBack, KeyTaken

\* The type invariant is kept by every action.
LEMMA TypeStep == TypeOK /\ [Next]_vars => TypeOK'
  <1> SUFFICES ASSUME TypeOK, [Next]_vars PROVE TypeOK'
      OBVIOUS
  <1>1. ASSUME NEW r \in Request,
               CheckIdempotency(r) \/ InsertEvent(r) \/ CommitEvent(r) \/ RollBack(r)
        PROVE  TypeOK'
    <2>1. UNCHANGED publishing
          BY <1>1 DEF CheckIdempotency, InsertEvent, CommitEvent, RollBack
    <2>2. request[r].scope \in Scope /\ request[r].event \in EventId \cup {None}
          BY DEF TypeOK
    <2>3. ASSUME UNCHANGED tables, NEW stage \in Stage, NEW event \in EventId \cup {None},
                 Answer(r, stage, event), stage = "inserted" => event # None
          PROVE  TypeOK'
      <3>1. /\ \A s \in Request \ {r} : request'[s] = request[s]
            /\ request'[r] = [stage |-> stage, scope |-> request[r].scope, event |-> event]
            /\ request' \in [Request -> [stage : Stage, scope : Scope,
                                         event : EventId \cup {None}]]
            BY <2>3, Answered
      <3>2. \A s \in Request : request'[s].stage = "inserted" => request'[s].event # None
            BY <2>3, <3>1 DEF TypeOK
      <3>3. UNCHANGED <<events, idempotency, outbox, batch, copies, faults>>
            BY <2>1, <2>3 DEF tables, publishing
      <3> QED BY <3>1, <3>2, <3>3 DEF TypeOK
    <2>4. CASE \E stage \in {"checked", "failed"} : UNCHANGED tables /\ Answer(r, stage, None)
          BY <2>3, <2>4 DEF Stage
    <2>5. CASE /\ UNCHANGED tables
               /\ request[r].scope \in DOMAIN idempotency
               /\ Answer(r, "accepted", idempotency[request[r].scope])
      <3>1. idempotency[request[r].scope] \in EventId
            BY <2>5 DEF TypeOK
      <3> QED BY <2>3, <2>5, <3>1 DEF Stage
    <2>6. CASE UNCHANGED tables /\ \E event \in EventId : Answer(r, "inserted", event)
          BY <2>3, <2>6, EventsAssumption DEF Stage
    <2>7. ASSUME request[r].stage = "inserted", Store(request[r].scope, request[r].event),
                 NEW stage \in {"accepted", "failed"}, Answer(r, stage, request[r].event)
          PROVE  TypeOK'
      <3>1. request[r].event \in EventId
            BY <2>2, <2>7 DEF TypeOK
      <3>2. stage \in Stage
            BY DEF Stage
      <3>3. /\ \A s \in Request \ {r} : request'[s] = request[s]
            /\ request'[r] = [stage |-> stage, scope |-> request[r].scope, event |-> request[r].event]
            /\ request' \in [Request -> [stage : Stage, scope : Scope,
                                         event : EventId \cup {None}]]
            BY <2>7, <3>1, <3>2, Answered
      <3>4. /\ DOMAIN events' = DOMAIN events \cup {request[r].event}
            /\ DOMAIN outbox' = DOMAIN outbox \cup {request[r].event}
            /\ DOMAIN idempotency' = DOMAIN idempotency \cup {request[r].scope}
            /\ events' \in [DOMAIN events' -> Tenant]
            /\ outbox' \in [DOMAIN outbox' -> BOOLEAN]
            /\ idempotency' \in [DOMAIN idempotency' -> EventId]
            BY <2>2, <2>7, <3>1, Stored
      <3>5. \A s \in Request : request'[s].stage = "inserted" => request'[s].event # None
            BY <2>7, <3>3 DEF TypeOK
      <3>6. /\ batch' \in [Publisher -> [locked : SUBSET DOMAIN outbox', todo : SUBSET DOMAIN outbox',
                                          sent : SUBSET DOMAIN outbox']]
            /\ copies' \in [EventId -> Nat] /\ faults' \in Nat
            BY <2>1, <3>4 DEF TypeOK, publishing
      <3> QED BY <2>2, <3>1, <3>3, <3>4, <3>5, <3>6 DEF TypeOK
    <2> QED BY <1>1, <2>4, <2>5, <2>6, <2>7, RequestSteps
  <1>2. ASSUME NEW p \in Publisher,
               \/ \E taken \in SUBSET DOMAIN outbox : OpenBatch(p, taken)
               \/ \E e \in EventId : WriteMessage(p, e) \/ WriteRetried(p, e) \/ WriteFails(p, e)
               \/ CommitBatch(p) \/ LoseBatch(p)
        PROVE  TypeOK'
    <2>1. CASE \E taken \in SUBSET DOMAIN outbox : OpenBatch(p, taken)
          BY <2>1 DEF TypeOK, OpenBatch, tables
    <2>2. ASSUME NEW e \in EventId, WriteMessage(p, e) PROVE TypeOK'
      <3>1. copies' \in [EventId -> Nat]
            BY <2>2 DEF TypeOK, WriteMessage
      <3>2. e \in DOMAIN outbox
            BY <2>2 DEF TypeOK, WriteMessage
      <3>3. batch' \in [Publisher -> [locked : SUBSET DOMAIN outbox, todo : SUBSET DOMAIN outbox,
                                      sent : SUBSET DOMAIN outbox]]
        <4>1. Wrote(batch[p], e)
                \in [locked : SUBSET DOMAIN outbox, todo : SUBSET DOMAIN outbox,
                     sent : SUBSET DOMAIN outbox]
          <5>1. batch[p] \in [locked : SUBSET DOMAIN outbox, todo : SUBSET DOMAIN outbox,
                              sent : SUBSET DOMAIN outbox]
                BY DEF TypeOK
          <5> QED BY <3>2, <5>1 DEF Wrote
        <4> QED BY <2>2, <4>1 DEF TypeOK, WriteMessage
      <3> QED BY <2>2, <3>1, <3>3 DEF TypeOK, WriteMessage, tables
    <2>3. ASSUME NEW e \in EventId, WriteFails(p, e) PROVE TypeOK'
      <3>1. [batch[p] EXCEPT !.todo = @ \ {e}]
              \in [locked : SUBSET DOMAIN outbox, todo : SUBSET DOMAIN outbox,
                   sent : SUBSET DOMAIN outbox]
            BY DEF TypeOK
      <3>2. batch' \in [Publisher -> [locked : SUBSET DOMAIN outbox, todo : SUBSET DOMAIN outbox,
                                      sent : SUBSET DOMAIN outbox]]
            BY <2>3, <3>1 DEF TypeOK, WriteFails
      <3>3. \A stored \in {0, 1} : copies[e] + stored \in Nat
            BY DEF TypeOK
      <3>4. copies' \in [EventId -> Nat] /\ faults' \in Nat
            BY <2>3, <3>3 DEF TypeOK, WriteFails
      <3>5. UNCHANGED <<events, idempotency, outbox, request>>
            BY <2>3 DEF WriteFails, tables
      <3> QED BY <3>2, <3>4, <3>5 DEF TypeOK
    <2>4. ASSUME NEW e \in EventId, WriteRetried(p, e) PROVE TypeOK'
          BY <2>4 DEF TypeOK, WriteRetried, tables
    <2>5. CASE CommitBatch(p)
          BY <2>5 DEF TypeOK, CommitBatch, Idle
    <2>6. CASE LoseBatch(p)
          BY <2>6 DEF TypeOK, LoseBatch, Idle, tables
    <2> QED BY <1>2, <2>1, <2>2, <2>3, <2>4, <2>5, <2>6
  <1>3. CASE UNCHANGED vars
        BY <1>3 DEF TypeOK, vars, tables, publishing
  <1> QED BY <1>1, <1>2, <1>3 DEF Next

\* Every reachable state of the tables, the requests and the batches is well
\* formed, and each event has its outbox row.
THEOREM EventTyping == Spec => []TypeOK
  <1>1. Init => TypeOK
        BY DEF Init, TypeOK, Idle, Stage
  <1> QED BY <1>1, TypeStep, PTL DEF Spec

-----------------------------------------------------------------------------
(* Keys.                                                                    *)

\* The table of keys is a one-to-one map onto the stored events; a request that
\* was accepted names its key's event, and one that has inserted holds a key and
\* an event that nobody else has.
KeyInv ==
  /\ \A s \in DOMAIN idempotency : /\ idempotency[s] \in DOMAIN events
                                   /\ events[idempotency[s]] = s.tenant
  /\ \A s, t \in DOMAIN idempotency : idempotency[s] = idempotency[t] => s = t
  /\ \A e \in DOMAIN events : \E s \in DOMAIN idempotency : idempotency[s] = e
  /\ \A r \in Request : request[r].stage = "accepted" =>
       /\ request[r].scope \in DOMAIN idempotency
       /\ request[r].event = idempotency[request[r].scope]
  /\ \A r \in Request : request[r].stage = "inserted" =>
       /\ request[r].scope \notin DOMAIN idempotency
       /\ request[r].event \notin DOMAIN events
  /\ \A r, s \in Request :
       r # s /\ request[r].stage = "inserted" /\ request[s].stage = "inserted" =>
         request[r].scope # request[s].scope /\ request[r].event # request[s].event

LEMMA KeyStep == TypeOK /\ KeyInv /\ [Next]_vars => KeyInv'
  <1> SUFFICES ASSUME TypeOK, KeyInv, [Next]_vars PROVE KeyInv'
      OBVIOUS
  <1>1. ASSUME NEW r \in Request,
               CheckIdempotency(r) \/ InsertEvent(r) \/ CommitEvent(r) \/ RollBack(r)
        PROVE  KeyInv'
    <2>1. request[r].scope \in Scope /\ request[r].event \in EventId \cup {None}
          BY DEF TypeOK
    <2>2. ASSUME UNCHANGED tables, NEW stage \in {"checked", "failed"}, Answer(r, stage, None)
          PROVE  KeyInv'
      <3>1. stage \in Stage /\ stage # "accepted" /\ stage # "inserted"
            BY DEF Stage
      <3>2. /\ \A s \in Request \ {r} : request'[s] = request[s]
            /\ request'[r] = [stage |-> stage, scope |-> request[r].scope, event |-> None]
            BY <2>2, <3>1, Answered
      <3> QED BY <2>2, <3>1, <3>2 DEF KeyInv, tables
    <2>3. CASE /\ UNCHANGED tables
               /\ request[r].scope \in DOMAIN idempotency
               /\ Answer(r, "accepted", idempotency[request[r].scope])
      <3>1. idempotency[request[r].scope] \in EventId
            BY <2>3 DEF TypeOK
      <3>2. "accepted" \in Stage
            BY DEF Stage
      <3>3. /\ \A s \in Request \ {r} : request'[s] = request[s]
            /\ request'[r] = [stage |-> "accepted", scope |-> request[r].scope, event |-> idempotency[request[r].scope]]
            BY <2>3, <3>1, <3>2, Answered
      <3> QED BY <2>3, <3>3 DEF KeyInv, tables
    <2>4. ASSUME UNCHANGED tables, request[r].scope \notin DOMAIN idempotency,
                 ~KeyLocked(request[r].scope),
                 NEW event \in EventId, Unused(event), Answer(r, "inserted", event)
          PROVE  KeyInv'
      <3>1. "inserted" \in Stage
            BY DEF Stage
      <3>2. /\ \A s \in Request \ {r} : request'[s] = request[s]
            /\ request'[r] = [stage |-> "inserted", scope |-> request[r].scope, event |-> event]
            BY <2>4, <3>1, Answered
      <3>3. /\ event \notin DOMAIN events
            /\ \A s \in Request : request[s].event # event
            /\ \A s \in Request : request[s].stage = "inserted" =>
                                   request[s].scope # request[r].scope
            BY <2>4 DEF KeyLocked, Unused
      <3> QED BY <2>4, <3>2, <3>3 DEF KeyInv, tables
    <2>5. ASSUME request[r].stage = "inserted", Store(request[r].scope, request[r].event),
                 NEW stage \in {"accepted", "failed"}, Answer(r, stage, request[r].event)
          PROVE  KeyInv'
      <3>1. request[r].event \in EventId
            BY <2>1, <2>5 DEF TypeOK
      <3>2. stage \in Stage /\ stage # "inserted"
            BY DEF Stage
      <3> DEFINE scope == request[r].scope  event == request[r].event
      <3>3. /\ DOMAIN events' = DOMAIN events \cup {event}
            /\ DOMAIN idempotency' = DOMAIN idempotency \cup {scope}
            /\ events'[event] = scope.tenant /\ idempotency'[scope] = event
            /\ \A e \in DOMAIN events \ {event} : events'[e] = events[e]
            /\ \A s \in DOMAIN idempotency \ {scope} : idempotency'[s] = idempotency[s]
        <4>1. scope \in Scope /\ event \in EventId /\ Store(scope, event)
              BY <2>1, <2>5, <3>1
        <4> HIDE DEF scope, event
        <4> QED BY ONLY TypeOK, <4>1, Stored
      <3>4. /\ \A s \in Request \ {r} : request'[s] = request[s]
            /\ request'[r] = [stage |-> stage, scope |-> scope, event |-> event]
            BY <2>1, <2>5, <3>2, Answered
      <3>5. scope \notin DOMAIN idempotency /\ event \notin DOMAIN events
            BY <2>5 DEF KeyInv
      <3>6. /\ \A s \in DOMAIN idempotency' : /\ idempotency'[s] \in DOMAIN events'
                                              /\ events'[idempotency'[s]] = s.tenant
            /\ \A s, t \in DOMAIN idempotency' : idempotency'[s] = idempotency'[t] => s = t
            /\ \A e \in DOMAIN events' : \E s \in DOMAIN idempotency' : idempotency'[s] = e
            BY <3>3, <3>5 DEF KeyInv
      <3>7. ASSUME NEW s \in Request, request'[s].stage = "accepted"
            PROVE  /\ request'[s].scope \in DOMAIN idempotency'
                   /\ request'[s].event = idempotency'[request'[s].scope]
            BY <3>3, <3>4, <3>5, <3>7 DEF KeyInv
      <3>8. ASSUME NEW s \in Request, request'[s].stage = "inserted"
            PROVE  /\ request'[s].scope \notin DOMAIN idempotency'
                   /\ request'[s].event \notin DOMAIN events'
            BY <2>5, <3>2, <3>3, <3>4, <3>8 DEF KeyInv
      <3>9. ASSUME NEW s \in Request, NEW t \in Request, s # t,
                   request'[s].stage = "inserted", request'[t].stage = "inserted"
            PROVE  request'[s].scope # request'[t].scope /\ request'[s].event # request'[t].event
            BY <3>2, <3>4, <3>9 DEF KeyInv
      <3> QED BY <3>6, <3>7, <3>8, <3>9 DEF KeyInv
    <2> QED BY <1>1, <2>2, <2>3, <2>4, <2>5, RequestSteps
  <1>2. CASE UNCHANGED <<events, idempotency, request>>
        BY <1>2 DEF KeyInv
  <1> QED
      BY <1>1, <1>2 DEF Next, vars, tables, OpenBatch, WriteMessage, WriteRetried, WriteFails,
         CommitBatch, LoseBatch

\* Concurrent and repeated requests with one key are answered with one event.
THEOREM Idempotent == Spec => []OneEventPerKey
  <1>1. Init => KeyInv
        BY DEF Init, KeyInv
  <1>2. KeyInv => OneEventPerKey
        BY DEF KeyInv, OneEventPerKey
  <1> QED BY <1>1, <1>2, KeyStep, EventTyping, PTL DEF Spec

\* What was accepted is stored together with its outbox row.
THEOREM Accepted == Spec => []AcceptedIsStored
  <1>1. Init => KeyInv
        BY DEF Init, KeyInv
  <1>2. TypeOK /\ KeyInv => AcceptedIsStored
        BY DEF TypeOK, KeyInv, AcceptedIsStored
  <1> QED BY <1>1, <1>2, KeyStep, EventTyping, PTL DEF Spec

-----------------------------------------------------------------------------
(* Copies.                                                                  *)

Written(e) == \/ e \in DOMAIN outbox /\ outbox[e]
              \/ \E p \in Publisher : e \in batch[p].sent

\* A row is locked by one batch at a time, only while it is unpublished; it was
\* written by that batch, or not yet, or by one that a fault ended.
CopyInv ==
  /\ \A p, q \in Publisher : p # q => batch[p].locked \cap batch[q].locked = {}
  /\ \A p \in Publisher :
       /\ \A e \in batch[p].locked : ~outbox[e]
       /\ batch[p].todo \subseteq batch[p].locked /\ batch[p].sent \subseteq batch[p].locked
       /\ batch[p].todo \cap batch[p].sent = {}
  /\ \A e \in EventId : /\ Written(e) => copies[e] > 0
                        /\ copies[e] <= faults + (IF Written(e) THEN 1 ELSE 0)

LEMMA CopyStep == TypeOK /\ KeyInv /\ CopyInv /\ [Next]_vars => CopyInv'
  <1> SUFFICES ASSUME TypeOK, KeyInv, CopyInv, [Next]_vars PROVE CopyInv'
      OBVIOUS
  <1> USE DEF CopyInv
  <1>1. /\ faults \in Nat /\ \A e \in EventId : copies[e] \in Nat
        /\ \A p \in Publisher : batch[p].locked \subseteq DOMAIN outbox
        /\ DOMAIN outbox \subseteq EventId
        BY DEF TypeOK
  <1>2. ASSUME NEW r \in Request,
               CheckIdempotency(r) \/ InsertEvent(r) \/ CommitEvent(r) \/ RollBack(r)
        PROVE  CopyInv'
    <2>1. UNCHANGED publishing
          BY <1>2 DEF CheckIdempotency, InsertEvent, CommitEvent, RollBack
    <2>2. CASE UNCHANGED outbox
          BY <2>1, <2>2 DEF publishing, Written
    <2>3. ASSUME request[r].stage = "inserted", Store(request[r].scope, request[r].event)
          PROVE  CopyInv'
      <3>1. /\ request[r].scope \in Scope /\ request[r].event \in EventId
            /\ request[r].event \notin DOMAIN outbox
            BY <1>2, <2>3 DEF TypeOK, KeyInv
      <3>2. /\ DOMAIN outbox' = DOMAIN outbox \cup {request[r].event}
            /\ ~outbox'[request[r].event]
            /\ \A e \in DOMAIN outbox : outbox'[e] = outbox[e]
        <4>1. /\ DOMAIN outbox' = DOMAIN outbox \cup {request[r].event}
              /\ ~outbox'[request[r].event]
              /\ \A e \in DOMAIN outbox \ {request[r].event} : outbox'[e] = outbox[e]
          <5> DEFINE scope == request[r].scope  event == request[r].event
          <5>1. scope \in Scope /\ event \in EventId /\ Store(scope, event)
                BY <2>3, <3>1
          <5> HIDE DEF scope, event
          <5>2. /\ DOMAIN outbox' = DOMAIN outbox \cup {event}
                /\ ~outbox'[event]
                /\ \A e \in DOMAIN outbox \ {event} : outbox'[e] = outbox[e]
                BY ONLY TypeOK, <5>1, Stored
          <5> QED BY <5>2 DEF event
        <4> QED BY <3>1, <4>1
      <3>3. \A e \in EventId : Written(e)' <=> Written(e)
            BY <2>1, <3>1, <3>2 DEF Written, publishing
      <3>4. batch' = batch /\ copies' = copies /\ faults' = faults
            BY <2>1 DEF publishing
      <3>5. \A p \in Publisher : \A e \in batch[p].locked : ~outbox'[e]
            BY <1>1, <3>2
      <3> QED BY <3>3, <3>4, <3>5
    <2> QED BY <1>2, <2>2, <2>3 DEF CheckIdempotency, InsertEvent, CommitEvent, RollBack, tables
  <1>3. ASSUME NEW p \in Publisher, NEW taken \in SUBSET DOMAIN outbox, OpenBatch(p, taken)
        PROVE  CopyInv'
    <2>1. /\ batch'[p] = [locked |-> taken, todo |-> taken, sent |-> {}]
          /\ \A q \in Publisher \ {p} : batch'[q] = batch[q]
          /\ batch[p].sent = {}
          BY <1>3 DEF OpenBatch, TypeOK, Idle
    <2>2. \A e \in EventId : Written(e)' <=> Written(e)
          BY <1>3, <2>1 DEF OpenBatch, Written, tables
    <2>3. /\ \A e \in taken : ~outbox[e]
          /\ \A q \in Publisher : taken \cap batch[q].locked = {}
          BY <1>3 DEF OpenBatch, Visible
    <2>4. UNCHANGED <<outbox, copies, faults>>
          BY <1>3 DEF OpenBatch, tables
    <2> QED BY <2>1, <2>2, <2>3, <2>4
  <1>4. ASSUME NEW p \in Publisher, NEW e \in EventId, WriteMessage(p, e) PROVE CopyInv'
    <2>1. /\ batch'[p].locked = batch[p].locked
          /\ batch'[p].todo = batch[p].todo \ {e} /\ batch'[p].sent = batch[p].sent \cup {e}
          /\ \A q \in Publisher \ {p} : batch'[q] = batch[q]
          BY <1>4 DEF WriteMessage, Wrote, TypeOK
    <2>2. /\ copies'[e] = copies[e] + 1 /\ \A d \in EventId \ {e} : copies'[d] = copies[d]
          /\ UNCHANGED <<outbox, faults>> /\ e \in batch[p].locked /\ e \notin batch[p].sent
          BY <1>4 DEF WriteMessage, TypeOK, tables
    <2>3. ~Written(e)
          BY <2>2 DEF Written
    <2>4. Written(e)' /\ \A d \in EventId \ {e} : Written(d)' <=> Written(d)
          BY <2>1, <2>2 DEF Written
    <2>5. \A d \in EventId : /\ Written(d)' => copies'[d] > 0
                            /\ copies'[d] <= faults' + (IF Written(d)' THEN 1 ELSE 0)
          BY <1>1, <2>2, <2>3, <2>4
    <2> QED BY <2>1, <2>2, <2>5
  <1>5. ASSUME NEW p \in Publisher, NEW e \in EventId, WriteFails(p, e) PROVE CopyInv'
    <2>1. /\ batch'[p].locked = batch[p].locked
          /\ batch'[p].todo = batch[p].todo \ {e} /\ batch'[p].sent = batch[p].sent
          /\ \A q \in Publisher \ {p} : batch'[q] = batch[q]
          BY <1>5 DEF WriteFails, TypeOK
    <2>2. /\ copies'[e] \in {copies[e], copies[e] + 1}
          /\ \A d \in EventId \ {e} : copies'[d] = copies[d]
          /\ outbox' = outbox /\ faults' = faults + 1
          BY <1>1, <1>5 DEF WriteFails, TypeOK, tables
    <2>3. \A d \in EventId : Written(d)' <=> Written(d)
          BY <2>1, <2>2 DEF Written
    <2>4. \A d \in EventId : /\ Written(d)' => copies'[d] > 0
                            /\ copies'[d] <= faults' + (IF Written(d)' THEN 1 ELSE 0)
          BY <1>1, <2>2, <2>3
    <2> QED BY <2>1, <2>2, <2>4
  <1>6. ASSUME NEW p \in Publisher, CommitBatch(p) PROVE CopyInv'
    <2>1. /\ batch'[p] = Idle /\ \A q \in Publisher \ {p} : batch'[q] = batch[q]
          /\ DOMAIN outbox' = DOMAIN outbox
          /\ \A e \in DOMAIN outbox : outbox'[e] <=> outbox[e] \/ e \in batch[p].sent
          /\ UNCHANGED <<copies, faults>>
      <3>1. batch'[p] = Idle /\ \A q \in Publisher \ {p} : batch'[q] = batch[q]
            BY <1>6 DEF CommitBatch, TypeOK
      <3>2. /\ outbox' = [e \in DOMAIN outbox |-> outbox[e] \/ e \in batch[p].sent]
            /\ UNCHANGED <<copies, faults>>
            BY <1>6 DEF CommitBatch
      <3>3. /\ DOMAIN outbox' = DOMAIN outbox
            /\ \A e \in DOMAIN outbox : outbox'[e] <=> outbox[e] \/ e \in batch[p].sent
            BY ONLY <3>2
      <3> QED BY ONLY <3>1, <3>2, <3>3
    <2>2. \A e \in EventId : Written(e)' <=> Written(e)
          BY <1>1, <2>1 DEF Written, Idle
    <2>3. \A q \in Publisher \ {p} : \A e \in batch[q].locked : ~outbox'[e]
          BY <1>1, <2>1
    <2> QED BY <2>1, <2>2, <2>3 DEF Idle
  <1>7. ASSUME NEW p \in Publisher, LoseBatch(p) PROVE CopyInv'
    <2>1. /\ batch'[p] = Idle /\ \A q \in Publisher \ {p} : batch'[q] = batch[q]
          /\ faults' = faults + 1 /\ UNCHANGED <<outbox, copies>>
          BY <1>7 DEF LoseBatch, TypeOK, tables
    <2>2. \A e \in EventId : Written(e)' => Written(e)
          BY <2>1 DEF Written, Idle
    <2>3. \A e \in EventId : /\ Written(e)' => copies'[e] > 0
                            /\ copies'[e] <= faults' + (IF Written(e)' THEN 1 ELSE 0)
          BY <1>1, <2>1, <2>2
    <2> QED BY <2>1, <2>3 DEF Idle
  <1>8. ASSUME NEW p \in Publisher, NEW e \in EventId, WriteRetried(p, e) PROVE CopyInv'
    <2>1. /\ copies'[e] = copies[e] + 1 /\ \A d \in EventId \ {e} : copies'[d] = copies[d]
          /\ UNCHANGED <<outbox, batch>> /\ faults' = faults + 1
          BY <1>8 DEF WriteRetried, TypeOK, tables
    <2>2. \A d \in EventId : Written(d)' <=> Written(d)
          BY <2>1 DEF Written
    <2> QED BY <1>1, <2>1, <2>2
  <1>9. CASE UNCHANGED vars
        BY <1>9 DEF vars, tables, publishing, Written
  <1> QED BY <1>2, <1>3, <1>4, <1>5, <1>6, <1>7, <1>8, <1>9 DEF Next

\* A row marked as published is on the topic, whatever writes and batches failed.
THEOREM Published == Spec => []PublishedIsOnTopic
  <1>1. Init => KeyInv /\ CopyInv
        BY DEF Init, KeyInv, CopyInv, Written, Idle
  <1>2. TypeOK /\ CopyInv => PublishedIsOnTopic
        BY DEF TypeOK, CopyInv, PublishedIsOnTopic, Written
  <1> QED BY <1>1, <1>2, KeyStep, CopyStep, EventTyping, PTL DEF Spec

\* Every copy of a message beyond the first is paid for by a fault of a
\* publisher, with any number of publishers side by side.
THEOREM Copies == Spec => []CopiesNeedFaults
  <1>1. Init => KeyInv /\ CopyInv
        BY DEF Init, KeyInv, CopyInv, Written, Idle
  <1>2. TypeOK /\ CopyInv => CopiesNeedFaults
    <2> SUFFICES ASSUME TypeOK, CopyInv, NEW e \in EventId PROVE copies[e] <= 1 + faults
        BY DEF CopiesNeedFaults
    <2>1. copies[e] \in Nat /\ faults \in Nat
          BY DEF TypeOK
    <2>2. copies[e] <= faults + (IF Written(e) THEN 1 ELSE 0)
          BY DEF CopyInv
    <2> QED BY <2>1, <2>2
  <1> QED BY <1>1, <1>2, KeyStep, CopyStep, EventTyping, PTL DEF Spec

-----------------------------------------------------------------------------
(* ImplementsService.                                                       *)

\* What a request's step shows to its client, and to no other.
LEMMA Shown ==
  ASSUME TypeOK, NEW r \in Request, NEW stage \in Stage,
         NEW event \in EventId \cup {None}, Answer(r, stage, event)
  PROVE  Replies' = [Replies EXCEPT ![r] =
           [scope |-> @.scope, told |-> Told(stage),
            event |-> IF stage = "accepted" THEN event ELSE None]]
  <1>1. /\ \A s \in Request \ {r} : request'[s] = request[s]
        /\ request'[r] = [stage |-> stage, scope |-> request[r].scope, event |-> event]
        BY Answered
  <1> DEFINE Shows(call) ==
        [scope |-> call.scope, told |-> Told(call.stage),
         event |-> IF call.stage = "accepted" THEN call.event ELSE None]
  <1>2. /\ Replies = [s \in Request |-> Shows(request[s])]
        /\ Replies' = [s \in Request |-> Shows(request'[s])]
        BY DEF Replies
  <1>3. Shows(request'[r]) =
          [scope |-> Shows(request[r]).scope, told |-> Told(stage),
           event |-> IF stage = "accepted" THEN event ELSE None]
        BY <1>1
  <1>4. \A s \in Request \ {r} : Shows(request'[s]) = Shows(request[s])
        BY <1>1
  <1> HIDE DEF Shows
  <1> QED BY ONLY <1>2, <1>3, <1>4, r \in Request

\* A request that still has a step has not been answered.
LEMMA Unanswered ==
  ASSUME TypeOK, NEW r \in Request,
         CheckIdempotency(r) \/ InsertEvent(r) \/ CommitEvent(r) \/ RollBack(r)
  PROVE  /\ Replies[r] = [scope |-> request[r].scope, told |-> "nothing", event |-> None]
         /\ UNCHANGED publishing
  BY DEF CheckIdempotency, InsertEvent, CommitEvent, RollBack, Replies, Told

\* A step of a request is one of the service, or hidden from its client.
LEMMA RequestServed ==
  ASSUME TypeOK, KeyInv, NEW r \in Request,
         CheckIdempotency(r) \/ InsertEvent(r) \/ CommitEvent(r) \/ RollBack(r)
  PROVE  \/ \E event \in EventId : Service!Create(r, event)
         \/ Service!Repeat(r) \/ Service!Fail(r)
         \/ UNCHANGED <<tables, Replies, publishing>>
  <1>1. /\ Replies[r] = [scope |-> request[r].scope, told |-> "nothing", event |-> None]
        /\ batch' = batch /\ copies' = copies
        BY Unanswered DEF publishing
  <1>2. Replies = [s \in Request |-> Replies[s]]
        BY DEF Replies
  <1>3. ASSUME UNCHANGED tables, NEW stage \in {"checked", "inserted"},
               NEW event \in EventId \cup {None}, Answer(r, stage, event)
        PROVE  Replies' = Replies
    <2>1. stage \in Stage /\ stage # "accepted" /\ Told(stage) = "nothing"
          BY DEF Stage, Told
    <2>2. Replies' = [Replies EXCEPT ![r] =
            [scope |-> @.scope, told |-> Told(stage),
             event |-> IF stage = "accepted" THEN event ELSE None]]
          BY <1>3, <2>1, Shown
    <2> QED BY ONLY <1>1, <1>2, <2>1, <2>2, r \in Request
  <1>4. ASSUME UNCHANGED tables, Answer(r, "failed", None) PROVE Service!Fail(r)
    <2>1. "failed" \in Stage /\ Told("failed") = "failed"
          BY DEF Stage, Told
    <2>2. Replies' = [Replies EXCEPT ![r] =
            [scope |-> @.scope, told |-> "failed", event |-> None]]
          BY <1>4, <2>1, Shown
    <2> QED BY <1>1, <1>4, <2>2 DEF Service!Fail, Service!Reply, tables
  <1>5. ASSUME UNCHANGED tables, request[r].scope \in DOMAIN idempotency,
               Answer(r, "accepted", idempotency[request[r].scope])
        PROVE  Service!Repeat(r)
    <2>1. "accepted" \in Stage /\ Told("accepted") = "accepted"
          BY DEF Stage, Told
    <2>2. idempotency[request[r].scope] \in EventId
          BY <1>5 DEF TypeOK
    <2>3. Replies' = [Replies EXCEPT ![r] =
            [scope |-> @.scope, told |-> "accepted", event |-> idempotency[request[r].scope]]]
          BY <1>5, <2>1, <2>2, Shown
    <2> QED BY <1>1, <1>5, <2>3 DEF Service!Repeat, Service!Reply, tables
  <1>6. ASSUME request[r].stage = "inserted", Store(request[r].scope, request[r].event),
               NEW stage \in {"accepted", "failed"}, Answer(r, stage, request[r].event)
        PROVE  Service!Create(r, request[r].event) /\ request[r].event \in EventId
    <2> DEFINE scope == request[r].scope  event == request[r].event
    <2>1. scope \in Scope /\ event \in EventId
          BY <1>6 DEF TypeOK
    <2>2. scope \notin DOMAIN idempotency /\ event \notin DOMAIN outbox
          BY <1>6 DEF TypeOK, KeyInv
    <2>3. stage \in Stage /\ Told(stage) = stage
          BY DEF Stage, Told
    <2>4. Replies' = [Replies EXCEPT ![r] =
            [scope |-> @.scope, told |-> stage,
             event |-> IF stage = "accepted" THEN event ELSE None]]
          BY <1>6, <2>1, <2>3, Shown
    <2>5. \/ Service!Reply(r, "accepted", event)
          \/ Service!Reply(r, "failed", None)
      <3> HIDE DEF event
      <3>1. CASE stage = "accepted"
            BY ONLY <1>1, <2>4, <3>1 DEF Service!Reply
      <3>2. CASE stage = "failed"
            BY ONLY <1>1, <2>4, <3>2 DEF Service!Reply
      <3> QED BY ONLY <3>1, <3>2, stage \in {"accepted", "failed"}
    <2>6. idempotency' = [s \in DOMAIN idempotency \cup {scope} |->
                            IF s = scope THEN event ELSE idempotency[s]]
          BY <1>6 DEF Store
    <2>7. Service!Channel!Enqueue(event)
      <3>1. /\ DOMAIN outbox' = DOMAIN outbox \cup {event}
            /\ ~outbox'[event]
            /\ \A e \in DOMAIN outbox \ {event} : outbox'[e] = outbox[e]
        <4>1. Store(scope, event)
              BY <1>6
        <4> HIDE DEF scope, event
        <4> QED BY ONLY TypeOK, <2>1, <4>1, Stored
      <3> QED BY <1>1, <2>2, <3>1 DEF Service!Channel!Enqueue
    <2> QED BY <1>1, <2>1, <2>2, <2>5, <2>6, <2>7 DEF Service!Create
  <1>7. ASSUME Replies' = Replies, UNCHANGED tables
        PROVE  UNCHANGED <<tables, Replies, publishing>>
        BY <1>7, Unanswered
  <1> QED BY <1>3, <1>4, <1>5, <1>6, <1>7, RequestSteps

\* A step of a publisher is one of the channel, or hidden from its readers.
LEMMA PublisherServed ==
  ASSUME TypeOK, CopyInv, NEW p \in Publisher,
         \/ \E taken \in SUBSET DOMAIN outbox : OpenBatch(p, taken)
         \/ \E e \in EventId : WriteMessage(p, e) \/ WriteRetried(p, e) \/ WriteFails(p, e)
         \/ CommitBatch(p) \/ LoseBatch(p)
  PROVE  Service!Transport \/ UNCHANGED Service!vars
  <1>1. Replies' = Replies /\ idempotency' = idempotency
        BY DEF OpenBatch, WriteMessage, WriteRetried, WriteFails, CommitBatch, LoseBatch,
           tables, Replies
  <1>2. CASE outbox' = outbox /\ copies' = copies
        BY <1>1, <1>2 DEF Service!vars
  <1>3. ASSUME NEW e \in EventId, e \in batch[p].todo, outbox' = outbox,
               copies' = [copies EXCEPT ![e] = @ + 1]
        PROVE  Service!Transport
    <2>1. e \in DOMAIN outbox
          BY <1>3 DEF TypeOK
    <2>2. Service!Channel!Deliver(e)
          BY <1>3, <2>1 DEF Service!Channel!Deliver
    <2> QED BY <1>1, <2>2 DEF Service!Transport
  <1>4. ASSUME CommitBatch(p) PROVE Service!Transport
    <2>1. /\ DOMAIN outbox' = DOMAIN outbox
          /\ \A e \in DOMAIN outbox : outbox'[e] <=> outbox[e] \/ e \in batch[p].sent
      <3>1. outbox' = [e \in DOMAIN outbox |-> outbox[e] \/ e \in batch[p].sent]
            BY <1>4 DEF CommitBatch
      <3> QED BY ONLY <3>1
    <2>2. batch[p].sent \in SUBSET DOMAIN outbox /\ DOMAIN outbox \subseteq EventId
          BY DEF TypeOK
    <2>3. \A e \in batch[p].sent : copies[e] > 0
          BY <2>2 DEF CopyInv, Written
    <2>4. {e \in DOMAIN outbox' : outbox'[e]} = {e \in DOMAIN outbox : outbox[e]} \cup batch[p].sent
          BY <2>1, <2>2
    <2>5. copies' = copies
          BY <1>4 DEF CommitBatch
    <2> QED BY <1>1, <2>1, <2>2, <2>3, <2>4, <2>5
            DEF Service!Transport, Service!Channel!Publish
  <1>5. ASSUME NEW e \in EventId, WriteFails(p, e)
        PROVE  Service!Transport \/ UNCHANGED Service!vars
    <2>1. copies' \in {[copies EXCEPT ![e] = @ + stored] : stored \in {0, 1}}
          BY <1>5 DEF WriteFails
    <2>2. [copies EXCEPT ![e] = @ + 0] = copies
          BY DEF TypeOK
    <2>3. copies' = copies \/ copies' = [copies EXCEPT ![e] = @ + 1]
          BY <2>1, <2>2
    <2> QED BY <1>2, <1>3, <1>5, <2>3 DEF WriteFails, tables
  <1> QED BY <1>2, <1>3, <1>4, <1>5 DEF OpenBatch, WriteMessage, WriteRetried, LoseBatch, tables

LEMMA ServiceStep == TypeOK /\ KeyInv /\ CopyInv /\ [Next]_vars => [Service!Next]_Service!vars
  <1> SUFFICES ASSUME TypeOK, KeyInv, CopyInv, [Next]_vars PROVE [Service!Next]_Service!vars
      OBVIOUS
  <1>1. ASSUME NEW r \in Request,
               CheckIdempotency(r) \/ InsertEvent(r) \/ CommitEvent(r) \/ RollBack(r)
        PROVE  [Service!Next]_Service!vars
    <2>1. CASE UNCHANGED <<tables, Replies, publishing>>
          BY <2>1 DEF Service!vars, tables, publishing
    <2> QED BY <1>1, <2>1, RequestServed DEF Service!Next
  <1>2. ASSUME NEW p \in Publisher,
               \/ \E taken \in SUBSET DOMAIN outbox : OpenBatch(p, taken)
               \/ \E e \in EventId : WriteMessage(p, e) \/ WriteRetried(p, e) \/ WriteFails(p, e)
               \/ CommitBatch(p) \/ LoseBatch(p)
        PROVE  [Service!Next]_Service!vars
        BY <1>2, PublisherServed DEF Service!Next
  <1>3. CASE UNCHANGED vars
        BY <1>3 DEF vars, tables, publishing, Service!vars, Replies
  <1> QED BY <1>1, <1>2, <1>3 DEF Next

LEMMA ServiceInit == Init => Service!Init
  <1> SUFFICES ASSUME Init PROVE Service!Init
      OBVIOUS
  <1>1. DOMAIN outbox = {} /\ {e \in DOMAIN outbox : outbox[e]} = {}
        BY DEF Init
  <1>2. Replies \in [Request -> [scope : Scope, told : {"nothing"}, event : {None}]]
        BY DEF Init, Replies, Told
  <1> QED BY <1>1, <1>2 DEF Init, Service!Init, Service!Channel!Init, Service!Scope, Scope

\* Overlapping requests, rollbacks, lost answers and any number of publishers
\* serve clients and readers as one atomic service with an at-least-once channel.
THEOREM Serves == Spec => ImplementsService
  <1>1. Init => KeyInv /\ CopyInv
        BY DEF Init, KeyInv, CopyInv, Written, Idle
  <1> QED BY <1>1, ServiceInit, ServiceStep, KeyStep, CopyStep, EventTyping, PTL
          DEF Spec, ImplementsService, Service!Spec
===============================================================================
