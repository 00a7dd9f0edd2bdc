------------------------- MODULE DeliveriesRefinement -------------------------
(***************************************************************************)
(* Deliveries implements DeliveryLifecycle: every step of the workers is a *)
(* step of the lifecycle or leaves it as it is.                            *)
(***************************************************************************)
EXTENDS DeliveriesProofs

\* The lifecycle's view of the tables, as the instance substitutes it.
View == [i \in DOMAIN rows |-> Outcome(rows[i])]

LEMMA OutcomeBySteps ==
  ASSUME NEW row \in Row
  PROVE  /\ row.status \notin Settled => Outcome(Claim(row)) = Outcome(row)
         /\ Outcome([row EXCEPT !.due = TRUE]) = Outcome(row)
         /\ Outcome([row EXCEPT !.lease = "expired"]) = Outcome(row)
  <1>1. row.status \notin Settled => Outcome(Claim(row)) = Outcome(row)
        BY DEF Outcome, Claim, Row, Settled
  <1>2. Outcome([row EXCEPT !.due = TRUE]) = Outcome(row)
        BY DEF Outcome, Row
  <1>3. Outcome([row EXCEPT !.lease = "expired"]) = Outcome(row)
        BY DEF Outcome, Row
  <1> QED BY <1>1, <1>2, <1>3

\* The lifecycle does not see a step that records nothing and opens nothing.
LEMMA Stutters ==
  ASSUME attempts' = attempts, DOMAIN rows' = DOMAIN rows,
         \A i \in DOMAIN rows : Outcome(rows'[i]) = Outcome(rows[i])
  PROVE  UNCHANGED <<View, attempts>>
  BY DEF View, Outcome

\* A handled message opens originals.
LEMMA CreateOpens ==
  ASSUME TypeOK, NEW event \in Event, NEW eps \in SUBSET Endpoint,
         NEW snap \in [eps -> [max : Policies, obstacle : Obstacles]],
         CreateDeliveries(event, eps, snap)
  PROVE  Lifecycle!Open
  <1>1. \A i \in DOMAIN rows : i \in DOMAIN rows' /\ rows'[i] = rows[i]
        BY CreateAdds
  <1>2. ASSUME NEW i \in DOMAIN rows' \ DOMAIN rows
        PROVE  /\ rows'[i].status = "PENDING" /\ rows'[i].replayOf = None
               /\ rows'[i].event = event /\ ~Conflicts(event, rows'[i].endpoint)
        BY CreateAdds
  <1>3. ASSUME NEW i \in DOMAIN rows' \ DOMAIN rows, NEW j \in DOMAIN rows' \ {i},
               rows'[j].replayOf = None
        PROVE  <<rows'[j].event, rows'[j].endpoint>> # <<rows'[i].event, rows'[i].endpoint>>
    <2>1. CASE j \in DOMAIN rows
          BY <1>1, <1>2, <1>3, <2>1 DEF Conflicts
    <2>2. CASE j \notin DOMAIN rows
      <3>1. rows'[i].endpoint = rows'[j].endpoint => i = j
            BY <2>2, CreateAdds
      <3> QED BY <3>1
    <2> QED BY <2>1, <2>2
  <1>4. "PENDING" \notin Settled
        BY DEF Settled
  <1>5. Lifecycle!Keeps
        BY <1>1 DEF Lifecycle!Keeps, Outcome
  <1>6. ASSUME NEW i \in DOMAIN rows' \ DOMAIN rows
        PROVE  /\ Outcome(rows'[i]).verdict = "OPEN" /\ Outcome(rows'[i]).source = None
               /\ \A j \in DOMAIN rows' \ {i} : Outcome(rows'[j]).source = None
                    => Outcome(rows'[j]).target # Outcome(rows'[i]).target
        BY <1>2, <1>3, <1>4 DEF Outcome
  <1>7. attempts' = attempts
        BY DEF CreateDeliveries
  <1> QED BY <1>5, <1>6, <1>7 DEF Lifecycle!Open

\* The insert of a replay opens one delivery again.
LEMMA CreateReplayReplays ==
  ASSUME TypeOK, ReplaysFailed, NEW i \in Id, NEW new \in Id, CreateReplay(i, new)
  PROVE  Lifecycle!Replay
  <1>1. /\ i \in DOMAIN rows /\ new \notin DOMAIN rows
        /\ DOMAIN rows' = DOMAIN rows \cup {new}
        /\ \A j \in DOMAIN rows : rows'[j] = rows[j]
        /\ rows'[new] = NewRow(rows[i].event, rows[i].endpoint, rows[i].max,
                               rows[i].obstacle, i)
        BY ReplayAdds
  <1>2. rows[i].status \in {"FAILED", "DLQ"}
        BY DEF CreateReplay, ReplaysFailed
  <1>3. Outcome(rows'[new])
          = [verdict |-> "OPEN", target |-> Outcome(rows[i]).target,
             budget |-> Outcome(rows[i]).budget, source |-> i]
    <2>1. "PENDING" \notin Settled
          BY DEF Settled
    <2>2. /\ rows'[new].status = "PENDING" /\ rows'[new].event = rows[i].event
          /\ rows'[new].endpoint = rows[i].endpoint /\ rows'[new].max = rows[i].max
          /\ rows'[new].replayOf = i
          BY ONLY <1>1 DEF NewRow
    <2> QED BY ONLY <2>1, <2>2 DEF Outcome
  <1>4. Outcome(rows[i]).verdict \in {"FAILED", "DLQ"}
        BY ONLY <1>2 DEF Outcome, Settled
  <1>5. Lifecycle!Keeps
        BY <1>1 DEF Lifecycle!Keeps
  <1>6. attempts' = attempts
        BY DEF CreateReplay
  <1> QED BY <1>1, <1>3, <1>4, <1>5, <1>6 DEF Lifecycle!Replay

\* A record is an answer that decides the delivery, or a late one.
LEMMA RecordAnswers ==
  ASSUME TypeOK, AttemptLedger, ExclusiveAttempt, NeverStranded,
         NEW a \in inflight, RecordAttemptAndTransition(a), ~UNCHANGED attempts
  PROVE  Lifecycle!Answer
  <1> DEFINE r == [id |-> a.id, number |-> a.number, result |-> a.result]
  <1>1. /\ attempts' = attempts \cup {r} /\ r \in attempts' \ attempts
        /\ r.id = a.id /\ r.number = a.number /\ r.result = a.result
        /\ rows' = [rows EXCEPT ![a.id] = Transition(@, NextStatus(a))]
        BY DEF RecordAttemptAndTransition
  <1>2. /\ a.id \in DOMAIN rows /\ rows[a.id] \in Row /\ a.result \in Result
        /\ a.number \in Nat /\ a.number > 0 /\ rows[a.id].max \in Nat
    <2>1. a.id \in DOMAIN rows /\ rows[a.id] \in Row /\ rows[a.id].count \in Nat
          BY DEF TypeOK, Row
    <2>2. a.number \in 1..rows[a.id].count /\ a.result \in Result
          BY NextStatusType DEF AttemptLedger, RecordAttemptAndTransition
    <2>3. a.number \in Nat /\ a.number > 0
          BY <2>1, <2>2
    <2>4. rows[a.id].max \in Nat
          BY <2>1, DeliveriesAssumption DEF Row
    <2> QED BY <2>1, <2>2, <2>3, <2>4
  <1>3. \A b \in attempts : ~(b.id = r.id /\ b.number = r.number)
        BY <1>1 DEF AttemptLedger
  <1> HIDE DEF r
  <1>4. CASE rows[a.id].status = "IN_PROGRESS"
    <2>1. Outcome(rows[a.id]).verdict = "OPEN"
          BY <1>4 DEF Outcome, Settled
    <2>2. Outcome(Transition(rows[a.id], NextStatus(a)))
            = [Outcome(rows[a.id]) EXCEPT
                 !.verdict = Lifecycle!Verdict(a.result, a.number, rows[a.id].max)]
      <3>1. NextStatus(a) \in Settled => NextStatus(a)
                = Lifecycle!Verdict(a.result, a.number, rows[a.id].max)
            BY <1>2 DEF NextStatus, Lifecycle!Verdict, Settled, Result
      <3>2. NextStatus(a) \notin Settled =>
              Lifecycle!Verdict(a.result, a.number, rows[a.id].max) = "OPEN"
            BY <1>2 DEF NextStatus, Lifecycle!Verdict, Settled, Result
      <3> QED BY <1>2, <1>4, <3>1, <3>2 DEF Outcome, Transition, Row
    <2>3. View' = [View EXCEPT ![a.id].verdict =
                     Lifecycle!Verdict(a.result, a.number, rows[a.id].max)]
          BY <1>1, <1>2, <2>2 DEF View
    <2>4. Outcome(rows[a.id]).budget = rows[a.id].max
          BY DEF Outcome
    <2>5. /\ r.id \in DOMAIN View /\ View[r.id].verdict = "OPEN"
          /\ View' = [View EXCEPT ![r.id].verdict =
                        Lifecycle!Verdict(r.result, r.number, View[r.id].budget)]
          BY <1>1, <1>2, <2>1, <2>3, <2>4 DEF View
    <2> QED BY <1>1, <1>2, <1>3, <2>5 DEF Lifecycle!Answer, View
  <1>5. CASE rows[a.id].status # "IN_PROGRESS"
    <2>1. OutlastsLease
          BY <1>5 DEF ExclusiveAttempt
    <2>2. rows' = rows
          BY <1>1, <1>2, <1>5 DEF Transition, TypeOK
    <2> QED BY <1>1, <1>2, <1>3, <2>1, <2>2 DEF Lifecycle!Answer
  <1> QED BY <1>4, <1>5

\* Every step of the engine is a step of the lifecycle or invisible to it.
LEMMA LifecycleStep ==
  TypeOK /\ NeverStranded /\ AttemptLedger /\ ExclusiveAttempt /\ ReplaysFailed /\ [Next]_vars
    => [Lifecycle!Next]_<<View, attempts>>
  <1> SUFFICES ASSUME TypeOK, NeverStranded, AttemptLedger, ExclusiveAttempt, ReplaysFailed,
                      [Next]_vars
               PROVE  Lifecycle!Next \/ UNCHANGED <<View, attempts>>
      OBVIOUS
  <1>1. ASSUME NEW w \in Worker, NEW batch \in SUBSET DOMAIN rows, ClaimBatch(w, batch)
        PROVE  UNCHANGED <<View, attempts>>
    <2>1. \A i \in batch : rows[i].status \notin Settled
          BY <1>1 DEF ClaimBatch, Claimable, Settled
    <2> QED BY <1>1, <2>1, OutcomeBySteps, Stutters DEF ClaimBatch, TypeOK
  <1>2. ASSUME NEW i \in Id, BecomeDue(i) \/ LeaseExpires(i) \/ LeaseOverrun(i)
        PROVE  UNCHANGED <<View, attempts>>
        BY <1>2, OutcomeBySteps, Stutters
           DEF BecomeDue, LeaseExpires, LeaseOverrun, TypeOK
  <1>3. ASSUME NEW a \in inflight, RecordAttemptAndTransition(a)
        PROVE  Lifecycle!Next \/ UNCHANGED <<View, attempts>>
    <2>1. CASE UNCHANGED attempts
      <3> DEFINE r == [id |-> a.id, number |-> a.number, result |-> a.result]
      <3>1. r \notin attempts
            BY DEF AttemptLedger
      <3>2. UNCHANGED rows
            BY <1>3, <2>1, <3>1 DEF RecordAttemptAndTransition
      <3> QED BY <2>1, <3>2 DEF View
    <2> QED BY <1>3, <2>1, RecordAnswers DEF Lifecycle!Next
  <1>4. CASE UNCHANGED <<rows, attempts>>
        BY <1>4 DEF View
  <1> QED
      BY <1>1, <1>2, <1>3, <1>4, CreateOpens, CreateReplayReplays
      DEF Next, vars, Lifecycle!Next, ReplayGet, Send, DecryptFails, LoseAttempt, Crash

\* Workers, claims, leases, crashes and the two-step replay implement the
\* lifecycle for every number of rows and workers, and without late answers if
\* no attempt outlasts its lease.
THEOREM Implements == Spec => ImplementsLifecycle
  <1>1. Init => Lifecycle!Init
        BY DEF Init, Lifecycle!Init
  <1>2. Init => ReplaysFailed
        BY DEF Init, ReplaysFailed
  <1> QED BY <1>1, <1>2, LifecycleStep, ReplaysFailedStep, Typing, Stranded, Ledger,
             Exclusive, PTL
          DEF Spec, ImplementsLifecycle, Lifecycle!Spec, Lifecycle!lifecycle, View

===============================================================================
