--------------------------- MODULE DeliveriesProofs ---------------------------
(***************************************************************************)
(* Theorems about Deliveries, for every set of ids, events, endpoints and  *)
(* workers, every policy and every bound on faults and claims.             *)
(***************************************************************************)
EXTENDS Deliveries, Functions, FiniteSetTheorems, TLAPS

-----------------------------------------------------------------------------
(* Type correctness.                                                        *)

\* What CreateDeliveries adds: rows on unused ids, each a NewRow of an endpoint
\* that had no original row, one per endpoint; old rows stay.
LEMMA CreateAdds ==
  ASSUME TypeOK,
         NEW event \in Event, NEW eps \in SUBSET Endpoint,
         NEW snap \in [eps -> [max : Policies, obstacle : Obstacles]],
         CreateDeliveries(event, eps, snap)
  PROVE  /\ DOMAIN rows \subseteq DOMAIN rows'
         /\ DOMAIN rows' \subseteq Id
         /\ rows' = [i \in DOMAIN rows' |-> rows'[i]]
         /\ \A i \in DOMAIN rows : rows'[i] = rows[i]
         /\ \A i \in DOMAIN rows' \ DOMAIN rows :
              \E p \in eps : /\ ~Conflicts(event, p)
                             /\ rows'[i] = NewRow(event, p, snap[p].max,
                                                  snap[p].obstacle, None)
         /\ \A i \in DOMAIN rows' \ DOMAIN rows :
              /\ rows'[i].status = "PENDING" /\ rows'[i].event = event
              /\ rows'[i].replayOf = None /\ ~Conflicts(event, rows'[i].endpoint)
         /\ \A i, j \in DOMAIN rows' \ DOMAIN rows :
              rows'[i].endpoint = rows'[j].endpoint => i = j
  <1> DEFINE missing == {p \in eps : ~Conflicts(event, p)}
  <1>1. PICK at \in [missing -> Fresh] :
          /\ \A p, q \in missing : at[p] = at[q] => p = q
          /\ rows' = [i \in DOMAIN rows \cup {at[p] : p \in missing} |->
                  IF i \in DOMAIN rows THEN rows[i]
                  ELSE LET p == CHOOSE q \in missing : at[q] = i
                       IN  NewRow(event, p, snap[p].max, snap[p].obstacle, None)]
        BY Zenon DEF CreateDeliveries
  <1> DEFINE chosen(i) == CHOOSE q \in missing : at[q] = i
  <1>2. DOMAIN rows' = DOMAIN rows \cup {at[p] : p \in missing}
        BY <1>1
  <1>3. \A i \in DOMAIN rows : rows'[i] = rows[i]
        BY <1>1
  <1>4. ASSUME NEW i \in DOMAIN rows' \ DOMAIN rows
        PROVE  /\ chosen(i) \in missing /\ at[chosen(i)] = i
               /\ rows'[i] = NewRow(event, chosen(i), snap[chosen(i)].max,
                                    snap[chosen(i)].obstacle, None)
    <2>1. PICK q \in missing : at[q] = i
          BY <1>2
    <2>2. chosen(i) \in missing /\ at[chosen(i)] = i
          BY <2>1
    <2> QED BY <1>1, <1>2, <2>2
  <1>5. \A i, j \in DOMAIN rows' \ DOMAIN rows :
          rows'[i].endpoint = rows'[j].endpoint => i = j
    <2> TAKE i, j \in DOMAIN rows' \ DOMAIN rows
    <2>1. rows'[i].endpoint = chosen(i) /\ rows'[j].endpoint = chosen(j)
          BY <1>4 DEF NewRow
    <2> QED BY <1>4, <2>1
  <1>6. DOMAIN rows' \subseteq Id
        BY <1>1, <1>2 DEF TypeOK, Fresh
  <1>7. rows' = [i \in DOMAIN rows' |-> rows'[i]]
        BY <1>1
  <1>8. \A i \in DOMAIN rows' \ DOMAIN rows :
          \E p \in eps : /\ ~Conflicts(event, p)
                         /\ rows'[i] = NewRow(event, p, snap[p].max,
                                              snap[p].obstacle, None)
        BY <1>4
  <1>9. \A i \in DOMAIN rows' \ DOMAIN rows :
          /\ rows'[i].status = "PENDING" /\ rows'[i].event = event
          /\ rows'[i].replayOf = None /\ ~Conflicts(event, rows'[i].endpoint)
        BY <1>4 DEF NewRow
  <1> QED BY <1>2, <1>3, <1>5, <1>6, <1>7, <1>8, <1>9

LEMMA NewRowType ==
  ASSUME NEW event \in Event, NEW endpoint \in Endpoint, NEW max \in Policies,
         NEW obstacle \in Obstacles, NEW source \in Id \cup {None}
  PROVE  NewRow(event, endpoint, max, obstacle, source) \in Row
  BY DEF NewRow, Row, Status

\* What CreateReplay adds: one row, a copy of the row it names.
LEMMA ReplayAdds ==
  ASSUME TypeOK, NEW i \in Id, NEW new \in Id, CreateReplay(i, new)
  PROVE  /\ i \in DOMAIN rows /\ new \notin DOMAIN rows
         /\ DOMAIN rows' = DOMAIN rows \cup {new}
         /\ rows' = [j \in DOMAIN rows' |-> rows'[j]]
         /\ \A j \in DOMAIN rows : rows'[j] = rows[j]
         /\ rows'[new] = NewRow(rows[i].event, rows[i].endpoint, rows[i].max,
                                rows[i].obstacle, i)
  BY DEF CreateReplay, TypeOK, Fresh

\* The row a record leaves is a row, and its status one of the record's or its own.
LEMMA TransitionType ==
  ASSUME NEW row \in Row, NEW status \in Status
  PROVE  Transition(row, status) \in Row
  BY DEF Transition, Row

LEMMA ClaimType ==
  ASSUME NEW row \in Row
  PROVE  /\ Claim(row) \in Row
         /\ Claim(row).count = row.count + 1 /\ row.count \in Nat
         /\ Claim(row).status = "IN_PROGRESS" /\ Claim(row).lease = "held"
  <1>1. row.count \in Nat /\ row.count + 1 \in Nat
        BY DEF Row
  <1>2. "IN_PROGRESS" \in Status
        BY DEF Status
  <1>3. Claim(row) \in Row
        BY <1>1, <1>2 DEF Claim, Row
  <1> QED BY <1>1, <1>3 DEF Claim, Row

LEMMA ColumnType ==
  ASSUME NEW row \in Row
  PROVE  /\ [row EXCEPT !.due = TRUE] \in Row
         /\ [row EXCEPT !.lease = "expired"] \in Row
  BY DEF Row

LEMMA NextStatusType ==
  ASSUME TypeOK, NEW a \in inflight, a.result # "none"
  PROVE  /\ a.result \in Result
         /\ NextStatus(a) \in {"DELIVERED", "FAILED", "DLQ", "RETRYING"}
  BY DEF TypeOK, Attempt, Result, NextStatus

\* The type invariant is kept by every action.
LEMMA TypeStep == TypeOK /\ [Next]_vars => TypeOK'
  <1> USE DeliveriesAssumption
  <1> SUFFICES ASSUME TypeOK, [Next]_vars PROVE TypeOK'
      OBVIOUS
  <1>1. ASSUME NEW event \in Event, NEW eps \in SUBSET Endpoint,
               NEW snap \in [eps -> [max : Policies, obstacle : Obstacles]],
               CreateDeliveries(event, eps, snap)
        PROVE  TypeOK'
    <2>1. \A i \in DOMAIN rows' : rows'[i] \in Row
      <3> TAKE i \in DOMAIN rows'
      <3>1. CASE i \in DOMAIN rows
            BY <1>1, <3>1, CreateAdds DEF TypeOK
      <3>2. CASE i \notin DOMAIN rows
        <4>1. PICK p \in eps :
                rows'[i] = NewRow(event, p, snap[p].max, snap[p].obstacle, None)
              BY <1>1, <3>2, CreateAdds
        <4>2. /\ snap[p].max \in Policies /\ snap[p].obstacle \in Obstacles
              /\ p \in Endpoint /\ None \in Id \cup {None}
              BY <4>1
        <4>3. NewRow(event, p, snap[p].max, snap[p].obstacle, None) \in Row
              BY ONLY <4>2, NewRowType, event \in Event
        <4> QED BY <4>1, <4>3
      <3> QED BY <3>1, <3>2
    <2>2. DOMAIN rows \subseteq DOMAIN rows' /\ DOMAIN rows' \subseteq Id
          BY <1>1, CreateAdds
    <2>3. rows' \in [DOMAIN rows' -> Row]
      <3>1. rows' = [i \in DOMAIN rows' |-> rows'[i]]
            BY <1>1, CreateAdds
      <3> QED BY <2>1, <3>1
    <2> QED BY <1>1, <2>2, <2>3 DEF TypeOK, CreateDeliveries
  <1>2. ASSUME NEW i \in Id, ReplayGet(i) PROVE TypeOK'
        BY <1>2 DEF TypeOK, ReplayGet
  <1>3. ASSUME NEW i \in Id, NEW new \in Id, CreateReplay(i, new) PROVE TypeOK'
    <2>0. /\ i \in DOMAIN rows
          /\ DOMAIN rows' = DOMAIN rows \cup {new}
          /\ rows' = [j \in DOMAIN rows' |-> rows'[j]]
          /\ \A j \in DOMAIN rows : rows'[j] = rows[j]
          /\ rows'[new] = NewRow(rows[i].event, rows[i].endpoint, rows[i].max,
                                 rows[i].obstacle, i)
          BY ONLY TypeOK, <1>3, ReplayAdds
    <2>1. rows[i] \in Row
          BY <2>0 DEF TypeOK
    <2>2. rows'[new] \in Row
      <3>1. /\ rows[i].event \in Event /\ rows[i].endpoint \in Endpoint
            /\ rows[i].max \in Policies /\ rows[i].obstacle \in Obstacles
            BY <2>1 DEF Row
      <3>2. NewRow(rows[i].event, rows[i].endpoint, rows[i].max, rows[i].obstacle, i)
              \in Row
            BY ONLY <3>1, NewRowType, i \in Id
      <3> QED BY ONLY <3>2, <2>0
    <2>3. rows' \in [DOMAIN rows' -> Row]
      <3>1. \A j \in DOMAIN rows : rows[j] \in Row
            BY DEF TypeOK
      <3>2. \A j \in DOMAIN rows' : rows'[j] \in Row
            BY ONLY <2>0, <2>2, <3>1
      <3> QED BY ONLY <2>0, <3>2
    <2>4. DOMAIN rows' \subseteq Id /\ DOMAIN rows \subseteq DOMAIN rows'
      <3>1. DOMAIN rows \subseteq Id
            BY DEF TypeOK
      <3> QED BY ONLY <2>0, <3>1, new \in Id
    <2> QED BY <1>3, <2>3, <2>4 DEF TypeOK, CreateReplay
  <1>4. ASSUME NEW w \in Worker, NEW batch \in SUBSET DOMAIN rows, ClaimBatch(w, batch)
        PROVE  TypeOK'
    <2>1. \A i \in DOMAIN rows : Claim(rows[i]) \in Row /\ Claim(rows[i]).count \in Nat
          BY ClaimType DEF TypeOK
    <2>2. rows' \in [DOMAIN rows' -> Row] /\ DOMAIN rows' = DOMAIN rows
          BY <1>4, <2>1 DEF ClaimBatch, TypeOK
    <2>3. \A a \in inflight' : a \in Attempt /\ a.id \in DOMAIN rows
          BY <1>4, <2>1 DEF ClaimBatch, TypeOK, Attempt
    <2> QED BY <1>4, <2>2, <2>3 DEF TypeOK, ClaimBatch
  <1>5. ASSUME NEW a \in inflight, NEW result \in Result, Send(a, result) PROVE TypeOK'
        BY <1>5 DEF TypeOK, Send, Attempt
  <1>6. ASSUME NEW a \in inflight, DecryptFails(a) PROVE TypeOK'
        BY <1>6 DEF TypeOK, DecryptFails
  <1>7. ASSUME NEW a \in inflight, RecordAttemptAndTransition(a) PROVE TypeOK'
    <2>1. CASE UNCHANGED <<rows, attempts>>
          BY <1>7, <2>1 DEF TypeOK, RecordAttemptAndTransition
    <2>2. CASE /\ attempts' = attempts \cup
                    {[id |-> a.id, number |-> a.number, result |-> a.result]}
               /\ rows' = [rows EXCEPT ![a.id] = Transition(@, NextStatus(a))]
      <3>1. a.id \in DOMAIN rows /\ rows[a.id] \in Row /\ a.number \in Nat /\ a.id \in Id
            BY DEF TypeOK, Attempt
      <3>2. NextStatus(a) \in Status /\ a.result \in Result
            BY <1>7, NextStatusType DEF RecordAttemptAndTransition, Status, Settled
      <3>3. Transition(rows[a.id], NextStatus(a)) \in Row
            BY <3>1, <3>2, TransitionType
      <3>4. rows' \in [DOMAIN rows' -> Row] /\ DOMAIN rows' = DOMAIN rows
            BY <2>2, <3>1, <3>3 DEF TypeOK
      <3>5. attempts' \subseteq Recorded
            BY <2>2, <3>1, <3>2 DEF TypeOK, Recorded
      <3> QED BY <1>7, <2>2, <3>1, <3>4, <3>5 DEF TypeOK, RecordAttemptAndTransition
    <2> QED BY <1>7, <2>1, <2>2 DEF RecordAttemptAndTransition
  <1>8. ASSUME NEW i \in Id, BecomeDue(i) PROVE TypeOK'
    <2>1. [rows[i] EXCEPT !.due = TRUE] \in Row
          BY <1>8, ColumnType DEF TypeOK, BecomeDue
    <2> QED BY <1>8, <2>1 DEF TypeOK, BecomeDue
  <1>9. ASSUME NEW i \in Id, LeaseExpires(i) \/ LeaseOverrun(i) PROVE TypeOK'
    <2>1. [rows[i] EXCEPT !.lease = "expired"] \in Row
          BY <1>9, ColumnType DEF TypeOK, LeaseExpires, LeaseOverrun
    <2> QED BY <1>9, <2>1 DEF TypeOK, LeaseExpires, LeaseOverrun
  <1>10. ASSUME NEW a \in inflight, LoseAttempt(a) PROVE TypeOK'
        BY <1>10 DEF TypeOK, LoseAttempt
  <1>11. ASSUME NEW w \in Worker, Crash(w) PROVE TypeOK'
        BY <1>11 DEF TypeOK, Crash
  <1>12. CASE UNCHANGED vars
        BY <1>12 DEF TypeOK, vars
  <1> QED
      BY <1>1, <1>2, <1>3, <1>4, <1>5, <1>6, <1>7, <1>8, <1>9, <1>10, <1>11, <1>12
      DEF Next

\* Every reachable state of the tables, the goroutines and the pending replays
\* is well formed and refers to rows that exist.
THEOREM Typing == Spec => []TypeOK
  <1>1. Init => TypeOK
        BY DEF Init, TypeOK
  <1> QED BY <1>1, TypeStep, PTL DEF Spec

-----------------------------------------------------------------------------
(* How one row may change.                                                  *)

\* What an INSERT wrote stays, attempt_count only grows, a settled row is left
\* alone.
Evolves(old, new) ==
  /\ new.event = old.event /\ new.endpoint = old.endpoint
  /\ new.max = old.max /\ new.obstacle = old.obstacle
  /\ new.replayOf = old.replayOf
  /\ new.count >= old.count
  /\ old.status \in Settled => new = old

LEMMA EvolvesBySteps ==
  ASSUME NEW row \in Row
  PROVE  /\ Evolves(row, row)
         /\ row.status \notin Settled => Evolves(row, Claim(row))
         /\ \A status \in Status : Evolves(row, Transition(row, status))
         /\ row.status \notin Settled => Evolves(row, [row EXCEPT !.due = TRUE])
         /\ row.status \notin Settled => Evolves(row, [row EXCEPT !.lease = "expired"])
  <1>1. row.count \in Nat
        BY DEF Row
  <1>2. "IN_PROGRESS" \notin Settled
        BY DEF Settled
  <1>3. row.status \notin Settled => Evolves(row, Claim(row))
        BY <1>1 DEF Evolves, Claim, Row
  <1>4. \A status \in Status : Evolves(row, Transition(row, status))
        BY <1>1, <1>2 DEF Evolves, Transition, Row
  <1>5. row.status \notin Settled => Evolves(row, [row EXCEPT !.due = TRUE])
        BY <1>1 DEF Evolves, Row
  <1>6. row.status \notin Settled => Evolves(row, [row EXCEPT !.lease = "expired"])
        BY <1>1 DEF Evolves, Row
  <1>7. Evolves(row, row)
        BY <1>1 DEF Evolves
  <1> QED BY <1>3, <1>4, <1>5, <1>6, <1>7

\* A row in progress carries a lease that will expire, a row not in progress
\* carries none, a new row is due: kept by every action.
LEMMA StrandedStep == TypeOK /\ NeverStranded /\ [Next]_vars => NeverStranded'
  <1> SUFFICES ASSUME TypeOK, NeverStranded, [Next]_vars PROVE NeverStranded'
      OBVIOUS
  <1>1. ASSUME NEW event \in Event, NEW eps \in SUBSET Endpoint,
               NEW snap \in [eps -> [max : Policies, obstacle : Obstacles]],
               CreateDeliveries(event, eps, snap)
        PROVE  NeverStranded'
    <2>1. \A i \in DOMAIN rows' \ DOMAIN rows :
            rows'[i].status = "PENDING" /\ rows'[i].lease = "none" /\ rows'[i].due
          BY <1>1, CreateAdds DEF NewRow
    <2>2. \A i \in DOMAIN rows : rows'[i] = rows[i]
          BY <1>1, CreateAdds
    <2> QED BY <2>1, <2>2 DEF NeverStranded
  <1>2. ASSUME NEW i \in Id, NEW new \in Id, CreateReplay(i, new) PROVE NeverStranded'
    <2>1. rows'[new].status = "PENDING" /\ rows'[new].lease = "none" /\ rows'[new].due
      <3>1. rows'[new] = NewRow(rows[i].event, rows[i].endpoint, rows[i].max,
                                rows[i].obstacle, i)
            BY <1>2, ReplayAdds
      <3> QED BY ONLY <3>1 DEF NewRow
    <2>2. /\ DOMAIN rows' = DOMAIN rows \cup {new}
          /\ \A j \in DOMAIN rows : rows'[j] = rows[j]
          BY <1>2, ReplayAdds
    <2> QED BY <2>1, <2>2 DEF NeverStranded
  <1>3. ASSUME NEW w \in Worker, NEW batch \in SUBSET DOMAIN rows, ClaimBatch(w, batch)
        PROVE  NeverStranded'
        BY <1>3, ClaimType DEF NeverStranded, ClaimBatch, TypeOK
  <1>4. ASSUME NEW a \in inflight, RecordAttemptAndTransition(a) PROVE NeverStranded'
    <2>1. CASE UNCHANGED rows
          BY <2>1 DEF NeverStranded
    <2>2. CASE rows' = [rows EXCEPT ![a.id] = Transition(@, NextStatus(a))]
      <3>1. NextStatus(a) \notin {"PENDING", "IN_PROGRESS"}
            BY <1>4, NextStatusType DEF RecordAttemptAndTransition
      <3>2. /\ Transition(rows[a.id], NextStatus(a)).status = "IN_PROGRESS"
                 <=> Transition(rows[a.id], NextStatus(a)).lease # "none"
            /\ Transition(rows[a.id], NextStatus(a)).status = "PENDING"
                 => Transition(rows[a.id], NextStatus(a)).due
            BY <3>1 DEF NeverStranded, TypeOK, Transition, Row
      <3> QED BY <2>2, <3>2 DEF NeverStranded, TypeOK
    <2> QED BY <1>4, <2>1, <2>2 DEF RecordAttemptAndTransition
  <1>5. ASSUME NEW i \in Id, BecomeDue(i) \/ LeaseExpires(i) \/ LeaseOverrun(i)
        PROVE  NeverStranded'
        BY <1>5 DEF NeverStranded, TypeOK, BecomeDue, LeaseExpires, LeaseOverrun, Row
  <1>6. CASE UNCHANGED rows
        BY <1>6 DEF NeverStranded
  <1> QED
      BY <1>1, <1>2, <1>3, <1>4, <1>5, <1>6
      DEF Next, vars, ReplayGet, Send, DecryptFails, LoseAttempt, Crash

\* Rows are never removed, and each changes as Evolves allows.
LEMMA RowsEvolve ==
  ASSUME TypeOK, NeverStranded, [Next]_vars, NEW i \in DOMAIN rows
  PROVE  i \in DOMAIN rows' /\ Evolves(rows[i], rows'[i])
  <1>1. rows[i] \in Row
        BY DEF TypeOK
  <1>2. ASSUME NEW event \in Event, NEW eps \in SUBSET Endpoint,
               NEW snap \in [eps -> [max : Policies, obstacle : Obstacles]],
               CreateDeliveries(event, eps, snap)
        PROVE  i \in DOMAIN rows' /\ Evolves(rows[i], rows'[i])
    <2>1. DOMAIN rows \subseteq DOMAIN rows' /\ \A k \in DOMAIN rows : rows'[k] = rows[k]
          BY ONLY TypeOK, <1>2, CreateAdds
    <2>2. Evolves(rows[i], rows[i])
          BY ONLY <1>1, EvolvesBySteps
    <2> QED BY <2>1, <2>2
  <1>3. ASSUME NEW j \in Id, NEW new \in Id, CreateReplay(j, new)
        PROVE  i \in DOMAIN rows' /\ Evolves(rows[i], rows'[i])
    <2>1. DOMAIN rows' = DOMAIN rows \cup {new} /\ \A k \in DOMAIN rows : rows'[k] = rows[k]
          BY ONLY TypeOK, <1>3, ReplayAdds
    <2>2. Evolves(rows[i], rows[i])
          BY ONLY <1>1, EvolvesBySteps
    <2> QED BY <2>1, <2>2
  <1>4. ASSUME NEW w \in Worker, NEW batch \in SUBSET DOMAIN rows, ClaimBatch(w, batch)
        PROVE  i \in DOMAIN rows' /\ Evolves(rows[i], rows'[i])
    <2>1. i \in batch => rows[i].status \notin Settled
          BY <1>4 DEF ClaimBatch, Claimable, Settled
    <2> QED BY <1>1, <1>4, <2>1, EvolvesBySteps DEF ClaimBatch
  <1>5. ASSUME NEW a \in inflight, RecordAttemptAndTransition(a)
        PROVE  i \in DOMAIN rows' /\ Evolves(rows[i], rows'[i])
    <2>1. NextStatus(a) \in Status
          BY <1>5, NextStatusType DEF RecordAttemptAndTransition, Status, Settled
    <2>2. /\ Evolves(rows[i], rows[i])
          /\ Evolves(rows[i], Transition(rows[i], NextStatus(a)))
          BY ONLY <1>1, <2>1, EvolvesBySteps
    <2> QED BY <1>5, <2>2 DEF RecordAttemptAndTransition
  <1>6. ASSUME NEW j \in Id, BecomeDue(j)
        PROVE  i \in DOMAIN rows' /\ Evolves(rows[i], rows'[i])
    <2>1. rows[j].status \notin Settled
          BY <1>6 DEF BecomeDue, Settled
    <2>2. /\ Evolves(rows[i], rows[i])
          /\ rows[i].status \notin Settled => Evolves(rows[i], [rows[i] EXCEPT !.due = TRUE])
          BY ONLY <1>1, EvolvesBySteps
    <2> QED BY <1>6, <2>1, <2>2 DEF BecomeDue
  <1>7. ASSUME NEW j \in Id, LeaseExpires(j) \/ LeaseOverrun(j)
        PROVE  i \in DOMAIN rows' /\ Evolves(rows[i], rows'[i])
    <2>1. rows[j].status \notin Settled
          BY <1>7 DEF LeaseExpires, LeaseOverrun, NeverStranded, Settled
    <2>2. /\ Evolves(rows[i], rows[i])
          /\ rows[i].status \notin Settled =>
               Evolves(rows[i], [rows[i] EXCEPT !.lease = "expired"])
          BY ONLY <1>1, EvolvesBySteps
    <2> QED BY <1>7, <2>1, <2>2 DEF LeaseExpires, LeaseOverrun
  <1>8. CASE UNCHANGED rows
        BY <1>1, <1>8, EvolvesBySteps
  <1> QED
      BY <1>2, <1>3, <1>4, <1>5, <1>6, <1>7, <1>8
      DEF Next, vars, ReplayGet, Send, DecryptFails, LoseAttempt, Crash

\* The claim query loses no row, in any reachable state.
THEOREM Stranded == Spec => []NeverStranded
  <1>1. Init => NeverStranded
        BY DEF Init, NeverStranded
  <1> QED BY <1>1, StrandedStep, Typing, PTL DEF Spec

\* A row that is DELIVERED, FAILED or in the DLQ never changes again, whoever
\* still records an attempt on it.
THEOREM Final == Spec => SettledIsFinal
  <1>1. TypeOK /\ NeverStranded /\ [Next]_vars
          => [\A i \in DOMAIN rows :
                rows[i].status \in Settled => rows'[i] = rows[i]]_vars
        BY RowsEvolve DEF Evolves
  <1> QED BY <1>1, Typing, Stranded, PTL DEF Spec, SettledIsFinal

-----------------------------------------------------------------------------
(* Attempt numbers.                                                         *)

\* Ledger entries stay in range while rows evolve.
LEMMA LedgerFrame ==
  ASSUME TypeOK, NeverStranded, [Next]_vars, AttemptLedger
  PROVE  \A a \in attempts \cup inflight : a.number \in 1..rows'[a.id].count
  <1> TAKE a \in attempts \cup inflight
  <1>1. a.id \in DOMAIN rows /\ rows[a.id].count \in Nat
        BY DEF TypeOK, Row
  <1>2. a.id \in DOMAIN rows' /\ rows'[a.id].count \in Nat
        BY <1>1, RowsEvolve, TypeStep DEF TypeOK, Row
  <1>3. rows'[a.id].count >= rows[a.id].count
        BY <1>1, RowsEvolve DEF Evolves
  <1>4. a.number \in 1..rows[a.id].count
        BY DEF AttemptLedger
  <1> QED BY <1>1, <1>2, <1>3, <1>4

\* Numbers are handed out once and recorded at most once: kept by every action.
LEMMA LedgerStep == TypeOK /\ NeverStranded /\ AttemptLedger /\ [Next]_vars => AttemptLedger'
  <1> SUFFICES ASSUME TypeOK, NeverStranded, AttemptLedger, [Next]_vars
               PROVE  AttemptLedger'
      OBVIOUS
  <1>1. \A a \in attempts \cup inflight : a.number \in 1..rows'[a.id].count
        BY LedgerFrame
  <1>2. CASE attempts' = attempts /\ inflight' \subseteq inflight
        BY <1>1, <1>2 DEF AttemptLedger
  <1>3. ASSUME NEW w \in Worker, NEW batch \in SUBSET DOMAIN rows, ClaimBatch(w, batch)
        PROVE  AttemptLedger'
    <2>1. \A i \in batch : /\ rows[i].count \in Nat
                           /\ Claim(rows[i]).count = rows[i].count + 1
                           /\ rows'[i].count = rows[i].count + 1
          BY <1>3, ClaimType DEF TypeOK, ClaimBatch
    <2>2. \A a \in inflight' \ inflight :
            a.id \in batch /\ a.number = rows[a.id].count + 1
            /\ a = [worker |-> w, id |-> a.id, number |-> a.number, result |-> "none"]
          BY <1>3, <2>1 DEF ClaimBatch
    <2>3. \A a \in inflight' \ inflight : a.number \in 1..rows'[a.id].count
          BY <2>1, <2>2
    <2>4. \A a \in inflight' \ inflight, b \in attempts \cup inflight :
            ~(a.id = b.id /\ a.number = b.number)
      <3> TAKE a \in inflight' \ inflight, b \in attempts \cup inflight
      <3>1. b.number \in 1..rows[b.id].count
            BY DEF AttemptLedger
      <3>2. rows[a.id].count \in Nat /\ a.number = rows[a.id].count + 1
            BY <2>1, <2>2
      <3> QED BY <3>1, <3>2
    <2>5. \A a, b \in inflight' : a.id = b.id /\ a.number = b.number => a = b
          BY <2>2, <2>4 DEF AttemptLedger
    <2>6. attempts' = attempts /\ inflight \subseteq inflight'
          BY <1>3 DEF ClaimBatch
    <2> QED BY <1>1, <2>3, <2>4, <2>5, <2>6 DEF AttemptLedger
  <1>4. ASSUME NEW a \in inflight, NEW result \in Result, Send(a, result)
        PROVE  AttemptLedger'
    <2> DEFINE b == [a EXCEPT !.result = result]
    <2>1. b.id = a.id /\ b.number = a.number
          BY DEF TypeOK, Attempt
    <2>2. inflight' = (inflight \ {a}) \cup {b} /\ attempts' = attempts
          BY <1>4 DEF Send
    <2> HIDE DEF b
    <2>3. \A c \in inflight \ {a} : ~(c.id = b.id /\ c.number = b.number)
          BY <2>1 DEF AttemptLedger
    <2>4. \A c \in attempts : ~(c.id = b.id /\ c.number = b.number)
          BY <2>1 DEF AttemptLedger
    <2>5. b.number \in 1..rows'[b.id].count
          BY <1>1, <2>1
    <2> QED BY <1>1, <2>2, <2>3, <2>4, <2>5 DEF AttemptLedger
  <1>5. ASSUME NEW a \in inflight, RecordAttemptAndTransition(a) PROVE AttemptLedger'
    <2>1. CASE attempts' = attempts
          BY <1>2, <1>5, <2>1 DEF RecordAttemptAndTransition
    <2>2. CASE attempts' = attempts \cup
                 {[id |-> a.id, number |-> a.number, result |-> a.result]}
      <3>1. inflight' = inflight \ {a}
            BY <1>5 DEF RecordAttemptAndTransition
      <3> DEFINE r == [id |-> a.id, number |-> a.number, result |-> a.result]
      <3>2. r.id = a.id /\ r.number = a.number /\ attempts' = attempts \cup {r}
            BY <2>2
      <3>3. \A b \in attempts : ~(b.id = r.id /\ b.number = r.number)
            BY <3>2 DEF AttemptLedger
      <3>4. \A b \in inflight' : ~(b.id = r.id /\ b.number = r.number)
            BY <3>1, <3>2 DEF AttemptLedger
      <3> HIDE DEF r
      <3> QED BY <1>1, <3>1, <3>2, <3>3, <3>4 DEF AttemptLedger
    <2> QED BY <1>5, <2>1, <2>2 DEF RecordAttemptAndTransition
  <1> QED
      BY <1>2, <1>3, <1>4, <1>5
      DEF Next, vars, CreateDeliveries, ReplayGet, CreateReplay, DecryptFails, BecomeDue,
          LeaseExpires, LeaseOverrun, LoseAttempt, Crash

\* Each attempt number of a row belongs to one goroutine or one recorded answer.
THEOREM Ledger == Spec => []AttemptLedger
  <1>1. Init => AttemptLedger
        BY DEF Init, AttemptLedger
  <1> QED BY <1>1, LedgerStep, Typing, Stranded, PTL DEF Spec

\* No answer that has arrived is refused by the tables: its number is free, and
\* a row that goes to RETRYING has a time for it.
THEOREM Recordable == Spec => []RecordNeverRejected
  <1>1. TypeOK /\ AttemptLedger => RecordNeverRejected
    <2> SUFFICES ASSUME TypeOK, AttemptLedger, NEW a \in inflight, a.result # "none"
                 PROVE  ~Rejected(a)
        BY DEF RecordNeverRejected
    <2>1. a.number \in Nat /\ rows[a.id].max \in Nat
          BY DeliveriesAssumption DEF TypeOK, Attempt, Row
    <2>2. NextStatus(a) = "RETRYING" => HasNext(a)
          BY <2>1 DEF NextStatus, HasNext, TypeOK, Attempt, Result
    <2>3. ~\E r \in attempts : r.id = a.id /\ r.number = a.number
          BY DEF AttemptLedger
    <2> QED BY <2>2, <2>3 DEF Rejected
  <1> QED BY <1>1, Typing, Ledger, PTL

-----------------------------------------------------------------------------
(* Verdicts.                                                                *)

\* Only a record gives a row a status other than PENDING and IN_PROGRESS.
LEMMA OnlyRecordsDecide ==
  ASSUME TypeOK, NeverStranded, [Next]_vars, NEW i \in DOMAIN rows',
         rows'[i].status \notin {"PENDING", "IN_PROGRESS"},
         ~\E a \in inflight : RecordAttemptAndTransition(a)
  PROVE  i \in DOMAIN rows /\ rows[i].status = rows'[i].status
  <1>1. ASSUME NEW event \in Event, NEW eps \in SUBSET Endpoint,
               NEW snap \in [eps -> [max : Policies, obstacle : Obstacles]],
               CreateDeliveries(event, eps, snap)
        PROVE  i \in DOMAIN rows /\ rows[i].status = rows'[i].status
    <2>1. \A j \in DOMAIN rows' \ DOMAIN rows : rows'[j].status = "PENDING"
          BY <1>1, CreateAdds
    <2>2. \A j \in DOMAIN rows : rows'[j] = rows[j]
          BY <1>1, CreateAdds
    <2> QED BY <2>1, <2>2
  <1>2. ASSUME NEW j \in Id, NEW new \in Id, CreateReplay(j, new)
        PROVE  i \in DOMAIN rows /\ rows[i].status = rows'[i].status
    <2>1. rows'[new] = NewRow(rows[j].event, rows[j].endpoint, rows[j].max,
                              rows[j].obstacle, j)
          BY <1>2, ReplayAdds
    <2>2. rows'[new].status = "PENDING"
          BY ONLY <2>1 DEF NewRow
    <2> QED BY <1>2, <2>2, ReplayAdds
  <1>3. ASSUME NEW w \in Worker, NEW batch \in SUBSET DOMAIN rows, ClaimBatch(w, batch)
        PROVE  i \in DOMAIN rows /\ rows[i].status = rows'[i].status
        BY <1>3, ClaimType DEF ClaimBatch, TypeOK
  <1>4. ASSUME NEW j \in Id, BecomeDue(j) \/ LeaseExpires(j) \/ LeaseOverrun(j)
        PROVE  i \in DOMAIN rows /\ rows[i].status = rows'[i].status
        BY <1>4 DEF BecomeDue, LeaseExpires, LeaseOverrun, TypeOK, Row
  <1>5. CASE UNCHANGED rows
        BY <1>5
  <1> QED
      BY <1>1, <1>2, <1>3, <1>4, <1>5
      DEF Next, vars, ReplayGet, Send, DecryptFails, LoseAttempt, Crash

\* A verdict and the attempt it rests on are written together, and neither is
\* ever taken back: kept by every action.
LEMMA EvidenceStep ==
  TypeOK /\ NeverStranded /\ AttemptLedger /\ VerdictHasEvidence /\ [Next]_vars
    => VerdictHasEvidence'
  <1> SUFFICES ASSUME TypeOK, NeverStranded, AttemptLedger, VerdictHasEvidence,
                      [Next]_vars, NEW i \in DOMAIN rows'
               PROVE  HasEvidence(i)'
      BY DEF VerdictHasEvidence
  <1>1. attempts \subseteq attempts'
        BY DEF Next, vars, CreateDeliveries, ReplayGet, CreateReplay, ClaimBatch, Send,
               DecryptFails, RecordAttemptAndTransition, BecomeDue, LeaseExpires,
               LeaseOverrun, LoseAttempt, Crash
  <1>2. CASE i \in DOMAIN rows /\ rows[i].status = rows'[i].status
    <2>1. rows'[i].max = rows[i].max
          BY <1>2, RowsEvolve DEF Evolves
    <2> QED BY <1>1, <1>2, <2>1 DEF VerdictHasEvidence, HasEvidence, Evidence
  <1>3. ASSUME NEW a \in inflight, RecordAttemptAndTransition(a), a.id = i,
               rows[i].status = "IN_PROGRESS",
               attempts' = attempts \cup
                 {[id |-> a.id, number |-> a.number, result |-> a.result]},
               rows' = [rows EXCEPT ![a.id] = Transition(@, NextStatus(a))]
        PROVE  HasEvidence(i)'
    <2>1. /\ i \in DOMAIN rows /\ rows[i] \in Row
          /\ a.number \in Nat /\ a.number >= 1 /\ a.result \in Result
      <3>1. a.result \in Result
            BY <1>3, NextStatusType DEF RecordAttemptAndTransition
      <3>2. i \in DOMAIN rows /\ rows[i] \in Row /\ rows[i].count \in Nat
            BY <1>3 DEF TypeOK, Row
      <3>3. a.number \in 1..rows[i].count
            BY <1>3 DEF AttemptLedger
      <3> QED BY <3>1, <3>2, <3>3
    <2>2. rows'[i].status = NextStatus(a) /\ rows'[i].max = rows[i].max
          BY <1>3, <2>1 DEF Transition, Row
    <2>3. \E r \in attempts' : r.id = i /\ r.result = a.result /\ r.number = a.number
      <3> DEFINE r == [id |-> a.id, number |-> a.number, result |-> a.result]
      <3>1. r \in attempts' /\ r.id = i /\ r.result = a.result /\ r.number = a.number
            BY <1>3
      <3> QED BY <3>1
    <2>4. rows[i].max \in Nat
          BY <2>1, DeliveriesAssumption DEF Row
    <2> QED BY <1>3, <2>1, <2>2, <2>3, <2>4
            DEF HasEvidence, Evidence, NextStatus, Result
  <1>4. ASSUME NEW a \in inflight, RecordAttemptAndTransition(a),
               ~(a.id = i /\ rows[i].status = "IN_PROGRESS") \/ UNCHANGED rows
        PROVE  i \in DOMAIN rows /\ rows[i].status = rows'[i].status
        BY <1>4 DEF RecordAttemptAndTransition, Transition, TypeOK
  <1>5. ASSUME NEW a \in inflight, RecordAttemptAndTransition(a) PROVE HasEvidence(i)'
        BY <1>2, <1>3, <1>4, <1>5 DEF RecordAttemptAndTransition
  <1>6. CASE rows'[i].status \in {"PENDING", "IN_PROGRESS"}
        BY <1>6 DEF HasEvidence
  <1> QED BY <1>2, <1>5, <1>6, OnlyRecordsDecide

\* DELIVERED, FAILED, DLQ and RETRYING each rest on a recorded attempt.
THEOREM Verdicts == Spec => []VerdictHasEvidence
  <1>1. Init => VerdictHasEvidence
        BY DEF Init, VerdictHasEvidence
  <1> QED BY <1>1, EvidenceStep, Typing, Stranded, Ledger, PTL DEF Spec

-----------------------------------------------------------------------------
(* Originals and replays.                                                   *)

\* Handling a message again adds no second original: kept by every action.
LEMMA OriginalStep == TypeOK /\ NeverStranded /\ OneOriginal /\ [Next]_vars => OneOriginal'
  <1> SUFFICES ASSUME TypeOK, NeverStranded, OneOriginal, [Next]_vars
               PROVE  OneOriginal'
      OBVIOUS
  <1>1. ASSUME NEW event \in Event, NEW eps \in SUBSET Endpoint,
               NEW snap \in [eps -> [max : Policies, obstacle : Obstacles]],
               CreateDeliveries(event, eps, snap)
        PROVE  OneOriginal'
    <2>1. \A i \in DOMAIN rows : rows'[i] = rows[i]
          BY <1>1, CreateAdds
    <2>2. \A i \in DOMAIN rows' \ DOMAIN rows :
            rows'[i].event = event /\ ~Conflicts(event, rows'[i].endpoint)
          BY <1>1, CreateAdds DEF NewRow
    <2>3. \A i \in DOMAIN rows' \ DOMAIN rows, j \in DOMAIN rows :
            ~(/\ rows[j].replayOf = None /\ rows[j].event = rows'[i].event
              /\ rows[j].endpoint = rows'[i].endpoint)
          BY <2>2 DEF Conflicts
    <2>4. \A i, j \in DOMAIN rows' \ DOMAIN rows :
            rows'[i].endpoint = rows'[j].endpoint => i = j
          BY <1>1, CreateAdds
    <2> QED BY <2>1, <2>3, <2>4 DEF OneOriginal
  <1>2. ASSUME NEW j \in Id, NEW new \in Id, CreateReplay(j, new) PROVE OneOriginal'
    <2>1. rows'[new] = NewRow(rows[j].event, rows[j].endpoint, rows[j].max,
                              rows[j].obstacle, j)
          BY <1>2, ReplayAdds
    <2>2. rows'[new].replayOf = j
          BY ONLY <2>1 DEF NewRow
    <2>3. j # None
          BY DeliveriesAssumption
    <2>4. /\ DOMAIN rows' = DOMAIN rows \cup {new}
          /\ \A i \in DOMAIN rows : rows'[i] = rows[i]
          BY <1>2, ReplayAdds
    <2> QED BY <2>2, <2>3, <2>4 DEF OneOriginal
  <1>3. CASE DOMAIN rows' = DOMAIN rows
        BY <1>3, RowsEvolve DEF OneOriginal, Evolves
  <1> QED
      BY <1>1, <1>2, <1>3
      DEF Next, vars, ReplayGet, ClaimBatch, Send, DecryptFails,
          RecordAttemptAndTransition, BecomeDue, LeaseExpires, LeaseOverrun,
          LoseAttempt, Crash

\* An event has one original delivery per endpoint.
THEOREM Originals == Spec => []OneOriginal
  <1>1. Init => OneOriginal
        BY DEF Init, OneOriginal
  <1> QED BY <1>1, OriginalStep, Typing, Stranded, PTL DEF Spec

\* What Replay read is still so when it inserts.
ReplaysFailed == \A i \in replays : rows[i].status \in {"FAILED", "DLQ"}

LEMMA ReplaysFailedStep ==
  TypeOK /\ NeverStranded /\ ReplaysFailed /\ [Next]_vars => ReplaysFailed'
  <1> SUFFICES ASSUME TypeOK, NeverStranded, ReplaysFailed, [Next]_vars, NEW i \in replays'
               PROVE  rows'[i].status \in {"FAILED", "DLQ"}
      BY DEF ReplaysFailed
  <1>1. i \in DOMAIN rows /\ rows[i].status \in {"FAILED", "DLQ"}
        BY DEF TypeOK, ReplaysFailed, Next, vars, CreateDeliveries, ReplayGet, CreateReplay,
               ClaimBatch, Send, DecryptFails, RecordAttemptAndTransition, BecomeDue,
               LeaseExpires, LeaseOverrun, LoseAttempt, Crash
  <1> QED BY <1>1, RowsEvolve DEF Evolves, Settled

LEMMA ReplaySourceStep ==
  TypeOK /\ NeverStranded /\ ReplaysFailed /\ ReplaySourceSettled /\ [Next]_vars
    => ReplaySourceSettled'
  <1> SUFFICES ASSUME TypeOK, NeverStranded, ReplaysFailed, ReplaySourceSettled, [Next]_vars,
                      NEW i \in DOMAIN rows', rows'[i].replayOf # None
               PROVE  LET source == rows'[i].replayOf IN
                      /\ source \in DOMAIN rows'
                      /\ rows'[source].status \in {"FAILED", "DLQ"}
                      /\ rows'[source].event = rows'[i].event
                      /\ rows'[source].endpoint = rows'[i].endpoint
      BY DEF ReplaySourceSettled
  <1> DEFINE source == rows'[i].replayOf
  <1>1. CASE i \in DOMAIN rows
    <2>1. /\ rows'[i].replayOf = rows[i].replayOf
          /\ rows'[i].event = rows[i].event /\ rows'[i].endpoint = rows[i].endpoint
          BY <1>1, RowsEvolve DEF Evolves
    <2>2. /\ source \in DOMAIN rows
          /\ rows[source].status \in {"FAILED", "DLQ"}
          /\ rows[source].event = rows[i].event
          /\ rows[source].endpoint = rows[i].endpoint
          BY <1>1, <2>1 DEF ReplaySourceSettled
    <2>3. source \in DOMAIN rows' /\ rows'[source] = rows[source]
          BY <2>2, RowsEvolve DEF Evolves, Settled
    <2> QED BY <2>1, <2>2, <2>3
  <1>2. ASSUME NEW j \in Id, NEW new \in Id, CreateReplay(j, new), i \notin DOMAIN rows
        PROVE  /\ source \in DOMAIN rows'
               /\ rows'[source].status \in {"FAILED", "DLQ"}
               /\ rows'[source].event = rows'[i].event
               /\ rows'[source].endpoint = rows'[i].endpoint
    <2>1. /\ i = new /\ j \in DOMAIN rows /\ DOMAIN rows' = DOMAIN rows \cup {new}
          /\ rows'[j] = rows[j]
          /\ rows'[new] = NewRow(rows[j].event, rows[j].endpoint, rows[j].max,
                                 rows[j].obstacle, j)
          BY <1>2, ReplayAdds
    <2>2. /\ rows'[new].replayOf = j /\ rows'[new].event = rows[j].event
          /\ rows'[new].endpoint = rows[j].endpoint
          BY ONLY <2>1 DEF NewRow
    <2>3. rows[j].status \in {"FAILED", "DLQ"}
          BY <1>2 DEF CreateReplay, ReplaysFailed
    <2> QED BY <2>1, <2>2, <2>3
  <1>3. ASSUME NEW event \in Event, NEW eps \in SUBSET Endpoint,
               NEW snap \in [eps -> [max : Policies, obstacle : Obstacles]],
               CreateDeliveries(event, eps, snap), i \notin DOMAIN rows
        PROVE  FALSE
        BY <1>3, CreateAdds DEF NewRow
  <1> QED
      BY <1>1, <1>2, <1>3
      DEF Next, vars, ReplayGet, ClaimBatch, Send, DecryptFails,
          RecordAttemptAndTransition, BecomeDue, LeaseExpires, LeaseOverrun,
          LoseAttempt, Crash

\* A replay copies a delivery that has failed, to where that one went.
THEOREM ReplaySources == Spec => []ReplaySourceSettled
  <1>1. Init => ReplaysFailed /\ ReplaySourceSettled
        BY DEF Init, ReplaysFailed, ReplaySourceSettled
  <1> QED BY <1>1, ReplaysFailedStep, ReplaySourceStep, Typing, Stranded, PTL DEF Spec

-----------------------------------------------------------------------------
(* When no attempt outlasts its lease.                                      *)

\* One goroutine per row, the one its lease was given to: kept by every action.
LEMMA ExclusiveStep ==
  TypeOK /\ NeverStranded /\ ExclusiveAttempt /\ [Next]_vars => ExclusiveAttempt'
  <1> SUFFICES ASSUME TypeOK, NeverStranded, ExclusiveAttempt, [Next]_vars, ~OutlastsLease
               PROVE  /\ \A a, b \in inflight' : a.id = b.id => a = b
                      /\ \A a \in inflight' : /\ rows'[a.id].status = "IN_PROGRESS"
                                              /\ rows'[a.id].lease = "held"
                                              /\ a.number = rows'[a.id].count
      BY DEF ExclusiveAttempt
  <1> DEFINE Alone(fl, rs) ==
        /\ \A a, b \in fl : a.id = b.id => a = b
        /\ \A a \in fl : /\ rs[a.id].status = "IN_PROGRESS"
                         /\ rs[a.id].lease = "held"
                         /\ a.number = rs[a.id].count
  <1>1. Alone(inflight, rows)
        BY DEF ExclusiveAttempt
  <1>2. CASE inflight' \subseteq inflight /\ \A i \in DOMAIN rows : rows'[i] = rows[i]
        BY <1>1, <1>2 DEF TypeOK
  <1>3. ASSUME NEW event \in Event, NEW eps \in SUBSET Endpoint,
               NEW snap \in [eps -> [max : Policies, obstacle : Obstacles]],
               CreateDeliveries(event, eps, snap)
        PROVE  inflight' \subseteq inflight /\ \A i \in DOMAIN rows : rows'[i] = rows[i]
        BY <1>3, CreateAdds DEF CreateDeliveries
  <1>4. ASSUME NEW j \in Id, NEW new \in Id, CreateReplay(j, new)
        PROVE  inflight' \subseteq inflight /\ \A i \in DOMAIN rows : rows'[i] = rows[i]
        BY <1>4, ReplayAdds DEF CreateReplay
  <1>5. ASSUME NEW w \in Worker, NEW batch \in SUBSET DOMAIN rows, ClaimBatch(w, batch)
        PROVE  Alone(inflight', rows')
    <2>1. \A a \in inflight : a.id \notin batch
          BY <1>1, <1>5 DEF ClaimBatch, Claimable
    <2>2. \A a \in inflight : rows'[a.id] = rows[a.id]
          BY <1>5, <2>1 DEF ClaimBatch, TypeOK
    <2>3. \A a \in inflight' \ inflight :
            /\ a.id \in batch /\ a.number = Claim(rows[a.id]).count
            /\ a = [worker |-> w, id |-> a.id, number |-> a.number, result |-> "none"]
          BY <1>5 DEF ClaimBatch
    <2>4. \A i \in batch : rows'[i] = Claim(rows[i])
          BY <1>5 DEF ClaimBatch
    <2>5. \A i \in batch : rows'[i].status = "IN_PROGRESS" /\ rows'[i].lease = "held"
          BY <2>4, ClaimType DEF TypeOK
    <2>6. \A a \in inflight' \ inflight : /\ rows'[a.id].status = "IN_PROGRESS"
                                          /\ rows'[a.id].lease = "held"
                                          /\ a.number = rows'[a.id].count
          BY <2>3, <2>4, <2>5
    <2>7. \A a, b \in inflight' \ inflight : a.id = b.id => a = b
          BY <2>3
    <2> QED BY <1>1, <2>1, <2>2, <2>3, <2>6, <2>7
  <1>6. ASSUME NEW a \in inflight, NEW result \in Result, Send(a, result)
        PROVE  Alone(inflight', rows')
    <2> DEFINE b == [a EXCEPT !.result = result]
    <2>1. b.id = a.id /\ b.number = a.number
          BY DEF TypeOK, Attempt
    <2>2. inflight' = (inflight \ {a}) \cup {b} /\ rows' = rows
          BY <1>6 DEF Send
    <2> HIDE DEF b
    <2> QED BY <1>1, <2>1, <2>2
  <1>7. ASSUME NEW a \in inflight, RecordAttemptAndTransition(a)
        PROVE  Alone(inflight', rows')
    <2>1. \A b \in inflight' : b \in inflight /\ b.id # a.id
          BY <1>1, <1>7 DEF RecordAttemptAndTransition
    <2>2. \A b \in inflight' : rows'[b.id] = rows[b.id]
          BY <1>7, <2>1 DEF RecordAttemptAndTransition, TypeOK
    <2> QED BY <1>1, <2>1, <2>2
  <1>8. ASSUME NEW j \in Id, BecomeDue(j) \/ LeaseExpires(j) PROVE Alone(inflight', rows')
    <2>1. \A a \in inflight : a.id # j
          BY <1>1, <1>8 DEF BecomeDue, LeaseExpires, HolderAlive
    <2>2. inflight' = inflight /\ \A a \in inflight : rows'[a.id] = rows[a.id]
          BY <1>8, <2>1 DEF BecomeDue, LeaseExpires, TypeOK
    <2> QED BY <1>1, <2>2
  <1> QED
      BY <1>2, <1>3, <1>4, <1>5, <1>6, <1>7, <1>8
      DEF Next, vars, ReplayGet, DecryptFails, LeaseOverrun, LoseAttempt, Crash

\* If no attempt outlasts its lease, no row is ever with two goroutines.
THEOREM Exclusive == Spec => []ExclusiveAttempt
  <1>1. Init => ExclusiveAttempt
        BY DEF Init, ExclusiveAttempt
  <1> QED BY <1>1, ExclusiveStep, Typing, Stranded, PTL DEF Spec

LEMMA SuccessStep ==
  TypeOK /\ NeverStranded /\ ExclusiveAttempt /\ ~OutlastsLease /\ SuccessIsSettled
    /\ [Next]_vars => SuccessIsSettled'
  <1> SUFFICES ASSUME TypeOK, NeverStranded, ExclusiveAttempt, ~OutlastsLease,
                      SuccessIsSettled, [Next]_vars,
                      NEW r \in attempts', r.result = "SUCCESS"
               PROVE  rows'[r.id].status = "DELIVERED"
      BY DEF SuccessIsSettled
  <1>1. CASE r \in attempts
    <2>1. r.id \in DOMAIN rows /\ rows[r.id].status = "DELIVERED"
          BY <1>1 DEF SuccessIsSettled, TypeOK
    <2> QED BY <2>1, RowsEvolve DEF Evolves, Settled
  <1>2. ASSUME NEW a \in inflight, RecordAttemptAndTransition(a), r \notin attempts
        PROVE  rows'[r.id].status = "DELIVERED"
    <2>1. /\ r = [id |-> a.id, number |-> a.number, result |-> a.result]
          /\ rows' = [rows EXCEPT ![a.id] = Transition(@, NextStatus(a))]
          BY <1>2 DEF RecordAttemptAndTransition
    <2>2. a.result = "SUCCESS" /\ r.id = a.id
          BY <2>1
    <2>3. a.id \in DOMAIN rows /\ rows[a.id] \in Row /\ rows[a.id].status = "IN_PROGRESS"
          BY DEF ExclusiveAttempt, TypeOK
    <2>4. NextStatus(a) = "DELIVERED"
          BY <2>2 DEF NextStatus
    <2>5. Transition(rows[a.id], "DELIVERED").status = "DELIVERED"
          BY <2>3 DEF Transition, Row
    <2> QED BY <2>1, <2>2, <2>3, <2>4, <2>5
  <1> QED
      BY <1>1, <1>2
      DEF Next, vars, CreateDeliveries, ReplayGet, CreateReplay, ClaimBatch, Send,
          DecryptFails, BecomeDue, LeaseExpires, LeaseOverrun, LoseAttempt, Crash

\* If no attempt outlasts its lease, a delivery with a recorded 2xx is DELIVERED.
THEOREM Successes == ASSUME ~OutlastsLease PROVE Spec => []SuccessIsSettled
  <1>1. Init => SuccessIsSettled
        BY DEF Init, SuccessIsSettled
  <1>2. TypeOK /\ NeverStranded /\ ExclusiveAttempt /\ SuccessIsSettled /\ [Next]_vars
          => SuccessIsSettled'
        BY SuccessStep
  <1> QED BY <1>1, <1>2, Typing, Stranded, Exclusive, PTL DEF Spec

-----------------------------------------------------------------------------
(* The worker pool.                                                         *)

PoolInv == \A w \in Worker : IsFiniteSet(Busy(w)) /\ Cardinality(Busy(w)) <= Concurrency

\* The goroutines a claim starts are at most as many as the rows it claims.
LEMMA BatchStarts ==
  ASSUME NEW batch, IsFiniteSet(batch), NEW w,
         NEW T, T = {[worker |-> w, id |-> i, number |-> Claim(rows[i]).count,
                      result |-> "none"] : i \in batch}
  PROVE  IsFiniteSet(T) /\ Cardinality(T) <= Cardinality(batch)
  <1> DEFINE f == [i \in batch |-> [worker |-> w, id |-> i,
                                    number |-> Claim(rows[i]).count, result |-> "none"]]
  <1>1. f \in Surjection(batch, T)
        BY DEF Surjection
  <1> QED BY <1>1, FS_Surjection

LEMMA PoolStep == TypeOK /\ PoolInv /\ [Next]_vars => PoolInv'
  <1> USE DeliveriesAssumption
  <1> SUFFICES ASSUME TypeOK, PoolInv, [Next]_vars, NEW v \in Worker
               PROVE  IsFiniteSet(Busy(v)') /\ Cardinality(Busy(v)') <= Concurrency
      BY DEF PoolInv
  <1>1. IsFiniteSet(Busy(v)) /\ Cardinality(Busy(v)) \in Nat
        /\ Cardinality(Busy(v)) <= Concurrency
        BY FS_CardinalityType DEF PoolInv
  <1>2. CASE inflight' \subseteq inflight
    <2>1. Busy(v)' \subseteq Busy(v)
          BY <1>2 DEF Busy
    <2>2. IsFiniteSet(Busy(v)') /\ Cardinality(Busy(v)') <= Cardinality(Busy(v))
          BY <1>1, <2>1, FS_Subset
    <2> QED BY <1>1, <2>2, FS_CardinalityType
  <1>3. ASSUME NEW w \in Worker, NEW batch \in SUBSET DOMAIN rows, ClaimBatch(w, batch)
        PROVE  IsFiniteSet(Busy(v)') /\ Cardinality(Busy(v)') <= Concurrency
    <2> DEFINE T == {[worker |-> w, id |-> i, number |-> Claim(rows[i]).count,
                      result |-> "none"] : i \in batch}
    <2>1. inflight' = inflight \cup T /\ \A a \in T : a.worker = w
          BY <1>3 DEF ClaimBatch
    <2>2. CASE v # w
      <3>1. Busy(v)' = Busy(v)
            BY <2>1, <2>2 DEF Busy
      <3> QED BY <1>1, <3>1
    <2>3. CASE v = w
      <3>1. Busy(v)' = Busy(v) \cup T
            BY <2>1, <2>3 DEF Busy
      <3>2. IsFiniteSet(batch) /\ Cardinality(batch) \in Nat
            BY FS_Subset, FS_CardinalityType DEF TypeOK
      <3>3. IsFiniteSet(T) /\ Cardinality(T) <= Cardinality(batch)
            BY <3>2, BatchStarts
      <3>4. Cardinality(T) \in Nat /\ Cardinality(Busy(v) \cap T) \in Nat
        <4>1. IsFiniteSet(Busy(v) \cap T)
              BY <1>1, FS_Intersection
        <4> QED BY <3>3, <4>1, FS_CardinalityType
      <3>5. /\ IsFiniteSet(Busy(v) \cup T)
            /\ Cardinality(Busy(v) \cup T)
                 = Cardinality(Busy(v)) + Cardinality(T) - Cardinality(Busy(v) \cap T)
            BY <1>1, <3>3, FS_Union
      <3>6. Cardinality(batch) <= Concurrency - Cardinality(Busy(v))
            BY <1>1, <1>3, <2>3, <3>2 DEF ClaimBatch, BatchLimit, Available
      <3> HIDE DEF T
      <3> QED BY <1>1, <3>1, <3>2, <3>3, <3>4, <3>5, <3>6
    <2> QED BY <2>2, <2>3
  <1>4. ASSUME NEW a \in inflight, NEW result \in Result, Send(a, result)
        PROVE  IsFiniteSet(Busy(v)') /\ Cardinality(Busy(v)') <= Concurrency
    <2> DEFINE b == [a EXCEPT !.result = result]
    <2>1. b.worker = a.worker /\ inflight' = (inflight \ {a}) \cup {b}
          BY <1>4 DEF Send, TypeOK, Attempt
    <2> HIDE DEF b
    <2>2. CASE a.worker = v
      <3>1. Busy(v)' = (Busy(v) \ {a}) \cup {b} /\ a \in Busy(v)
            BY <2>1, <2>2 DEF Busy
      <3>2. /\ IsFiniteSet(Busy(v) \ {a})
            /\ Cardinality(Busy(v) \ {a}) = Cardinality(Busy(v)) - 1
            BY <1>1, <3>1, FS_RemoveElement
      <3> DEFINE rest == Busy(v) \ {a}
      <3>3. /\ IsFiniteSet(rest \cup {b})
            /\ Cardinality(rest \cup {b}) =
                 IF b \in rest THEN Cardinality(rest) ELSE Cardinality(rest) + 1
            BY <3>2, FS_AddElement
      <3>4. Busy(v)' = rest \cup {b} /\ Cardinality(rest) = Cardinality(Busy(v)) - 1
            BY <3>1, <3>2
      <3> HIDE DEF rest
      <3> QED BY <1>1, <3>3, <3>4
    <2>3. CASE a.worker # v
      <3>1. Busy(v)' = Busy(v)
            BY <2>1, <2>3 DEF Busy
      <3> QED BY <1>1, <3>1
    <2> QED BY <2>2, <2>3
  <1> QED
      BY <1>2, <1>3, <1>4
      DEF Next, vars, CreateDeliveries, ReplayGet, CreateReplay, DecryptFails,
          RecordAttemptAndTransition, BecomeDue, LeaseExpires, LeaseOverrun,
          LoseAttempt, Crash

\* A worker never starts more goroutines than its semaphore has slots.
THEOREM Pool == Spec => []WithinPool
  <1>1. Init => PoolInv
        BY FS_EmptySet, DeliveriesAssumption DEF Init, PoolInv, Busy
  <1>2. PoolInv => WithinPool
        BY FS_CardinalityType, DeliveriesAssumption DEF PoolInv, WithinPool, Available
  <1> QED BY <1>1, <1>2, PoolStep, Typing, PTL DEF Spec

-----------------------------------------------------------------------------
(* The retry budget.  A claim uses up the row's one claim in hand; a         *)
(* retryable answer below the limit, or a fault, gives it the next.          *)

\* Numbers of the recorded answers that the policy allows another attempt after.
Retries(i) ==
  {n \in 1..(rows[i].max - 1) :
     \E r \in attempts : r.id = i /\ r.number = n /\ r.result = "RETRYABLE_FAILURE"}

\* Row i can be claimed without another answer or fault.
InHand(i) ==
  \/ rows[i].status \in {"PENDING", "RETRYING"}
  \/ rows[i].status = "IN_PROGRESS" /\ (rows[i].lease = "expired" \/ ~HolderAlive(i))

Credit(i) == IF InHand(i) THEN 1 ELSE 0

Paid(i) ==
  rows[i].obstacle = "none" => rows[i].count + Credit(i) <= 1 + Cardinality(Retries(i)) + faults

\* A set of numbers up to n is finite and has at most n elements.
LEMMA UpTo ==
  ASSUME NEW n \in Int, NEW S \in SUBSET (1..n)
  PROVE  /\ IsFiniteSet(S) /\ Cardinality(S) \in Nat
         /\ n >= 0 => Cardinality(S) <= n
  <1>1. IsFiniteSet(1..n) /\ Cardinality(1..n) = IF 1 > n THEN 0 ELSE n - 1 + 1
        BY FS_Interval
  <1>2. IsFiniteSet(S) /\ Cardinality(S) <= Cardinality(1..n)
        BY ONLY <1>1, S \in SUBSET (1..n), FS_Subset
  <1>3. Cardinality(S) \in Nat
        BY ONLY <1>2, FS_CardinalityType
  <1> QED BY <1>1, <1>2, <1>3

LEMMA RetriesFinite ==
  ASSUME TypeOK, NEW i \in DOMAIN rows
  PROVE  /\ IsFiniteSet(Retries(i)) /\ Cardinality(Retries(i)) \in Nat
         /\ Cardinality(Retries(i)) <= rows[i].max - 1
  <1>1. rows[i].max \in Nat \ {0}
        BY DeliveriesAssumption DEF TypeOK, Row
  <1>2. Retries(i) \in SUBSET (1..(rows[i].max - 1))
        BY DEF Retries
  <1>3. rows[i].max - 1 \in Int /\ rows[i].max - 1 >= 0
        BY <1>1
  <1> QED BY ONLY <1>2, <1>3, UpTo

\* A row stays paid for if what it uses is met by its retries and the faults.
LEMMA PaidMoves ==
  ASSUME TypeOK, TypeOK', NEW i \in DOMAIN rows, i \in DOMAIN rows', Paid(i),
         rows'[i].obstacle = rows[i].obstacle, rows'[i].max = rows[i].max,
         Cardinality(Retries(i)') >= Cardinality(Retries(i)), faults' >= faults,
         rows'[i].count + Credit(i)' <= rows[i].count + Credit(i)
            + (Cardinality(Retries(i)') - Cardinality(Retries(i))) + (faults' - faults)
  PROVE  Paid(i)'
  <1>1. /\ rows[i].count \in Nat /\ rows'[i].count \in Nat
        /\ Credit(i) \in Nat /\ Credit(i)' \in Nat /\ faults \in Nat /\ faults' \in Nat
        BY DEF TypeOK, Row, Credit
  <1>2. Cardinality(Retries(i)) \in Nat
        BY RetriesFinite
  <1>3. Cardinality(Retries(i)') \in Nat
    <2>1. rows[i].max \in Nat
          BY DeliveriesAssumption DEF TypeOK, Row
    <2>2. rows[i].max - 1 \in Int /\ Retries(i)' \in SUBSET (1..(rows[i].max - 1))
          BY <2>1 DEF Retries
    <2> QED BY ONLY <2>2, UpTo
  <1> DEFINE old == Cardinality(Retries(i))
             new == Cardinality(Retries(i)')
  <1>4. rows[i].obstacle = "none" => rows[i].count + Credit(i) <= 1 + old + faults
        BY DEF Paid
  <1>5. rows'[i].count + Credit(i)' <= rows[i].count + Credit(i) + (new - old) + (faults' - faults)
        OBVIOUS
  <1>6. old \in Nat /\ new \in Nat
        BY <1>2, <1>3
  <1>7. Paid(i)' <=> (rows'[i].obstacle = "none" => rows'[i].count + Credit(i)' <= 1 + new + faults')
        BY DEF Paid
  <1> HIDE DEF old, new
  <1> QED BY <1>1, <1>4, <1>5, <1>6, <1>7, rows'[i].obstacle = rows[i].obstacle

\* As long as nothing is recorded the retries of a row stay.
LEMMA RetriesStay ==
  ASSUME TypeOK, NeverStranded, [Next]_vars, NEW i \in DOMAIN rows, attempts' = attempts
  PROVE  Retries(i)' = Retries(i)
  <1>1. rows'[i].max = rows[i].max
        BY RowsEvolve DEF Evolves
  <1> QED BY <1>1 DEF Retries

\* An answer that is recorded for row i: a retryable one below the limit adds to
\* its retries.
LEMMA RetriesRecorded ==
  ASSUME TypeOK, NeverStranded, AttemptLedger, [Next]_vars, NEW a \in inflight, NEW i \in DOMAIN rows,
         attempts' = attempts \cup {[id |-> a.id, number |-> a.number, result |-> a.result]}
  PROVE  /\ Cardinality(Retries(i)') >= Cardinality(Retries(i))
         /\ i = a.id /\ a.result = "RETRYABLE_FAILURE" /\ a.number < rows[i].max
              => Cardinality(Retries(i)') = Cardinality(Retries(i)) + 1
  <1>1. rows'[i].max = rows[i].max /\ rows[i].max \in Nat
        BY RowsEvolve, DeliveriesAssumption DEF Evolves, TypeOK, Row
  <1>2. a.number \in Nat /\ a.number >= 1
    <2>1. a.number \in 1..rows[a.id].count
          BY DEF AttemptLedger
    <2> QED BY <2>1
  <1>3. IsFiniteSet(Retries(i)) /\ Cardinality(Retries(i)) \in Nat
        BY RetriesFinite
  <1> DEFINE r == [id |-> a.id, number |-> a.number, result |-> a.result]
             adds == i = a.id /\ a.result = "RETRYABLE_FAILURE" /\ a.number < rows[i].max
  <1>4. r.id = a.id /\ r.number = a.number /\ r.result = a.result /\ attempts' = attempts \cup {r}
        OBVIOUS
  <1> HIDE DEF r
  <1>5. CASE adds
    <2>1. a.number \in 1..(rows[i].max - 1)
          BY <1>1, <1>2, <1>5
    <2>2. Retries(i)' = Retries(i) \cup {a.number}
          BY <1>1, <1>4, <1>5, <2>1 DEF Retries
    <2>3. a.number \notin Retries(i)
          BY <1>5 DEF Retries, AttemptLedger
    <2>4. Cardinality(Retries(i) \cup {a.number}) = Cardinality(Retries(i)) + 1
          BY ONLY <1>3, <2>3, FS_AddElement
    <2> QED BY <1>3, <2>2, <2>4
  <1>6. CASE ~adds
    <2>1. Retries(i)' = Retries(i)
          BY <1>1, <1>2, <1>4, <1>6 DEF Retries
    <2> QED BY <1>3, <1>6, <2>1
  <1> QED BY <1>5, <1>6

\* A row whose columns stay, and whose goroutine stays unless a fault is paid.
LEMMA PaidStays ==
  ASSUME TypeOK, TypeOK', NEW i \in DOMAIN rows, i \in DOMAIN rows', Paid(i),
         rows'[i] = rows[i], Retries(i)' = Retries(i), faults' \in {faults, faults + 1},
         (HolderAlive(i) => HolderAlive(i)') \/ faults' = faults + 1
  PROVE  Paid(i)'
  <1>1. /\ rows[i].count \in Nat /\ faults \in Nat /\ Cardinality(Retries(i)) \in Nat
        /\ Credit(i) \in {0, 1} /\ Credit(i)' \in {0, 1}
        BY RetriesFinite DEF TypeOK, Row, Credit
  <1>2. Credit(i)' <= Credit(i) + (faults' - faults)
    <2>1. CASE HolderAlive(i) => HolderAlive(i)'
      <3>1. InHand(i)' => InHand(i)
            BY <2>1 DEF InHand
      <3>2. Credit(i)' <= Credit(i)
            BY <3>1 DEF Credit
      <3> QED BY <1>1, <3>2
    <2>2. CASE faults' = faults + 1
          BY <1>1, <2>2
    <2> QED BY <2>1, <2>2
  <1> QED BY <1>1, <1>2, PaidMoves

LEMMA PaidStep ==
  ASSUME TypeOK, NeverStranded, AttemptLedger, RecordNeverRejected, [Next]_vars,
         \A i \in DOMAIN rows : Paid(i)
  PROVE  \A i \in DOMAIN rows' : Paid(i)'
  <1>0. TypeOK' /\ \A i \in DOMAIN rows : i \in DOMAIN rows' /\ Evolves(rows[i], rows'[i])
        BY TypeStep, RowsEvolve
  <1>1. ASSUME NEW i \in DOMAIN rows' \ DOMAIN rows, rows'[i].count = 0, faults' = faults
        PROVE  Paid(i)'
    <2>1. Cardinality(Retries(i)') \in Nat
      <3>1. rows'[i].max \in Nat
            BY <1>0, DeliveriesAssumption DEF TypeOK, Row
      <3>2. rows'[i].max - 1 \in Int /\ Retries(i)' \in SUBSET (1..(rows'[i].max - 1))
            BY <3>1 DEF Retries
      <3> QED BY ONLY <3>2, UpTo
    <2>2. Credit(i)' \in {0, 1} /\ faults' \in Nat
          BY <1>1 DEF Credit, TypeOK
    <2> QED BY <1>1, <2>1, <2>2 DEF Paid
  <1>2. ASSUME NEW event \in Event, NEW eps \in SUBSET Endpoint,
               NEW snap \in [eps -> [max : Policies, obstacle : Obstacles]],
               CreateDeliveries(event, eps, snap), NEW i \in DOMAIN rows'
        PROVE  Paid(i)'
    <2>1. UNCHANGED <<attempts, inflight, faults>>
          BY <1>2 DEF CreateDeliveries
    <2>2. CASE i \in DOMAIN rows
      <3>1. rows'[i] = rows[i]
            BY <1>2, <2>2, CreateAdds
      <3>2. Retries(i)' = Retries(i) /\ (HolderAlive(i)' <=> HolderAlive(i))
            BY <2>1, <3>1 DEF Retries, HolderAlive
      <3> QED BY <1>0, <2>1, <2>2, <3>1, <3>2, PaidStays
    <2>3. CASE i \notin DOMAIN rows
      <3>1. i \in DOMAIN rows' \ DOMAIN rows
            BY <1>2, <2>3
      <3>2. \E p \in eps : rows'[i] = NewRow(event, p, snap[p].max, snap[p].obstacle, None)
        <4>1. \A j \in DOMAIN rows' \ DOMAIN rows :
                \E p \in eps : /\ ~Conflicts(event, p)
                               /\ rows'[j] = NewRow(event, p, snap[p].max, snap[p].obstacle, None)
              BY ONLY TypeOK, <1>2, CreateAdds
        <4> QED BY ONLY <3>1, <4>1
      <3>3. rows'[i].count = 0
            BY ONLY <3>2 DEF NewRow
      <3> QED BY <1>1, <2>1, <3>1, <3>3
    <2> QED BY <2>2, <2>3
  <1>3. ASSUME NEW k \in Id, NEW new \in Id, CreateReplay(k, new), NEW i \in DOMAIN rows'
        PROVE  Paid(i)'
    <2>1. UNCHANGED <<attempts, inflight, faults>>
          BY <1>3 DEF CreateReplay
    <2>2. /\ DOMAIN rows' = DOMAIN rows \cup {new} /\ new \notin DOMAIN rows
          /\ \A j \in DOMAIN rows : rows'[j] = rows[j]
          /\ rows'[new] = NewRow(rows[k].event, rows[k].endpoint, rows[k].max, rows[k].obstacle, k)
          BY <1>3, ReplayAdds
    <2>3. rows'[new].count = 0
          BY ONLY <2>2 DEF NewRow
    <2>4. CASE i \in DOMAIN rows
      <3>1. Retries(i)' = Retries(i) /\ (HolderAlive(i)' <=> HolderAlive(i))
            BY <2>1, <2>2, <2>4 DEF Retries, HolderAlive
      <3> QED BY <1>0, <2>1, <2>2, <2>4, <3>1, PaidStays
    <2>5. CASE i \notin DOMAIN rows
          BY <1>1, <1>3, <2>1, <2>2, <2>3, <2>5
    <2> QED BY <2>4, <2>5
  <1>4. ASSUME NEW w \in Worker, NEW batch \in SUBSET DOMAIN rows, ClaimBatch(w, batch),
               NEW i \in DOMAIN rows
        PROVE  Paid(i)'
    <2>1. /\ attempts' = attempts /\ faults' = faults /\ DOMAIN rows' = DOMAIN rows
          /\ inflight \subseteq inflight'
          /\ rows'[i] = IF i \in batch THEN Claim(rows[i]) ELSE rows[i]
          BY <1>4 DEF ClaimBatch
    <2>2. Retries(i)' = Retries(i) /\ rows[i] \in Row
          BY <2>1, RetriesStay DEF TypeOK
    <2>3. CASE i \notin batch
      <3>1. HolderAlive(i) => HolderAlive(i)'
            BY <2>1, <2>3 DEF HolderAlive
      <3> QED BY <1>0, <2>1, <2>2, <2>3, <3>1, PaidStays
    <2>4. CASE i \in batch
      <3>1. /\ rows'[i].count = rows[i].count + 1 /\ rows[i].count \in Nat
            /\ rows'[i].status = "IN_PROGRESS" /\ rows'[i].lease = "held"
            BY <2>1, <2>2, <2>4, ClaimType
      <3>2. InHand(i)
            BY <1>4, <2>4 DEF ClaimBatch, Claimable, InHand
      <3>3. HolderAlive(i)'
        <4>1. [worker |-> w, id |-> i, number |-> Claim(rows[i]).count, result |-> "none"] \in inflight'
              BY <1>4, <2>4 DEF ClaimBatch
        <4>2. Claim(rows[i]).count = rows'[i].count
              BY <2>1, <2>4
        <4> QED BY <4>1, <4>2 DEF HolderAlive
      <3>4. Credit(i) = 1 /\ Credit(i)' = 0
            BY <3>1, <3>2, <3>3 DEF Credit, InHand
      <3>5. rows'[i].obstacle = rows[i].obstacle /\ rows'[i].max = rows[i].max
            BY <1>0 DEF Evolves
      <3>6. Cardinality(Retries(i)) \in Nat /\ faults \in Nat
            BY RetriesFinite DEF TypeOK
      <3> QED BY <1>0, <2>1, <2>2, <3>1, <3>4, <3>5, <3>6, PaidMoves
    <2> QED BY <2>3, <2>4
  <1>5. ASSUME NEW a \in inflight, NEW result \in Result, Send(a, result), NEW i \in DOMAIN rows
        PROVE  Paid(i)'
    <2>1. UNCHANGED <<rows, attempts, faults>>
          BY <1>5 DEF Send
    <2>2. HolderAlive(i) => HolderAlive(i)'
      <3> DEFINE b == [a EXCEPT !.result = result]
      <3>1. b.id = a.id /\ b.number = a.number /\ inflight' = (inflight \ {a}) \cup {b}
            BY <1>5 DEF Send, TypeOK, Attempt
      <3> HIDE DEF b
      <3> QED BY <2>1, <3>1 DEF HolderAlive
    <2> QED BY <1>0, <2>1, <2>2, RetriesStay, PaidStays
  <1> DEFINE Stored(a) ==
        /\ ~Rejected(a)
        /\ attempts' = attempts \cup {[id |-> a.id, number |-> a.number, result |-> a.result]}
        /\ rows' = [rows EXCEPT ![a.id] = Transition(@, NextStatus(a))]
  <1>6. ASSUME NEW a \in inflight, NEW i \in DOMAIN rows,
               DecryptFails(a) \/ (RecordAttemptAndTransition(a) /\ ~Stored(a))
        PROVE  Paid(i)'
    <2>1. /\ UNCHANGED <<rows, attempts, faults>> /\ inflight' = inflight \ {a}
          /\ rows[a.id].obstacle \in {"secret", "answer"}
          BY <1>6 DEF DecryptFails, RecordAttemptAndTransition, RecordNeverRejected, Refused
    <2>2. CASE i = a.id
          BY <2>1, <2>2 DEF Paid
    <2>3. CASE i # a.id
      <3>1. HolderAlive(i) => HolderAlive(i)'
            BY <2>1, <2>3 DEF HolderAlive
      <3> QED BY <1>0, <2>1, <3>1, RetriesStay, PaidStays
    <2> QED BY <2>2, <2>3
  <1>7. ASSUME NEW a \in inflight, RecordAttemptAndTransition(a), Stored(a), NEW i \in DOMAIN rows
        PROVE  Paid(i)'
    <2>1. /\ ~Rejected(a) /\ a.result # "none"
          /\ attempts' = attempts \cup {[id |-> a.id, number |-> a.number, result |-> a.result]}
          /\ rows' = [rows EXCEPT ![a.id] = Transition(@, NextStatus(a))]
          /\ inflight' = inflight \ {a} /\ faults' = faults
          BY <1>7 DEF RecordAttemptAndTransition, RecordNeverRejected
    <2>2. /\ Cardinality(Retries(i)') >= Cardinality(Retries(i))
          /\ i = a.id /\ a.result = "RETRYABLE_FAILURE" /\ a.number < rows[i].max
               => Cardinality(Retries(i)') = Cardinality(Retries(i)) + 1
          BY <2>1, RetriesRecorded
    <2>3. rows[i] \in Row /\ rows'[i].obstacle = rows[i].obstacle /\ rows'[i].max = rows[i].max
          BY <1>0 DEF TypeOK, Evolves
    <2>4. /\ Credit(i) \in {0, 1} /\ Credit(i)' \in {0, 1} /\ faults \in Nat
          /\ rows[i].count \in Nat /\ Cardinality(Retries(i)) \in Nat
          BY RetriesFinite DEF Credit, TypeOK, Row
    <2>5. rows'[i].count = rows[i].count
          BY <2>1, <2>3 DEF TypeOK, Transition, Row
    <2>6. \/ Credit(i)' <= Credit(i)
          \/ Cardinality(Retries(i)') = Cardinality(Retries(i)) + 1
      <3>1. CASE i # a.id
        <4>1. rows'[i] = rows[i]
              BY <2>1, <3>1 DEF TypeOK
        <4>2. HolderAlive(i) => HolderAlive(i)'
              BY <2>1, <3>1, <4>1 DEF HolderAlive
        <4>3. InHand(i)' => InHand(i)
              BY <4>1, <4>2 DEF InHand
        <4> QED BY <4>3 DEF Credit
      <3>2. CASE i = a.id /\ rows[i].status # "IN_PROGRESS"
        <4>1. rows'[i] = rows[i]
              BY <2>1, <3>2 DEF TypeOK, Transition
        <4>2. InHand(i)' => InHand(i)
              BY <3>2, <4>1 DEF InHand
        <4> QED BY <4>2 DEF Credit
      <3>3. CASE i = a.id /\ rows[i].status = "IN_PROGRESS"
        <4>1. rows'[i].status = NextStatus(a)
              BY <2>1, <2>3, <3>3 DEF TypeOK, Transition, Row
        <4>2. NextStatus(a) \in {"DELIVERED", "FAILED", "DLQ"} => ~InHand(i)'
              BY <4>1 DEF InHand
        <4>3. NextStatus(a) = "RETRYING" => a.result = "RETRYABLE_FAILURE" /\ a.number < rows[i].max
          <5>1. a.number \in Nat /\ rows[i].max \in Nat /\ a.result \in Result
                BY <2>1, <2>3, NextStatusType, DeliveriesAssumption DEF TypeOK, Attempt, Row
          <5> QED BY <3>3, <5>1 DEF NextStatus, Result
        <4>4. ~InHand(i)' => Credit(i)' <= Credit(i)
              BY <2>4 DEF Credit
        <4> QED BY <2>1, <2>2, <3>3, <4>2, <4>3, <4>4, NextStatusType
      <3> QED BY <3>1, <3>2, <3>3
    <2>7. Cardinality(Retries(i)') \in Nat
      <3>1. rows'[i].max \in Nat
            BY <2>3, DeliveriesAssumption DEF Row
      <3>2. rows'[i].max - 1 \in Int /\ Retries(i)' \in SUBSET (1..(rows'[i].max - 1))
            BY <3>1 DEF Retries
      <3> QED BY ONLY <3>2, UpTo
    <2>8. rows'[i].count + Credit(i)' <= rows[i].count + Credit(i)
             + (Cardinality(Retries(i)') - Cardinality(Retries(i))) + (faults' - faults)
          BY ONLY <2>1, <2>2, <2>4, <2>5, <2>6, <2>7
    <2> QED BY <1>0, <2>1, <2>2, <2>3, <2>4, <2>8, PaidMoves
  <1>8. ASSUME NEW k \in Id, BecomeDue(k) \/ LeaseExpires(k) \/ LeaseOverrun(k), NEW i \in DOMAIN rows
        PROVE  Paid(i)'
    <2>1. /\ UNCHANGED <<attempts, inflight>> /\ faults' \in {faults, faults + 1}
          /\ i # k => rows'[i] = rows[i]
          /\ rows'[i].count = rows[i].count
          BY <1>8 DEF BecomeDue, LeaseExpires, LeaseOverrun, TypeOK, Row
    <2>2. HolderAlive(i)' <=> HolderAlive(i)
          BY <2>1 DEF HolderAlive
    <2>3. InHand(i)' => InHand(i) \/ faults' = faults + 1
      <3>1. CASE i # k
            BY <2>1, <2>2, <3>1 DEF InHand
      <3>2. CASE i = k /\ BecomeDue(k)
            BY <2>2, <3>2 DEF InHand, BecomeDue, TypeOK, Row
      <3>3. CASE i = k /\ LeaseExpires(k)
            BY <2>2, <3>3 DEF InHand, LeaseExpires, TypeOK, Row, NeverStranded
      <3>4. CASE LeaseOverrun(k)
            BY <3>4 DEF LeaseOverrun
      <3> QED BY <1>8, <3>1, <3>2, <3>3, <3>4
    <2>4. /\ Credit(i) \in {0, 1} /\ Credit(i)' \in {0, 1} /\ faults \in Nat
          /\ rows[i].count \in Nat /\ Cardinality(Retries(i)) \in Nat
          /\ Retries(i)' = Retries(i)
          BY <2>1, RetriesFinite, RetriesStay DEF Credit, TypeOK, Row
    <2>5. Credit(i)' <= Credit(i) + (faults' - faults)
          BY <2>1, <2>3, <2>4 DEF Credit
    <2>6. rows'[i].obstacle = rows[i].obstacle /\ rows'[i].max = rows[i].max
          BY <1>0 DEF Evolves
    <2> QED BY <1>0, <2>1, <2>4, <2>5, <2>6, PaidMoves
  <1>9. ASSUME NEW i \in DOMAIN rows, UNCHANGED <<rows, attempts>>, faults' = faults + 1 PROVE Paid(i)'
        BY <1>0, <1>9, RetriesStay, PaidStays
  <1>10. ASSUME NEW i \in DOMAIN rows, UNCHANGED <<rows, attempts, inflight, faults>> PROVE Paid(i)'
    <2>1. HolderAlive(i)' <=> HolderAlive(i)
          BY <1>10 DEF HolderAlive
    <2> QED BY <1>0, <1>10, <2>1, RetriesStay, PaidStays
  <1>11. ASSUME NEW i \in DOMAIN rows, (\E k \in Id : ReplayGet(k)) \/ UNCHANGED vars PROVE Paid(i)'
         BY <1>10, <1>11 DEF ReplayGet, vars
  <1>12. ASSUME NEW i \in DOMAIN rows, (\E a \in inflight : LoseAttempt(a)) \/ (\E w \in Worker : Crash(w))
         PROVE  Paid(i)'
         BY <1>9, <1>12 DEF LoseAttempt, Crash
  <1>13. ASSUME ~\E event \in Event, eps \in SUBSET Endpoint :
                  \E snap \in [eps -> [max : Policies, obstacle : Obstacles]] :
                    CreateDeliveries(event, eps, snap),
                ~\E k \in Id, new \in Id : CreateReplay(k, new)
         PROVE  DOMAIN rows' = DOMAIN rows
         BY <1>13 DEF Next, vars, TypeOK, ReplayGet, ClaimBatch, Send, DecryptFails,
                RecordAttemptAndTransition, BecomeDue, LeaseExpires, LeaseOverrun, LoseAttempt, Crash
  <1> QED BY <1>2, <1>3, <1>4, <1>5, <1>6, <1>7, <1>8, <1>11, <1>12, <1>13 DEF Next

\* A delivery whose secret decrypts and whose customer's answers can be stored is
\* claimed at most MaxAttempts times, and once more for each fault, with any
\* number of workers.
THEOREM Budget == Spec => []ClaimsPaidFor
  <1> DEFINE PaidInv == \A i \in DOMAIN rows : Paid(i)
  <1>1. Init => PaidInv
        BY DEF Init
  <1>2. TypeOK /\ NeverStranded /\ AttemptLedger /\ RecordNeverRejected /\ PaidInv /\ [Next]_vars => PaidInv'
        BY PaidStep
  <1>3. TypeOK /\ PaidInv => ClaimsPaidFor
    <2> SUFFICES ASSUME TypeOK, PaidInv, NEW i \in DOMAIN rows, rows[i].obstacle = "none"
                 PROVE  rows[i].count <= rows[i].max + faults
        BY DEF ClaimsPaidFor
    <2>1. /\ rows[i].count \in Nat /\ rows[i].max \in Nat /\ faults \in Nat /\ Credit(i) \in Nat
          /\ Cardinality(Retries(i)) \in Nat /\ Cardinality(Retries(i)) <= rows[i].max - 1
          BY RetriesFinite, DeliveriesAssumption DEF TypeOK, Row, Credit
    <2>2. rows[i].count + Credit(i) <= 1 + Cardinality(Retries(i)) + faults
          BY DEF Paid
    <2> QED BY ONLY <2>1, <2>2
  <1> HIDE DEF PaidInv
  <1> QED BY <1>1, <1>2, <1>3, Typing, Stranded, Ledger, Recordable, PTL DEF Spec

===============================================================================
