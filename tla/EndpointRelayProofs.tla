-------------------------- MODULE EndpointRelayProofs --------------------------
(***************************************************************************)
(* Theorems about EndpointRelay, for any number of rows, replicas and      *)
(* faults and any size of a batch.                                         *)
(***************************************************************************)
EXTENDS EndpointRelay, FiniteSetTheorems, TLAPS

-----------------------------------------------------------------------------
(* Types.                                                                   *)

\* A row after an UPDATE by a relay is a row, and a published one is unlocked.
LEMMA UpdatedRow ==
  ASSUME NEW row \in Row, row.published => row.lock = "none"
  PROVE  /\ Marked(row) \in Row /\ Released(row) \in Row
         /\ Marked(row).published => Marked(row).lock = "none"
         /\ Released(row).published => Released(row).lock = "none"
         /\ row.published => Marked(row) = row /\ Released(row) = row
         /\ Released(row).published = row.published
  BY DEF Row, Marked, Released

\* What a step that changes one row needs to show.
LEMMA RowChanged ==
  ASSUME TypeOK, NEW i \in DOMAIN outbox, NEW row \in Row,
         row.published => row.lock = "none",
         outbox' = [outbox EXCEPT ![i] = row]
  PROVE  /\ DOMAIN outbox' = DOMAIN outbox /\ outbox' \in [DOMAIN outbox -> Row]
         /\ outbox'[i] = row
         /\ \A j \in DOMAIN outbox \ {i} : outbox'[j] = outbox[j]
         /\ \A j \in DOMAIN outbox : outbox'[j].published => outbox'[j].lock = "none"
  BY DEF TypeOK

\* A step of a flush concerns a row of the table.
LEMMA AtRow ==
  ASSUME TypeOK, NEW r \in Relay, NEW i, NEW stage, At(r, i, stage)
  PROVE  /\ i \in DOMAIN outbox /\ i \in Id /\ outbox[i] \in Row
         /\ outbox[i].published => outbox[i].lock = "none"
         /\ flush[r] \in Flush /\ flush[r].todo \subseteq DOMAIN outbox
  BY DEF TypeOK, At

\* Going on with a batch, or with its next row, keeps the flush calls well formed.
LEMMA FlushMoves ==
  ASSUME TypeOK, NEW r \in Relay, NEW i,
         (\E stage \in {"publish", "mark", "release"} : Goto(r, stage)) \/ Leave(r, i)
  PROVE  /\ flush' \in [Relay -> Flush]
         /\ \A q \in Relay : flush'[q].todo \subseteq flush[q].todo
  <1>1. ASSUME NEW stage \in {"publish", "mark", "release"}, Goto(r, stage)
        PROVE  /\ flush' \in [Relay -> Flush]
               /\ \A q \in Relay : flush'[q].todo \subseteq flush[q].todo
        BY <1>1 DEF TypeOK, Goto, Flush
  <1>2. ASSUME Leave(r, i)
        PROVE  /\ flush' \in [Relay -> Flush]
               /\ \A q \in Relay : flush'[q].todo \subseteq flush[q].todo
        BY <1>2 DEF TypeOK, Leave, Flush
  <1> QED BY <1>1, <1>2

LEMMA TypeStep == TypeOK /\ [Next]_vars => TypeOK'
  <1> SUFFICES ASSUME TypeOK, [Next]_vars PROVE TypeOK'
      OBVIOUS
  <1>1. ASSUME NEW i \in Id, Enqueue(i) PROVE TypeOK'
    <2>1. NewRow \in Row /\ ~NewRow.published
          BY DEF NewRow, Row
    <2> QED BY <1>1, <2>1 DEF TypeOK, Enqueue
  <1>2. ASSUME NEW r \in Relay, NEW batch \in SUBSET DOMAIN outbox, Claim(r, batch) PROVE TypeOK'
    <2>1. \A i \in batch : i \in DOMAIN outbox /\ ~outbox[i].published
          BY <1>2 DEF Claim, FirstOf, Claimable
    <2>2. [todo |-> batch, stage |-> "publish"] \in Flush
          BY DEF TypeOK, Flush
    <2>3. /\ DOMAIN outbox' = DOMAIN outbox /\ outbox' \in [DOMAIN outbox -> Row]
          /\ \A i \in DOMAIN outbox : outbox'[i].published => outbox'[i].lock = "none"
          BY <1>2, <2>1 DEF TypeOK, Claim, Row
    <2>4. /\ flush' \in [Relay -> Flush]
          /\ \A q \in Relay : flush'[q].todo \subseteq DOMAIN outbox
          BY <1>2, <2>2 DEF TypeOK, Claim
    <2> QED BY <1>2, <2>3, <2>4 DEF TypeOK, Claim
  <1>3. ASSUME NEW r \in Relay, NEW i \in Id, NEW n \in {0, 1}, Write(i, n), UNCHANGED outbox,
               flush' \in [Relay -> Flush], \A q \in Relay : flush'[q].todo \subseteq flush[q].todo,
               faults' \in {faults, faults + 1}
        PROVE  TypeOK'
        BY <1>3 DEF TypeOK, Write
  <1>4. ASSUME NEW r \in Relay, NEW i \in Id,
               Publish(r, i) \/ PublishRetried(r, i) \/ PublishFails(r, i)
        PROVE  TypeOK'
    <2>1. flush' \in [Relay -> Flush] /\ \A q \in Relay : flush'[q].todo \subseteq flush[q].todo
          BY <1>4, FlushMoves DEF Publish, PublishRetried, PublishFails, TypeOK
    <2> QED BY <1>3, <1>4, <2>1 DEF Publish, PublishRetried, PublishFails, Fault
  <1>5. ASSUME NEW r \in Relay, NEW i \in Id,
               MarkPublished(r, i) \/ Release(r, i) \/ UpdateFails(r, i)
        PROVE  TypeOK'
    <2>1. flush' \in [Relay -> Flush] /\ \A q \in Relay : flush'[q].todo \subseteq flush[q].todo
          BY <1>5, FlushMoves DEF MarkPublished, Release, UpdateFails
    <2>2. PICK stage : At(r, i, stage)
          BY <1>5 DEF MarkPublished, Release, UpdateFails
    <2>3. i \in DOMAIN outbox /\ outbox[i] \in Row /\ (outbox[i].published => outbox[i].lock = "none")
          BY <2>2, AtRow
    <2>4. outbox' \in {outbox, [outbox EXCEPT ![i] = Marked(outbox[i])],
                       [outbox EXCEPT ![i] = Released(outbox[i])]}
          BY <1>5 DEF MarkPublished, Release, UpdateFails
    <2>5. /\ DOMAIN outbox' = DOMAIN outbox /\ outbox' \in [DOMAIN outbox -> Row]
          /\ \A j \in DOMAIN outbox : outbox'[j].published => outbox'[j].lock = "none"
      <3>1. CASE outbox' = outbox
            BY <3>1 DEF TypeOK
      <3>2. CASE outbox' = [outbox EXCEPT ![i] = Marked(outbox[i])]
            BY <2>3, <3>2, UpdatedRow, RowChanged
      <3>3. CASE outbox' = [outbox EXCEPT ![i] = Released(outbox[i])]
            BY <2>3, <3>3, UpdatedRow, RowChanged
      <3> QED BY <2>4, <3>1, <3>2, <3>3
    <2>6. copies' = copies /\ faults' \in {faults, faults + 1}
          BY <1>5 DEF MarkPublished, Release, UpdateFails, Fault
    <2> QED BY <2>1, <2>5, <2>6 DEF TypeOK
  <1>6. ASSUME NEW r \in Relay, Crash(r) PROVE TypeOK'
    <2>1. Idle \in Flush /\ Idle.todo = {}
          BY DEF Idle, Flush
    <2> QED BY <1>6, <2>1 DEF TypeOK, Crash, Fault
  <1>7. ASSUME NEW i \in Id, DelayPasses(i) PROVE TypeOK'
        BY <1>7 DEF TypeOK, DelayPasses, Row
  <1>8. ASSUME NEW i \in Id, LeaseExpires(i) \/ LeaseOverrun(i) PROVE TypeOK'
        BY <1>8 DEF TypeOK, LeaseExpires, LeaseOverrun, ExpireLease, Fault, Row
  <1>9. CASE UNCHANGED vars
        BY <1>9 DEF TypeOK, vars
  <1> QED BY <1>1, <1>2, <1>4, <1>5, <1>6, <1>7, <1>8, <1>9 DEF Next

\* The table and the flush calls are well formed, and published rows unlocked, in
\* every reachable state.
THEOREM RelayTyping == Spec => []TypeOK
  <1>1. Init => TypeOK
        BY DEF Init, TypeOK, Idle, Flush
  <1> QED BY <1>1, TypeStep, PTL DEF Spec

-----------------------------------------------------------------------------
(* CopiesNeedFaults.  A row is written by the relays that have it in their   *)
(* batch and have not written it yet, and by one more if it may be claimed   *)
(* now or after its lease: copies made and copies to come are at most one    *)
(* and the faults.                                                           *)

\* Relays that have yet to write row i, or failed to.
Pending(i) == {r \in Relay : i \in flush[r].todo /\ ~At(r, i, "mark")}

\* Row i can be claimed without another fault.
Open(i) ==
  /\ i \in DOMAIN outbox /\ ~outbox[i].published
  /\ outbox[i].lock # "held" \/ ~InHand(i)

Credit(i) == IF Open(i) THEN 1 ELSE 0

Spent(i) == copies[i] + Cardinality(Pending(i)) + Credit(i)

CopyInv ==
  /\ \A i \in Id \ DOMAIN outbox : copies[i] = 0
  /\ \A i \in Id : Spent(i) <= 1 + faults

LEMMA PendingFinite ==
  ASSUME NEW i
  PROVE  IsFiniteSet(Pending(i)) /\ Cardinality(Pending(i)) \in Nat
  <1>1. Pending(i) \in SUBSET Relay /\ IsFiniteSet(Relay)
        BY RelayAssumption DEF Pending
  <1> QED BY <1>1, FS_Subset, FS_CardinalityType

\* How many are pending when one relay has gone, or come.
LEMMA PendingCount ==
  ASSUME NEW i, NEW r
  PROVE  /\ Cardinality(Pending(i) \ {r}) =
              IF r \in Pending(i) THEN Cardinality(Pending(i)) - 1 ELSE Cardinality(Pending(i))
         /\ Cardinality(Pending(i) \cup {r}) =
              IF r \in Pending(i) THEN Cardinality(Pending(i)) ELSE Cardinality(Pending(i)) + 1
  BY PendingFinite, FS_AddElement, FS_RemoveElement

\* A relay is at one row.
LEMMA AtOne ==
  ASSUME TypeOK, NEW r \in Relay, NEW i, NEW j, NEW s, NEW t, At(r, i, s), At(r, j, t)
  PROVE  i = j /\ s = t
  <1>1. i \in Nat /\ j \in Nat
        BY AtRow, RelayAssumption
  <1>2. i <= j /\ j <= i /\ s = t
        BY DEF At
  <1> QED BY <1>1, <1>2

\* A relay that leaves row i was the only one whose debt changes.
LEMMA Left ==
  ASSUME TypeOK, NEW r \in Relay, NEW i, NEW stage, At(r, i, stage), Leave(r, i), NEW j
  PROVE  /\ j = i => Pending(j)' = Pending(j) \ {r}
         /\ j # i => Pending(j)' = Pending(j) /\ (InHand(j)' <=> InHand(j))
  <1>1. /\ flush'[r].todo = flush[r].todo \ {i} /\ flush'[r].stage = "publish"
        /\ \A q \in Relay \ {r} : flush'[q] = flush[q]
        BY DEF TypeOK, Leave
  <1>2. \A q \in Relay \ {r} : q \in Pending(j)' <=> q \in Pending(j)
        BY <1>1 DEF Pending, At
  <1>3. r \notin Pending(i)'
        BY <1>1 DEF Pending
  <1>4. ASSUME j # i PROVE r \in Pending(j)' <=> r \in Pending(j)
    <2>1. ~At(r, j, "mark")
          BY <1>4, AtOne
    <2> QED BY <1>1, <1>4, <2>1 DEF Pending, At
  <1>5. j # i => (InHand(j)' <=> InHand(j))
        BY <1>1 DEF InHand
  <1>6. Pending(j) \subseteq Relay /\ Pending(j)' \subseteq Relay
        BY DEF Pending
  <1> QED BY <1>2, <1>3, <1>4, <1>5, <1>6

\* A relay that goes on with its row has written it, or still owes it.
LEMMA Gone ==
  ASSUME TypeOK, NEW r \in Relay, NEW i, At(r, i, "publish"),
         NEW stage \in {"mark", "release"}, Goto(r, stage), NEW j
  PROVE  /\ InHand(j)' <=> InHand(j)
         /\ Pending(j)' = IF j = i /\ stage = "mark" THEN Pending(j) \ {r} ELSE Pending(j)
         /\ r \in Pending(i)
  <1>1. /\ flush'[r].todo = flush[r].todo /\ flush'[r].stage = stage
        /\ \A q \in Relay \ {r} : flush'[q] = flush[q]
        BY DEF TypeOK, Goto
  <1>2. \A q \in Relay \ {r} : q \in Pending(j)' <=> q \in Pending(j)
        BY <1>1 DEF Pending, At
  <1>3. r \in Pending(i) /\ i \in flush[r].todo /\ flush[r].stage = "publish"
        BY DEF Pending, At
  <1>4. r \in Pending(j) <=> j \in flush[r].todo
        BY <1>3 DEF Pending, At
  <1>5. r \in Pending(j)' <=> j \in flush[r].todo /\ ~(j = i /\ stage = "mark")
    <2>1. At(r, j, "mark")' <=> j \in flush[r].todo /\ (\A k \in flush[r].todo : j <= k) /\ stage = "mark"
          BY <1>1 DEF At
    <2>2. (j \in flush[r].todo /\ \A k \in flush[r].todo : j <= k) <=> At(r, j, "publish")
          BY <1>3 DEF At
    <2>3. At(r, j, "publish") <=> j = i
          BY AtOne
    <2> QED BY <1>1, <2>1, <2>2, <2>3 DEF Pending
  <1>6. InHand(j)' <=> InHand(j)
        BY <1>1 DEF InHand
  <1>7. Pending(j) \subseteq Relay /\ Pending(j)' \subseteq Relay
        BY DEF Pending
  <1> QED BY <1>2, <1>3, <1>4, <1>5, <1>6, <1>7

\* A step that leaves what row j owes as it was.
LEMMA SpentStays ==
  ASSUME TypeOK, NEW j \in Id, Spent(j) <= 1 + faults,
         copies'[j] = copies[j], Pending(j)' = Pending(j), Credit(j)' <= Credit(j) + (faults' - faults),
         faults' \in {faults, faults + 1}
  PROVE  Spent(j)' <= 1 + faults'
  <1>1. /\ copies[j] \in Nat /\ faults \in Nat /\ Cardinality(Pending(j)) \in Nat
        /\ Credit(j) \in Nat /\ Credit(j)' \in Nat
        BY PendingFinite DEF TypeOK, Credit
  <1> QED BY <1>1 DEF Spent

\* A relay leaves row i: it may be claimed again if it was not published.
LEMMA SpentLeaving ==
  ASSUME TypeOK, NEW r \in Relay, NEW i \in Id, NEW j \in Id, NEW stage, At(r, i, stage), Leave(r, i),
         Spent(j) <= 1 + faults, UNCHANGED copies, faults' \in {faults, faults + 1},
         DOMAIN outbox' = DOMAIN outbox, \A k \in DOMAIN outbox \ {i} : outbox'[k] = outbox[k],
         r \in Pending(i) \/ faults' = faults + 1 \/ Credit(i)' <= Credit(i)
  PROVE  Spent(j)' <= 1 + faults'
  <1>1. CASE j # i
    <2>1. Pending(j)' = Pending(j) /\ (InHand(j)' <=> InHand(j))
          BY <1>1, Left
    <2>2. Credit(j)' = Credit(j)
          BY <1>1, <2>1 DEF Credit, Open
    <2> QED BY <2>1, <2>2, SpentStays DEF TypeOK, Credit
  <1>2. CASE j = i
    <2>1. Pending(i)' = Pending(i) \ {r}
          BY Left
    <2>2. Credit(i) \in {0, 1} /\ Credit(i)' \in {0, 1}
          BY DEF Credit
    <2>3. CASE r \in Pending(i)
      <3>1. Cardinality(Pending(i)') = Cardinality(Pending(i)) - 1 /\ Cardinality(Pending(i)) \in Nat
            BY <2>1, <2>3, PendingCount, PendingFinite
      <3> QED BY <1>2, <2>2, <3>1 DEF TypeOK, Spent
    <2>4. CASE r \notin Pending(i)
      <3>1. Pending(i)' = Pending(i)
            BY <2>1, <2>4
      <3>2. Credit(i)' <= Credit(i) + (faults' - faults)
            BY <2>2, <2>4 DEF TypeOK
      <3> QED BY <1>2, <3>1, <3>2, SpentStays
    <2> QED BY <2>3, <2>4
  <1> QED BY <1>1, <1>2

\* No step but Enqueue and the relays' writes touches rows that are not there.
LEMMA NotThere ==
  ASSUME TypeOK, CopyInv, [Next]_vars
  PROVE  \A i \in Id \ DOMAIN outbox' : copies'[i] = 0
  <1>1. DOMAIN outbox \subseteq DOMAIN outbox'
        BY DEF Next, vars, TypeOK, Enqueue, Claim, Publish, PublishRetried, PublishFails, MarkPublished,
               Release, UpdateFails, Crash, DelayPasses, LeaseExpires, LeaseOverrun, ExpireLease
  <1>2. ASSUME NEW i \in Id \ DOMAIN outbox PROVE copies'[i] = 0
    <2>1. copies[i] = 0
          BY <1>2 DEF CopyInv
    <2>2. ASSUME NEW r \in Relay, NEW k \in Id,
                 Publish(r, k) \/ PublishRetried(r, k) \/ PublishFails(r, k)
          PROVE  copies'[i] = 0
      <3>1. k \in DOMAIN outbox
            BY <2>2, AtRow DEF Publish, PublishRetried, PublishFails
      <3> QED BY <1>2, <2>1, <2>2, <3>1 DEF TypeOK, Publish, PublishRetried, PublishFails, Write
    <2>3. CASE UNCHANGED copies
          BY <2>1, <2>3
    <2>4. UNCHANGED copies \/ \E r \in Relay, k \in Id : Publish(r, k) \/ PublishRetried(r, k) \/ PublishFails(r, k)
          BY DEF Next, vars, Enqueue, Claim, MarkPublished, Release, UpdateFails, Crash, DelayPasses,
                 LeaseExpires, LeaseOverrun, ExpireLease
    <2> QED BY <2>2, <2>3, <2>4
  <1> QED BY <1>1, <1>2

LEMMA CopyStep == TypeOK /\ CopyInv /\ [Next]_vars => CopyInv'
  <1> SUFFICES ASSUME TypeOK, CopyInv, [Next]_vars, NEW j \in Id
               PROVE  Spent(j)' <= 1 + faults'
      BY NotThere DEF CopyInv
  <1>0. /\ Spent(j) <= 1 + faults /\ copies[j] \in Nat /\ faults \in Nat
        /\ Credit(j) \in {0, 1} /\ Credit(j)' \in {0, 1}
        /\ Cardinality(Pending(j)) \in Nat /\ IsFiniteSet(Pending(j))
        BY PendingFinite DEF CopyInv, TypeOK, Credit
  <1>1. ASSUME NEW i \in Id, Enqueue(i) PROVE Spent(j)' <= 1 + faults'
    <2>1. Pending(j)' = Pending(j) /\ copies' = copies /\ faults' = faults
          BY <1>1 DEF Enqueue, Pending, At
    <2>2. CASE j = i
      <3>1. copies[j] = 0 /\ Pending(j) = {}
            BY <1>1, <2>2 DEF Enqueue, CopyInv, Pending, TypeOK
      <3>2. Spent(j)' = 0 + 0 + Credit(j)'
            BY <2>1, <3>1, FS_EmptySet DEF Spent
      <3> QED BY <1>0, <2>1, <3>2
    <2>3. CASE j # i
      <3>1. Credit(j)' = Credit(j)
            BY <1>1, <2>3 DEF Enqueue, Credit, Open, InHand
      <3> QED BY <1>0, <2>1, <3>1, SpentStays
    <2> QED BY <2>2, <2>3
  <1>2. ASSUME NEW r \in Relay, NEW batch \in SUBSET DOMAIN outbox, Claim(r, batch)
        PROVE  Spent(j)' <= 1 + faults'
    <2>1. /\ flush[r].todo = {} /\ flush'[r].todo = batch /\ flush'[r].stage = "publish"
          /\ \A q \in Relay \ {r} : flush'[q] = flush[q]
          /\ copies' = copies /\ faults' = faults
          BY <1>2 DEF Claim, TypeOK
    <2>2. CASE j \in batch
      <3>1. Open(j) /\ ~Open(j)'
        <4>1. j \in DOMAIN outbox /\ ~outbox[j].published /\ outbox[j].lock # "held"
              BY <1>2, <2>2 DEF Claim, FirstOf, Claimable
        <4>2. outbox'[j].lock = "held"
              BY <1>2, <2>2, <4>1 DEF Claim, TypeOK, Row
        <4>3. InHand(j)'
              BY <2>1, <2>2 DEF InHand
        <4> QED BY <4>1, <4>2, <4>3 DEF Open
      <3>2. Pending(j)' = Pending(j) \cup {r} /\ r \notin Pending(j)
        <4>1. \A q \in Relay \ {r} : q \in Pending(j)' <=> q \in Pending(j)
              BY <2>1 DEF Pending, At
        <4>2. r \notin Pending(j) /\ r \in Pending(j)'
              BY <2>1, <2>2 DEF Pending, At
        <4> QED BY <4>1, <4>2 DEF Pending
      <3>3. Cardinality(Pending(j)') = Cardinality(Pending(j)) + 1
            BY <3>2, PendingCount
      <3>4. Spent(j)' = Spent(j)
            BY <1>0, <2>1, <3>1, <3>3 DEF Spent, Credit
      <3> QED BY <1>0, <2>1, <3>4
    <2>3. CASE j \notin batch
      <3>1. Pending(j)' = Pending(j) /\ (InHand(j)' <=> InHand(j))
        <4>1. \A q \in Relay \ {r} : q \in Pending(j)' <=> q \in Pending(j)
              BY <2>1 DEF Pending, At
        <4>2. r \notin Pending(j) /\ r \notin Pending(j)'
              BY <2>1, <2>3 DEF Pending
        <4>3. InHand(j)' <=> InHand(j)
              BY <2>1, <2>3 DEF InHand
        <4> QED BY <4>1, <4>2, <4>3 DEF Pending
      <3>2. Credit(j)' = Credit(j)
            BY <1>2, <2>3, <3>1 DEF Claim, Credit, Open
      <3> QED BY <1>0, <2>1, <3>1, <3>2, SpentStays
    <2> QED BY <2>2, <2>3
  <1>3. ASSUME NEW r \in Relay, NEW i \in Id, NEW made \in {0, 1}, NEW stage \in {"mark", "release"},
               At(r, i, "publish"), Goto(r, stage), Write(i, made), UNCHANGED outbox,
               \/ stage = "mark" /\ faults' = faults
               \/ stage = "release" /\ faults' = faults + 1
        PROVE  Spent(j)' <= 1 + faults'
    <2>1. /\ InHand(j)' <=> InHand(j)
          /\ Pending(j)' = IF j = i /\ stage = "mark" THEN Pending(j) \ {r} ELSE Pending(j)
          /\ r \in Pending(i)
          BY <1>3, Gone
    <2>2. Credit(j)' = Credit(j)
          BY <1>3, <2>1 DEF Credit, Open
    <2>3. copies'[j] = IF j = i THEN copies[j] + made ELSE copies[j]
          BY <1>3 DEF Write, TypeOK
    <2>4. Cardinality(Pending(j)') =
            IF j = i /\ stage = "mark" THEN Cardinality(Pending(j)) - 1 ELSE Cardinality(Pending(j))
          BY <2>1, PendingCount
    <2> QED BY <1>0, <1>3, <2>2, <2>3, <2>4 DEF Spent
  <1>4. ASSUME NEW r \in Relay, NEW i \in Id, Publish(r, i) \/ PublishFails(r, i)
        PROVE  Spent(j)' <= 1 + faults'
    <2>1. CASE Publish(r, i)
          BY <1>3, <2>1 DEF Publish
    <2>2. CASE PublishFails(r, i)
          BY <1>3, <2>2 DEF PublishFails, Fault
    <2> QED BY <1>4, <2>1, <2>2
  <1>5. ASSUME NEW r \in Relay, NEW i \in Id, PublishRetried(r, i) PROVE Spent(j)' <= 1 + faults'
    <2>1. Pending(j)' = Pending(j) /\ Credit(j)' = Credit(j) /\ faults' = faults + 1
          BY <1>5 DEF PublishRetried, Fault, Pending, At, Credit, Open, InHand
    <2>2. copies'[j] \in {copies[j], copies[j] + 1}
          BY <1>0, <1>5 DEF PublishRetried, Write, TypeOK
    <2> QED BY <1>0, <2>1, <2>2 DEF Spent
  <1>6. ASSUME NEW r \in Relay, NEW i \in Id, MarkPublished(r, i) \/ Release(r, i) \/ UpdateFails(r, i)
        PROVE  Spent(j)' <= 1 + faults'
    <2>1. PICK stage : At(r, i, stage) /\ stage \in {"mark", "release"}
          BY <1>6 DEF MarkPublished, Release, UpdateFails
    <2>2. Leave(r, i) /\ copies' = copies /\ faults' \in {faults, faults + 1}
          BY <1>6 DEF MarkPublished, Release, UpdateFails, Fault
    <2>3. /\ i \in DOMAIN outbox /\ outbox[i] \in Row
          /\ DOMAIN outbox' = DOMAIN outbox /\ \A k \in DOMAIN outbox \ {i} : outbox'[k] = outbox[k]
          BY <1>6, <2>1, AtRow DEF MarkPublished, Release, UpdateFails, TypeOK
    <2>4. r \in Pending(i) \/ faults' = faults + 1 \/ Credit(i)' <= Credit(i)
      <3>1. CASE MarkPublished(r, i)
        <4>1. outbox'[i] = Marked(outbox[i])
              BY <2>3, <3>1 DEF MarkPublished
        <4>2. Open(i)' => Open(i)
              BY <2>3, <4>1 DEF Open, Marked, Row
        <4> QED BY <4>2 DEF Credit
      <3>2. CASE Release(r, i)
            BY <3>2 DEF Release, Pending, At
      <3>3. CASE UpdateFails(r, i)
            BY <3>3 DEF UpdateFails, Fault
      <3> QED BY <1>6, <3>1, <3>2, <3>3
    <2> QED BY <1>0, <2>1, <2>2, <2>3, <2>4, SpentLeaving
  <1>7. ASSUME NEW r \in Relay, Crash(r) PROVE Spent(j)' <= 1 + faults'
    <2>1. /\ flush'[r].todo = {} /\ \A q \in Relay \ {r} : flush'[q] = flush[q]
          /\ copies' = copies /\ faults' = faults + 1
          BY <1>7 DEF Crash, Fault, Idle, TypeOK
    <2>2. Pending(j)' = Pending(j) \ {r}
      <3>1. \A q \in Relay \ {r} : q \in Pending(j)' <=> q \in Pending(j)
            BY <2>1 DEF Pending, At
      <3>2. r \notin Pending(j)'
            BY <2>1 DEF Pending
      <3> QED BY <3>1, <3>2 DEF Pending
    <2>3. Cardinality(Pending(j)') <= Cardinality(Pending(j)) /\ Cardinality(Pending(j)') \in Nat
          BY <1>0, <2>2, FS_Subset, FS_CardinalityType
    <2>4. CASE r \in Pending(j)
      <3>1. Cardinality(Pending(j)') = Cardinality(Pending(j)) - 1
            BY <2>2, <2>4, PendingCount
      <3> QED BY <1>0, <2>1, <3>1 DEF Spent
    <2>5. CASE r \notin Pending(j)
      <3>1. Pending(j)' = Pending(j)
            BY <2>2, <2>5
      <3> QED BY <1>0, <2>1, <3>1, SpentStays
    <2> QED BY <2>4, <2>5
  <1>8. ASSUME NEW i \in Id, DelayPasses(i) \/ LeaseExpires(i) \/ LeaseOverrun(i)
        PROVE  Spent(j)' <= 1 + faults'
    <2>1. flush' = flush /\ copies' = copies /\ faults' \in {faults, faults + 1}
          BY <1>8 DEF DelayPasses, LeaseExpires, LeaseOverrun, ExpireLease, Fault
    <2>2. Pending(j)' = Pending(j) /\ (InHand(j)' <=> InHand(j))
          BY <2>1 DEF Pending, At, InHand
    <2>3. CASE DelayPasses(i)
      <3>1. Open(j)' <=> Open(j)
            BY <2>2, <2>3 DEF DelayPasses, Open, TypeOK, Row
      <3>2. Credit(j)' = Credit(j)
            BY <3>1 DEF Credit
      <3> QED BY <1>0, <2>1, <2>2, <3>2, SpentStays
    <2>4. CASE LeaseExpires(i)
      <3>1. Open(j)' <=> Open(j)
            BY <2>2, <2>4 DEF LeaseExpires, ExpireLease, Open, TypeOK, Row
      <3>2. Credit(j)' = Credit(j)
            BY <3>1 DEF Credit
      <3> QED BY <1>0, <2>1, <2>2, <3>2, SpentStays
    <2>5. CASE LeaseOverrun(i)
      <3>1. faults' = faults + 1
            BY <2>5 DEF LeaseOverrun, Fault
      <3> QED BY <1>0, <2>1, <2>2, <3>1, SpentStays
    <2> QED BY <1>8, <2>3, <2>4, <2>5
  <1>9. CASE UNCHANGED vars
    <2>1. Pending(j)' = Pending(j) /\ Credit(j)' = Credit(j) /\ copies' = copies /\ faults' = faults
          BY <1>9 DEF vars, Pending, At, Credit, Open, InHand
    <2> QED BY <1>0, <2>1, SpentStays
  <1> QED BY <1>1, <1>2, <1>4, <1>5, <1>6, <1>7, <1>8, <1>9 DEF Next

\* Every copy of a row beyond the first is paid for by a failed call, an overrun
\* lease or a crash, with any number of replicas and of rows.
THEOREM RelayCopies == Spec => []CopiesNeedFaults
  <1>1. Init => CopyInv
    <2> SUFFICES ASSUME Init, NEW i \in Id PROVE copies[i] = 0 /\ Spent(i) <= 1 + faults
        BY DEF CopyInv
    <2>1. copies[i] = 0 /\ faults = 0 /\ Pending(i) = {} /\ Credit(i) = 0
          BY DEF Init, Pending, Idle, Credit, Open
    <2> QED BY <2>1, FS_EmptySet DEF Spent
  <1>2. TypeOK /\ CopyInv => CopiesNeedFaults
    <2> SUFFICES ASSUME TypeOK, CopyInv, NEW i \in Id PROVE copies[i] <= 1 + faults
        BY DEF CopiesNeedFaults
    <2>1. /\ copies[i] \in Nat /\ faults \in Nat /\ Cardinality(Pending(i)) \in Nat /\ Credit(i) \in Nat
          /\ copies[i] + Cardinality(Pending(i)) + Credit(i) <= 1 + faults
          BY PendingFinite DEF TypeOK, CopyInv, Spent, Credit
    <2> QED BY <2>1
  <1> QED BY <1>1, <1>2, CopyStep, RelayTyping, PTL DEF Spec

-----------------------------------------------------------------------------
(* The relay is an at-least-once channel.                                    *)

\* What a relay is about to mark has been written, whoever marks it.
WrittenInv ==
  /\ \A i \in DOMAIN outbox : outbox[i].published => copies[i] > 0
  /\ \A r \in Relay, i \in Id : At(r, i, "mark") => copies[i] > 0

\* Writing only adds copies.
LEMMA CopiesGrow ==
  ASSUME TypeOK, [Next]_vars
  PROVE  \A i \in Id : copies[i] > 0 => copies'[i] > 0
  <1> SUFFICES ASSUME NEW i \in Id, copies[i] > 0 PROVE copies'[i] > 0
      OBVIOUS
  <1>1. copies \in [Id -> Nat]
        BY DEF TypeOK
  <1>2. ASSUME NEW k \in Id, NEW n \in {0, 1}, Write(k, n) PROVE copies'[i] > 0
        BY <1>1, <1>2 DEF Write
  <1>3. UNCHANGED copies \/ \E k \in Id, n \in {0, 1} : Write(k, n)
        BY DEF Next, vars, Enqueue, Claim, Publish, PublishRetried, PublishFails, MarkPublished, Release,
               UpdateFails, Crash, DelayPasses, LeaseExpires, LeaseOverrun, ExpireLease
  <1> QED BY <1>2, <1>3

\* A relay that comes to the marking of a row has just written it.
LEMMA MarkAfterWrite ==
  ASSUME TypeOK, WrittenInv, [Next]_vars, NEW r \in Relay, NEW i \in Id, At(r, i, "mark")'
  PROVE  copies'[i] > 0
  <1>1. CASE At(r, i, "mark")
        BY <1>1, CopiesGrow DEF WrittenInv
  <1>2. CASE ~At(r, i, "mark")
    <2>1. /\ i \in flush'[r].todo /\ (\A j \in flush'[r].todo : i <= j)
          /\ flush'[r].stage = "mark"
          BY DEF At
    <2>2. flush'[r] # flush[r]
          BY <1>2, <2>1 DEF At
    <2>3. PICK q \in Relay, k \in Id : Publish(q, k) /\ q = r
      <3>1. ASSUME NEW q \in Relay, NEW batch \in SUBSET DOMAIN outbox, Claim(q, batch) PROVE FALSE
            BY <2>1, <2>2, <3>1 DEF Claim, TypeOK
      <3>2. ASSUME NEW q \in Relay, NEW k \in Id,
                   PublishFails(q, k) \/ MarkPublished(q, k) \/ Release(q, k) \/ UpdateFails(q, k)
            PROVE  FALSE
        <4>1. Goto(q, "release") \/ Leave(q, k)
              BY <3>2 DEF PublishFails, MarkPublished, Release, UpdateFails
        <4>2. \A p \in Relay : flush'[p] = flush[p] \/ flush'[p].stage # "mark"
          <5>1. CASE Goto(q, "release")
                BY <5>1 DEF Goto, TypeOK, Flush
          <5>2. CASE Leave(q, k)
                BY <5>2 DEF Leave, TypeOK
          <5> QED BY <4>1, <5>1, <5>2
        <4> QED BY <2>1, <2>2, <4>2
      <3>3. ASSUME NEW q \in Relay, Crash(q) PROVE FALSE
            BY <2>1, <2>2, <3>3 DEF Crash, Idle, TypeOK
      <3>4. ASSUME NEW q \in Relay, NEW k \in Id, Publish(q, k) PROVE q = r
            BY <2>2, <3>4 DEF Publish, Goto, TypeOK
      <3>5. flush' # flush
            BY <2>2
      <3>6. \E q \in Relay : \/ \E batch \in SUBSET DOMAIN outbox : Claim(q, batch)
                             \/ \E k \in Id : \/ Publish(q, k) \/ PublishFails(q, k)
                                              \/ MarkPublished(q, k) \/ Release(q, k) \/ UpdateFails(q, k)
                             \/ Crash(q)
            BY <3>5 DEF Next, vars, Enqueue, PublishRetried, DelayPasses, LeaseExpires, LeaseOverrun,
                        ExpireLease
      <3> QED BY <3>1, <3>2, <3>3, <3>4, <3>6
    <2>4. k = i
      <3>1. flush'[r].todo = flush[r].todo /\ At(r, k, "publish")
            BY <2>3 DEF Publish, Goto, TypeOK
      <3>2. At(r, i, "publish")
            BY <2>1, <3>1 DEF At
      <3> QED BY <3>1, <3>2, AtOne
    <2> QED BY <2>3, <2>4 DEF Publish, Write, TypeOK
  <1> QED BY <1>1, <1>2

\* The rows that a step publishes are the one that its relay marks.
LEMMA PublishedBy ==
  ASSUME TypeOK, [Next]_vars, NEW i \in DOMAIN outbox', outbox'[i].published,
         i \notin DOMAIN outbox \/ ~outbox[i].published
  PROVE  i \in DOMAIN outbox /\ \E r \in Relay : At(r, i, "mark")
  <1>1. CASE UNCHANGED outbox
        BY <1>1
  <1>2. ASSUME NEW k \in Id, Enqueue(k) PROVE FALSE
        BY <1>2 DEF Enqueue, NewRow, TypeOK
  <1>3. ASSUME NEW r \in Relay, NEW batch \in SUBSET DOMAIN outbox, Claim(r, batch) PROVE FALSE
        BY <1>3 DEF Claim, TypeOK, Row
  <1>4. ASSUME NEW r \in Relay, NEW k \in Id,
               MarkPublished(r, k) \/ Release(r, k) \/ UpdateFails(r, k), outbox' # outbox
        PROVE  i \in DOMAIN outbox /\ At(r, i, "mark")
    <2>1. PICK stage : At(r, k, stage) /\ stage \in {"mark", "release"}
          BY <1>4 DEF MarkPublished, Release, UpdateFails
    <2>2. k \in DOMAIN outbox /\ outbox[k] \in Row
          BY <2>1, AtRow
    <2>3. /\ DOMAIN outbox' = DOMAIN outbox /\ \A j \in DOMAIN outbox \ {k} : outbox'[j] = outbox[j]
          /\ \/ At(r, k, "mark")
             \/ outbox'[k] = Released(outbox[k])
          BY <1>4, <2>2 DEF MarkPublished, Release, UpdateFails, TypeOK
    <2>4. Released(outbox[k]).published = outbox[k].published
          BY <2>2 DEF Released, Row
    <2> QED BY <2>3, <2>4
  <1>5. ASSUME NEW k \in Id, DelayPasses(k) \/ LeaseExpires(k) \/ LeaseOverrun(k) PROVE FALSE
    <2>1. /\ DOMAIN outbox' = DOMAIN outbox
          /\ \A j \in DOMAIN outbox : outbox'[j].published = outbox[j].published
          BY <1>5 DEF DelayPasses, LeaseExpires, LeaseOverrun, ExpireLease, TypeOK, Row
    <2> QED BY <2>1
  <1> QED BY <1>1, <1>2, <1>3, <1>4, <1>5
          DEF Next, vars, Publish, PublishRetried, PublishFails, Crash

LEMMA WrittenStep == TypeOK /\ WrittenInv /\ [Next]_vars => WrittenInv'
  <1> SUFFICES ASSUME TypeOK, WrittenInv, [Next]_vars PROVE WrittenInv'
      OBVIOUS
  <1>1. ASSUME NEW i \in DOMAIN outbox', outbox'[i].published PROVE copies'[i] > 0
    <2>1. i \in Id
          BY TypeStep DEF TypeOK
    <2>2. copies[i] > 0
          BY <1>1, <2>1, PublishedBy DEF WrittenInv
    <2> QED BY <2>1, <2>2, CopiesGrow
  <1> QED BY <1>1, MarkAfterWrite DEF WrittenInv

\* Every step of the table and the relays is one of the channel, or hidden from it.
LEMMA ChannelStep == TypeOK /\ WrittenInv /\ [Next]_vars => [Channel!Next]_Channel!vars
  <1> DEFINE Enqueued == DOMAIN outbox
             Published == {i \in DOMAIN outbox : outbox[i].published}
             View == <<Enqueued, copies, Published>>
  <1> SUFFICES ASSUME TypeOK, WrittenInv, [Next]_vars
               PROVE  Channel!Next \/ UNCHANGED View
      BY DEF Channel!vars
  <1>1. ASSUME NEW i \in Id, Enqueue(i) PROVE Channel!Enqueue(i)
    <2>1. /\ DOMAIN outbox' = DOMAIN outbox \cup {i} /\ ~outbox'[i].published
          /\ \A j \in DOMAIN outbox : outbox'[j] = outbox[j]
          BY <1>1 DEF Enqueue, NewRow
    <2> QED BY <1>1, <2>1 DEF Enqueue, Channel!Enqueue
  <1>2. ASSUME NEW r \in Relay, NEW i \in Id, NEW n \in {0, 1}, NEW stage, At(r, i, stage),
               Write(i, n), UNCHANGED outbox
        PROVE  Channel!Deliver(i) \/ UNCHANGED View
    <2>1. i \in DOMAIN outbox
          BY <1>2, AtRow
    <2>2. CASE n = 1
          BY <1>2, <2>1, <2>2 DEF Write, Channel!Deliver
    <2>3. CASE n = 0
      <3>1. copies' = copies
            BY <1>2, <2>3 DEF Write, TypeOK
      <3> QED BY <1>2, <3>1
    <2> QED BY <2>2, <2>3
  <1>3. ASSUME NEW r \in Relay, NEW i \in Id,
               Publish(r, i) \/ PublishRetried(r, i) \/ PublishFails(r, i)
        PROVE  Channel!Deliver(i) \/ UNCHANGED View
        BY <1>2, <1>3 DEF Publish, PublishRetried, PublishFails
  <1>4. ASSUME NEW r \in Relay, NEW i \in Id,
               MarkPublished(r, i) \/ Release(r, i) \/ UpdateFails(r, i)
        PROVE  (\E rows \in SUBSET Enqueued : Channel!Publish(rows)) \/ UNCHANGED View
    <2>1. PICK stage : At(r, i, stage) /\ stage \in {"mark", "release"}
          BY <1>4 DEF MarkPublished, Release, UpdateFails
    <2>2. i \in DOMAIN outbox /\ outbox[i] \in Row
          BY <2>1, AtRow
    <2>3. /\ copies' = copies
          /\ DOMAIN outbox' = DOMAIN outbox /\ \A j \in DOMAIN outbox \ {i} : outbox'[j] = outbox[j]
          /\ \/ At(r, i, "mark") /\ outbox'[i] = Marked(outbox[i])
             \/ outbox'[i] \in {outbox[i], Released(outbox[i])}
          BY <1>4, <2>2 DEF MarkPublished, Release, UpdateFails, TypeOK
    <2>4. CASE outbox'[i].published = outbox[i].published
          BY <2>3, <2>4
    <2>5. CASE outbox'[i].published # outbox[i].published
      <3>1. At(r, i, "mark") /\ outbox'[i] = Marked(outbox[i]) /\ outbox'[i].published
            BY <2>2, <2>3, <2>5 DEF Marked, Released, Row
      <3>2. Published' = Published \cup {i} /\ copies[i] > 0
            BY <2>2, <2>3, <3>1 DEF WrittenInv
      <3>3. Channel!Publish({i})
            BY <2>3, <3>2 DEF Channel!Publish
      <3> QED BY <2>2, <3>3
    <2> QED BY <2>4, <2>5
  <1>5. ASSUME NEW r \in Relay, NEW batch \in SUBSET DOMAIN outbox, Claim(r, batch) PROVE UNCHANGED View
    <2>1. /\ DOMAIN outbox' = DOMAIN outbox /\ copies' = copies
          /\ \A j \in DOMAIN outbox : outbox'[j].published = outbox[j].published
          BY <1>5 DEF Claim, TypeOK, Row
    <2> QED BY <2>1
  <1>6. ASSUME NEW i \in Id, DelayPasses(i) \/ LeaseExpires(i) \/ LeaseOverrun(i) PROVE UNCHANGED View
    <2>1. /\ DOMAIN outbox' = DOMAIN outbox /\ copies' = copies
          /\ \A j \in DOMAIN outbox : outbox'[j].published = outbox[j].published
          BY <1>6 DEF DelayPasses, LeaseExpires, LeaseOverrun, ExpireLease, TypeOK, Row
    <2> QED BY <2>1
  <1>7. ASSUME NEW r \in Relay, Crash(r) PROVE UNCHANGED View
        BY <1>7 DEF Crash
  <1>8. CASE UNCHANGED vars
        BY <1>8 DEF vars
  <1> HIDE DEF View
  <1> QED BY <1>1, <1>3, <1>4, <1>5, <1>6, <1>7, <1>8 DEF Next, Channel!Next

\* Claims, leases, marks under a shared worker id, failed calls and crashes
\* implement the at-least-once channel, for any number of replicas and rows.
THEOREM RelayImplements == Spec => ImplementsChannel
  <1>1. Init => Channel!Init
        BY DEF Init, Channel!Init
  <1>2. Init => WrittenInv
        BY DEF Init, WrittenInv, At, Idle
  <1> QED BY <1>1, <1>2, WrittenStep, ChannelStep, RelayTyping, PTL
          DEF Spec, ImplementsChannel, Channel!Spec
===============================================================================
