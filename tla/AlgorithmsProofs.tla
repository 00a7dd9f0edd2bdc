--------------------------- MODULE AlgorithmsProofs ---------------------------
(***************************************************************************)
(* EveryRowOnce for any number of rows, times and statuses, any limits and *)
(* any interleaving of inserts and updates with the pages.                 *)
(* WaitsDouble for any retry policy and any number of attempts.            *)
(***************************************************************************)
EXTENDS Pages, Backoff, WellFoundedInduction, TLAPS

-----------------------------------------------------------------------------
(* Pages.                                                                   *)

\* The order of a listing is a strict one on the rows of the table.
LEMMA PrecedesIsOrder ==
  ASSUME PagesTypeOK, NEW i \in DOMAIN rows, NEW j \in DOMAIN rows, NEW k \in DOMAIN rows
  PROVE  /\ ~Precedes(i, i)
         /\ Precedes(i, j) => ~Precedes(j, i)
         /\ Precedes(i, j) /\ Precedes(j, k) => Precedes(i, k)
  <1>1. \A l \in {i, j, k} : l \in Nat /\ rows[l].time \in Nat
        BY PagesAssumption DEF PagesTypeOK
  <1> QED BY <1>1 DEF Precedes

\* What others do leaves the keys of the rows in the table, and so their order.
LEMMA OthersStep ==
  ASSUME PagesTypeOK, NEW i \in Id, NEW status \in Status,
         (\E time \in Time : Insert(i, time, status)) \/ SetStatus(i, status)
  PROVE  /\ DOMAIN rows \subseteq DOMAIN rows' /\ DOMAIN rows' \subseteq DOMAIN rows \cup {i}
         /\ rows' \in [DOMAIN rows' -> [time : Time, status : Status]]
         /\ \A j \in DOMAIN rows : rows'[j].time = rows[j].time
         /\ UNCHANGED <<query, cursor, listed>>
         /\ steady' \subseteq steady
         /\ \A j \in steady' : Matches(j) => Matches(j)'
  <1>1. ASSUME NEW time \in Time, Insert(i, time, status)
        PROVE  /\ DOMAIN rows' = DOMAIN rows \cup {i}
               /\ rows' \in [DOMAIN rows' -> [time : Time, status : Status]]
               /\ \A j \in DOMAIN rows : rows'[j] = rows[j]
               /\ UNCHANGED <<query, cursor, listed, steady>>
        BY <1>1 DEF PagesTypeOK, Insert
  <1>2. ASSUME SetStatus(i, status)
        PROVE  /\ DOMAIN rows' = DOMAIN rows
               /\ rows' \in [DOMAIN rows' -> [time : Time, status : Status]]
               /\ \A j \in DOMAIN rows : rows'[j].time = rows[j].time
               /\ \A j \in DOMAIN rows \ {i} : rows'[j] = rows[j]
               /\ rows'[i].status = status
               /\ UNCHANGED <<query, cursor, listed>>
               /\ steady' = IF query[2] \in {"ALL", status} THEN steady ELSE steady \ {i}
        BY <1>2 DEF PagesTypeOK, SetStatus
  <1>3. steady \subseteq DOMAIN rows
        BY DEF PagesTypeOK
  <1>4. ASSUME SetStatus(i, status), NEW j \in steady', Matches(j) PROVE Matches(j)'
    <2>1. query' = query /\ j \in DOMAIN rows
          BY <1>2, <1>3, <1>4
    <2>2. CASE j # i
          BY <1>2, <1>4, <2>1, <2>2 DEF Matches
    <2>3. CASE j = i
          BY <1>2, <1>4, <2>1, <2>3 DEF Matches
    <2> QED BY <2>2, <2>3
  <1>5. ASSUME NEW time \in Time, Insert(i, time, status), NEW j \in steady', Matches(j)
        PROVE  Matches(j)'
        BY <1>1, <1>3, <1>5 DEF Matches
  <1> QED BY <1>1, <1>2, <1>4, <1>5

\* What one page does.
LEMMA ListStep ==
  ASSUME PagesTypeOK, NEW limit \in Limits, List(limit)
  PROVE  \E page \in SUBSET Found :
           /\ \A i \in page, j \in Found \ page : Precedes(i, j)
           /\ listed' = [i \in Id |-> IF i \in page THEN listed[i] + 1 ELSE listed[i]]
           /\ \/ page = Found /\ cursor' = End
              \/ /\ cursor' \in page
                 /\ \A i \in page : i = cursor' \/ Precedes(i, cursor')
           /\ steady' = (IF cursor = Start THEN Found ELSE steady)
           /\ cursor # End /\ UNCHANGED <<rows, query>>
  BY DEF List, IsPage, NextCursor, IsLast

LEMMA PagesTypeStep == PagesTypeOK /\ [PagesNext]_pages => PagesTypeOK'
  <1> SUFFICES ASSUME PagesTypeOK, [PagesNext]_pages PROVE PagesTypeOK'
      OBVIOUS
  <1>1. ASSUME NEW limit \in Limits, List(limit) PROVE PagesTypeOK'
    <2>1. PICK page \in SUBSET Found :
            /\ listed' = [i \in Id |-> IF i \in page THEN listed[i] + 1 ELSE listed[i]]
            /\ cursor' = End \/ cursor' \in page
            /\ steady' = (IF cursor = Start THEN Found ELSE steady)
            /\ UNCHANGED <<rows, query>>
          BY <1>1, ListStep
    <2>2. Found \subseteq DOMAIN rows
          BY DEF Found
    <2> QED BY <2>1, <2>2 DEF PagesTypeOK
  <1>2. ASSUME NEW i \in Id, NEW status \in Status,
               (\E time \in Time : Insert(i, time, status)) \/ SetStatus(i, status)
        PROVE  PagesTypeOK'
        BY <1>2, OthersStep DEF PagesTypeOK
  <1>3. CASE UNCHANGED pages
        BY <1>3 DEF pages, PagesTypeOK
  <1> QED BY <1>1, <1>2, <1>3 DEF PagesNext

\* The table, the listing and what the client has seen are well formed.
THEOREM PagesTyping == PagesSpec => []PagesTypeOK
  <1>1. PagesInit => PagesTypeOK
        BY DEF PagesInit, PagesTypeOK
  <1> QED BY <1>1, PagesTypeStep, PTL DEF PagesSpec

-----------------------------------------------------------------------------
(* EveryRowOnce.  The rows that were listed are not behind the cursor, and   *)
(* steady rows that are not behind it were listed.                           *)

CursorInv ==
  /\ \A i \in Id : listed[i] <= 1
  /\ \A i \in Id \ DOMAIN rows : listed[i] = 0
  /\ cursor = Start => \A i \in Id : listed[i] = 0
  /\ cursor = End => \A i \in steady : listed[i] = 1
  /\ cursor \in DOMAIN rows =>
       /\ \A i \in DOMAIN rows : listed[i] = 1 => ~Precedes(cursor, i)
       /\ \A i \in steady : Matches(i) /\ (listed[i] = 1 \/ Precedes(cursor, i))

\* A page holds rows that the client has not seen.
LEMMA FoundIsNew ==
  ASSUME PagesTypeOK, CursorInv, cursor # End, NEW i \in Found
  PROVE  listed[i] = 0
  <1>1. i \in DOMAIN rows /\ i \in Id /\ listed[i] \in Nat /\ listed[i] <= 1
        BY DEF Found, PagesTypeOK, CursorInv
  <1>2. CASE cursor = Start
        BY <1>1, <1>2 DEF CursorInv
  <1>3. CASE cursor \in DOMAIN rows
    <2>1. Precedes(cursor, i)
          BY <1>3, PagesAssumption DEF Found, PagesTypeOK
    <2>2. listed[i] # 1
          BY <1>1, <1>3, <2>1 DEF CursorInv
    <2> QED BY <1>1, <2>2
  <1> QED BY <1>2, <1>3 DEF PagesTypeOK

\* A steady row that the client has not seen is among those found.
LEMMA SteadyIsFound ==
  ASSUME PagesTypeOK, CursorInv, cursor \notin {Start, End}, NEW i \in steady
  PROVE  i \in Found \/ listed[i] = 1
  BY DEF PagesTypeOK, CursorInv, Found

LEMMA CursorListStep ==
  ASSUME PagesTypeOK, CursorInv, NEW limit \in Limits, List(limit)
  PROVE  CursorInv'
  <1>1. PICK page \in SUBSET Found :
          /\ \A i \in page, j \in Found \ page : Precedes(i, j)
          /\ listed' = [i \in Id |-> IF i \in page THEN listed[i] + 1 ELSE listed[i]]
          /\ \/ page = Found /\ cursor' = End
             \/ /\ cursor' \in page
                /\ \A i \in page : i = cursor' \/ Precedes(i, cursor')
          /\ steady' = (IF cursor = Start THEN Found ELSE steady)
          /\ cursor # End /\ UNCHANGED <<rows, query>>
        BY ListStep
  <1>2. Found \subseteq DOMAIN rows /\ DOMAIN rows \subseteq Id /\ steady' \subseteq DOMAIN rows
        BY <1>1 DEF Found, PagesTypeOK
  <1>3. \A i \in Id : IF i \in page THEN listed'[i] = 1 ELSE listed'[i] = listed[i]
        BY <1>1, <1>2, FoundIsNew
  <1>4. \A i \in Id : listed'[i] <= 1
        BY <1>3 DEF CursorInv
  <1>5. \A i \in Id \ DOMAIN rows' : listed'[i] = 0
        BY <1>1, <1>2, <1>3 DEF CursorInv
  <1>6. cursor' # Start
        BY <1>1, <1>2, PagesAssumption
  <1>7. \A i \in steady' : i \in Found \/ listed[i] = 1
        BY <1>1, SteadyIsFound
  <1>8. ASSUME cursor' = End, NEW i \in steady' PROVE listed'[i] = 1
    <2>1. page = Found
          BY <1>1, <1>2, <1>8, PagesAssumption
    <2> QED BY <1>2, <1>3, <1>7, <2>1
  <1>9. ASSUME cursor' \in DOMAIN rows', NEW i \in DOMAIN rows', listed'[i] = 1
        PROVE  ~Precedes(cursor', i)
    <2>1. cursor' \in page /\ \A k \in page : k = cursor' \/ Precedes(k, cursor')
          BY <1>1, <1>2, <1>9, PagesAssumption
    <2>2. i \in DOMAIN rows /\ i \in Id /\ cursor' \in DOMAIN rows /\ cursor' \in Found
          BY <1>1, <1>2, <1>9, <2>1
    <2>3. CASE i \in page
          BY <2>1, <2>2, <2>3, PrecedesIsOrder
    <2>4. CASE i \notin page
      <3>1. listed[i] = 1
            BY <1>3, <1>9, <2>2, <2>4
      <3>2. cursor \in DOMAIN rows
            BY <1>1, <2>2, <3>1 DEF CursorInv, PagesTypeOK
      <3>3. ~Precedes(cursor, i)
            BY <2>2, <3>1, <3>2 DEF CursorInv
      <3>4. Precedes(cursor, cursor')
            BY <1>2, <2>2, <3>2, PagesAssumption DEF Found
      <3> QED BY <2>2, <3>2, <3>3, <3>4, PrecedesIsOrder
    <2> QED BY <2>3, <2>4
  <1>10. ASSUME cursor' \in DOMAIN rows', NEW i \in steady'
         PROVE  Matches(i) /\ (listed'[i] = 1 \/ Precedes(cursor', i))
    <2>1. cursor' \in page
          BY <1>1, <1>2, <1>10, PagesAssumption
    <2>2. Matches(i)
      <3>1. CASE cursor = Start
            BY <1>1, <3>1 DEF Found
      <3>2. CASE cursor # Start
            BY <1>1, <3>2 DEF CursorInv, PagesTypeOK
      <3> QED BY <3>1, <3>2
    <2>3. CASE i \in page
          BY <1>2, <1>3, <2>2, <2>3
    <2>4. CASE i \in Found \ page
          BY <1>1, <2>1, <2>2, <2>4
    <2>5. CASE i \notin Found
          BY <1>2, <1>3, <1>7, <2>2, <2>5
    <2> QED BY <2>3, <2>4, <2>5
  <1>11. \A i : (Precedes(cursor, i)' <=> Precedes(cursor', i)) /\ (Matches(i)' <=> Matches(i))
         BY <1>1 DEF Precedes, Matches
  <1> QED BY <1>4, <1>5, <1>6, <1>8, <1>9, <1>10, <1>11 DEF CursorInv

LEMMA CursorStep == PagesTypeOK /\ CursorInv /\ [PagesNext]_pages => CursorInv'
  <1> SUFFICES ASSUME PagesTypeOK, CursorInv, [PagesNext]_pages PROVE CursorInv'
      OBVIOUS
  <1>1. ASSUME NEW i \in Id, NEW status \in Status,
               (\E time \in Time : Insert(i, time, status)) \/ SetStatus(i, status)
        PROVE  CursorInv'
    <2>1. /\ DOMAIN rows \subseteq DOMAIN rows' /\ DOMAIN rows' \subseteq DOMAIN rows \cup {i}
          /\ \A j \in DOMAIN rows : rows'[j].time = rows[j].time
          /\ query' = query /\ cursor' = cursor /\ listed' = listed
          /\ steady' \subseteq steady
          /\ \A j \in steady' : Matches(j) => Matches(j)'
          BY <1>1, OthersStep
    <2>2. steady \subseteq DOMAIN rows /\ DOMAIN rows \subseteq Id
          /\ cursor \in DOMAIN rows \cup {Start, End}
          BY DEF PagesTypeOK
    <2>3. \A j \in DOMAIN rows, k \in DOMAIN rows : Precedes(j, k)' <=> Precedes(j, k)
          BY <2>1 DEF Precedes
    <2>4. ASSUME cursor' \in DOMAIN rows' PROVE cursor \in DOMAIN rows
          BY <1>1, <2>1, <2>2, <2>4, PagesAssumption
    <2>5. ASSUME cursor \in DOMAIN rows, NEW j \in DOMAIN rows', listed'[j] = 1
          PROVE  ~Precedes(cursor, j)'
      <3>1. j \in DOMAIN rows
            BY <1>1, <2>1, <2>5 DEF CursorInv
      <3> QED BY <2>1, <2>3, <2>5, <3>1 DEF CursorInv
    <2>6. ASSUME cursor \in DOMAIN rows, NEW j \in steady'
          PROVE  Matches(j)' /\ (listed'[j] = 1 \/ Precedes(cursor, j)')
          BY <2>1, <2>2, <2>3, <2>6 DEF CursorInv
    <2> QED BY <2>1, <2>2, <2>4, <2>5, <2>6 DEF CursorInv
  <1>2. CASE UNCHANGED pages
        BY <1>2 DEF pages, CursorInv, Precedes, Matches
  <1> QED BY <1>1, <1>2, CursorListStep DEF PagesNext

\* Whoever follows the cursors to the end has seen every row that matched all the
\* while, and none twice, although rows arrive late, share a created_at and change.
THEOREM PagesComplete == PagesSpec => []EveryRowOnce
  <1>1. PagesInit => CursorInv
        BY PagesAssumption DEF PagesInit, CursorInv
  <1>2. CursorInv => EveryRowOnce
        BY DEF CursorInv, EveryRowOnce
  <1> QED BY <1>1, <1>2, CursorStep, PagesTyping, PTL DEF PagesSpec

-----------------------------------------------------------------------------
(* Natural numbers.  What a recursive function computes follows from the    *)
(* least number that violates it.                                           *)

\* A set of natural numbers has a least one.
LEMMA LeastNat ==
  ASSUME NEW T \in SUBSET Nat, T # {}
  PROVE  \E m \in T : \A k \in T : m <= k
  <1>1. PICK m \in T : \A k \in T : <<k, m>> \notin OpToRel(<, Nat)
        BY WFMin, NatLessThanWellFounded, Zenon
  <1>2. \A k \in T : ~(k < m)
        BY <1>1, Zenon DEF OpToRel
  <1> QED BY <1>2, T \in SUBSET Nat

\* Induction, with a set in place of a predicate.
LEMMA AllNat ==
  ASSUME NEW T \in SUBSET Nat, 0 \in T, \A n \in T : n + 1 \in T
  PROVE  T = Nat
  <1> SUFFICES ASSUME Nat \ T # {} PROVE FALSE
      OBVIOUS
  <1>1. PICK m \in Nat \ T : \A k \in Nat \ T : m <= k
        BY LeastNat
  <1>2. m - 1 \in T
        BY <1>1
  <1> QED BY <1>1, <1>2

\* The powers of two up to n.
Powers(n) ==
  {g \in [0..n -> Nat \ {0}] : g[0] = 1 /\ \A k \in 1..n : g[k] = 2 * g[k - 1]}

LEMMA PowersExist == \A n \in Nat : Powers(n) # {}
  <1> DEFINE T == {n \in Nat : Powers(n) # {}}
  <1>1. 0 \in T
    <2>1. [k \in 0..0 |-> 1] \in Powers(0)
          BY DEF Powers
    <2> QED BY <2>1
  <1>2. ASSUME NEW n \in T PROVE n + 1 \in T
    <2>1. PICK g : g \in Powers(n)
          BY <1>2
    <2>2. n \in Nat /\ g \in [0..n -> Nat \ {0}] /\ g[0] = 1 /\ \A k \in 1..n : g[k] = 2 * g[k - 1]
          BY <2>1 DEF Powers
    <2> DEFINE h == [k \in 0..(n + 1) |-> IF k = n + 1 THEN 2 * g[n] ELSE g[k]]
    <2>3. h \in [0..(n + 1) -> Nat \ {0}]
          BY <2>2
    <2>4. h[0] = 1 /\ \A k \in 1..(n + 1) : h[k] = 2 * h[k - 1]
          BY <2>2
    <2>5. h \in Powers(n + 1)
          BY <2>3, <2>4 DEF Powers
    <2> QED BY <2>2, <2>5
  <1> HIDE DEF T
  <1>3. T = Nat
        BY <1>1, <1>2, AllNat DEF T
  <1> QED BY <1>3 DEF T

LEMMA PowersAgree ==
  ASSUME NEW n \in Nat, NEW g \in Powers(n), NEW h \in Powers(n + 1)
  PROVE  g[n] = h[n]
  <1> DEFINE T == {k \in Nat : k <= n => g[k] = h[k]}
  <1>1. /\ g[0] = 1 /\ \A k \in 1..n : g[k] = 2 * g[k - 1]
        /\ h[0] = 1 /\ \A k \in 1..(n + 1) : h[k] = 2 * h[k - 1]
        BY DEF Powers
  <1>2. 0 \in T
        BY <1>1
  <1>3. ASSUME NEW k \in T PROVE k + 1 \in T
    <2>1. k \in Nat /\ (k <= n => g[k] = h[k])
          BY <1>3
    <2>2. k + 1 <= n => g[k + 1] = 2 * g[k] /\ h[k + 1] = 2 * h[k]
          BY <1>1, <2>1
    <2> QED BY <2>1, <2>2
  <1> HIDE DEF T
  <1>4. T = Nat
        BY <1>2, <1>3, AllNat DEF T
  <1> QED BY <1>4 DEF T

\* Pow2 is what its recursion says.
LEMMA Pow2Steps ==
  /\ Pow2[0] = 1
  /\ \A n \in Nat : /\ Pow2[n] \in Nat \ {0}
                    /\ Pow2[n + 1] = 2 * Pow2[n]
  <1> DEFINE G == [n \in Nat |-> (CHOOSE g : g \in Powers(n))[n]]
             Next2(f) == [n \in Nat |-> IF n = 0 THEN 1 ELSE 2 * f[n - 1]]
  <1>1. \A n \in Nat : (CHOOSE g : g \in Powers(n)) \in Powers(n)
        BY PowersExist
  <1>2. G[0] = 1
        BY <1>1 DEF Powers
  <1>3. ASSUME NEW n \in Nat PROVE G[n] \in Nat \ {0} /\ G[n + 1] = 2 * G[n]
    <2> DEFINE g == CHOOSE f : f \in Powers(n)
               h == CHOOSE f : f \in Powers(n + 1)
    <2>1. n + 1 \in Nat
          OBVIOUS
    <2>2. g \in Powers(n) /\ h \in Powers(n + 1) /\ G[n] = g[n] /\ G[n + 1] = h[n + 1]
          BY ONLY <1>1, <2>1, n \in Nat
    <2> HIDE DEF g, h, G
    <2>3. h[n + 1] = 2 * h[n] /\ g[n] \in Nat \ {0}
          BY <2>2 DEF Powers
    <2>4. g[n] = h[n]
          BY <2>2, PowersAgree
    <2> QED BY <2>2, <2>3, <2>4
  <1>4. G = Next2(G)
    <2>1. ASSUME NEW n \in Nat PROVE G[n] = Next2(G)[n]
      <3>1. CASE n = 0
            BY <1>2, <3>1
      <3>2. CASE n # 0
        <4>1. n - 1 \in Nat /\ (n - 1) + 1 = n
              BY <3>2
        <4> HIDE DEF G
        <4> QED BY <1>3, <3>2, <4>1
      <3> QED BY <3>1, <3>2
    <2> HIDE DEF Next2
    <2>2. DOMAIN Next2(G) = Nat /\ Next2(G) = [n \in Nat |-> Next2(G)[n]]
          BY DEF Next2
    <2> QED BY <2>1, <2>2
  <1> HIDE DEF G
  <1>5. Pow2 = Next2(Pow2)
        BY <1>4 DEF Pow2
  <1>6. Pow2[0] = 1 /\ \A n \in Nat : Pow2[n + 1] = 2 * Pow2[n]
        BY <1>5
  <1> DEFINE T == {n \in Nat : Pow2[n] \in Nat \ {0}}
  <1>7. 0 \in T /\ \A n \in T : n + 1 \in T
        BY <1>6
  <1> HIDE DEF T, Next2
  <1>8. T = Nat
        BY <1>7, AllNat DEF T
  <1> QED BY <1>6, <1>8 DEF T

-----------------------------------------------------------------------------
(* WaitsDouble.                                                             *)

LEMMA PolicyFields ==
  ASSUME NEW p \in Policy
  PROVE  /\ p.initial \in Nat \ {0} /\ p.max \in Nat /\ p.initial <= p.max
         /\ p.jitter \in 0..100 /\ p.type # "linear"
  BY BackoffAssumption DEF Policy

\* Growing by powers and capping last is doubling step by step up to the cap.
LEMMA BaseSteps ==
  ASSUME NEW p \in Policy
  PROVE  /\ Base(p, 1) = p.initial
         /\ \A n \in Nat \ {0} :
              /\ Base(p, n) \in Nat
              /\ Base(p, n + 1) = AtMost(2 * Base(p, n), p.max)
  <1>1. /\ p.initial \in Nat \ {0} /\ p.max \in Nat /\ p.initial <= p.max
        /\ p.type # "linear"
        BY PolicyFields
  <1>2. \A n \in Nat \ {0} : Base(p, n) = AtMost(Growth(p, n), p.max)
        BY <1>1 DEF Base, AtLeastOne
  <1>3. Growth(p, 1) = p.initial
        BY <1>1, Pow2Steps DEF Growth
  <1>4. ASSUME NEW n \in Nat \ {0}
        PROVE  /\ Growth(p, n) \in Nat /\ Growth(p, n + 1) \in Nat
               /\ Growth(p, n + 1) = 2 * Growth(p, n)
    <2>1. n - 1 \in Nat /\ (n - 1) + 1 = n /\ (n + 1) - 1 = n
          OBVIOUS
    <2>2. Pow2[n - 1] \in Nat /\ Pow2[n] = 2 * Pow2[n - 1]
          BY <2>1, Pow2Steps
    <2>3. Growth(p, n) = p.initial * Pow2[n - 1] /\ Growth(p, n + 1) = p.initial * Pow2[n]
          BY <1>1, <2>1 DEF Growth
    <2>4. /\ p.initial * Pow2[n - 1] \in Nat
          /\ p.initial * (2 * Pow2[n - 1]) = 2 * (p.initial * Pow2[n - 1])
          BY <1>1, <2>2
    <2> QED BY <2>2, <2>3, <2>4
  <1>5. ASSUME NEW n \in Nat \ {0}
        PROVE  /\ Base(p, n) \in Nat
               /\ Base(p, n + 1) = AtMost(2 * Base(p, n), p.max)
    <2>1. n + 1 \in Nat \ {0}
          OBVIOUS
    <2>2. /\ Base(p, n) = AtMost(Growth(p, n), p.max)
          /\ Base(p, n + 1) = AtMost(Growth(p, n + 1), p.max)
          BY <1>2, <2>1
    <2> QED BY <1>1, <1>4, <2>2 DEF AtMost
  <1> QED BY <1>1, <1>2, <1>3, <1>5 DEF AtMost

\* The reference wait is the base that NextDelay computes from the attempt.
NominalInv ==
  /\ policy \in Policy /\ attempt \in Nat
  /\ attempt > 0 => nominal = Base(policy, attempt) /\ wait \in NextDelay(policy, attempt)

LEMMA NominalStep == NominalInv /\ [Fail]_backoff => NominalInv'
  <1> SUFFICES ASSUME NominalInv, [Fail]_backoff PROVE NominalInv'
      OBVIOUS
  <1>1. CASE Fail
    <2>1. /\ policy' = policy /\ policy \in Policy /\ attempt \in Nat /\ attempt' = attempt + 1
          /\ wait' \in NextDelay(policy, attempt + 1)
          BY <1>1 DEF Fail, NominalInv
    <2>2. nominal' = Base(policy, attempt + 1)
      <3>1. CASE attempt = 0
            BY <1>1, <2>1, <3>1, BaseSteps DEF Fail
      <3>2. CASE attempt # 0
        <4>1. /\ nominal = Base(policy, attempt) /\ attempt \in Nat \ {0}
              BY <2>1, <3>2 DEF NominalInv
        <4>2. nominal' = AtMost(2 * nominal, policy.max)
              BY <1>1, <3>2 DEF Fail
        <4> QED BY ONLY <2>1, <4>1, <4>2, BaseSteps
      <3> QED BY <3>1, <3>2
    <2> QED BY <2>1, <2>2 DEF NominalInv
  <1>2. CASE UNCHANGED backoff
        BY <1>2 DEF backoff, NominalInv
  <1> QED BY <1>1, <1>2

\* Every wait of a delivery is within jitter of the initial delay doubled once per
\* attempt up to the cap, for every policy that a row can hold, of either type,
\* and every number of attempts.
THEOREM Waits == BackoffSpec => []WaitsDouble
  <1>1. BackoffInit => NominalInv
        BY DEF BackoffInit, NominalInv
  <1>2. NominalInv => WaitsDouble
    <2> SUFFICES ASSUME NominalInv, attempt > 0
                 PROVE  /\ 100 * wait <= nominal * (100 + policy.jitter)
                        /\ 100 * (wait + 1) > nominal * (100 - policy.jitter)
        BY DEF WaitsDouble
    <2>1. wait \in NextDelay(policy, attempt) /\ nominal = Base(policy, attempt)
          BY DEF NominalInv
    <2> QED BY <2>1 DEF NextDelay
  <1> QED BY <1>1, <1>2, NominalStep, PTL DEF BackoffSpec
===============================================================================
