-------------------------------- MODULE Pages --------------------------------
(***************************************************************************)
(* The listings of the APIs (deliveries, the DLQ, a delivery's attempts,   *)
(* endpoints): a client follows next_cursor from page to page while rows   *)
(* are inserted and change their status.  Each page is one SELECT, which   *)
(* starts behind the key of the last row of the page before.               *)
(*                                                                         *)
(* created_at is NOW(), the start of a transaction: rows may share it, and *)
(* a row that is committed late may be older than rows already listed.     *)
(* Left out: the tenant, and the filters by endpoint and event, which no   *)
(* row ever changes; the cursor's text, which keeps its key exactly.       *)
(***************************************************************************)
EXTENDS Naturals, FiniteSets

CONSTANTS
  Id,        \* ids, as Postgres compares them; the attempt numbers of a delivery
  Time,      \* values of created_at
  Status,
  Limits,    \* the limits a client may ask for
  MaxLimit, DefaultLimit,
  Start, End   \* no cursor yet; no next_cursor

ASSUME PagesAssumption ==
  /\ Id \subseteq Nat /\ IsFiniteSet(Id) /\ Time \subseteq Nat
  /\ Limits \subseteq Nat
  /\ MaxLimit \in Nat \ {0} /\ DefaultLimit \in 1..MaxLimit
  /\ Start \notin Id /\ End \notin Id /\ Start # End
  /\ "ALL" \notin Status

VARIABLES
  rows,      \* the table: a function on the ids inserted so far
  query,     \* the list that is asked for, and its filter
  cursor,    \* Start, End or the row that the last page ended with
  listed,    \* how often the client has seen each row
  steady     \* history: rows that have matched the filter since the first page

pages == <<rows, query, cursor, listed, steady>>

\* The list and its filter.  Deliveries and endpoints come by created_at DESC,
\* id DESC, the attempts of a delivery by attempt_number and without a filter.
Query ==
  {"deliveries", "endpoints"} \X (Status \cup {"ALL"}) \cup {<<"attempts", "ALL">>}

\* The row comparison (created_at, id) < ($1, $2), or attempt_number > $1.
Precedes(i, j) ==
  IF query[1] = "attempts" THEN i < j
  ELSE \/ rows[j].time < rows[i].time
       \/ rows[j].time = rows[i].time /\ j < i

Matches(i) == query[2] = "ALL" \/ rows[i].status = query[2]

\* Mutant of Found: created_at < $1.
MutFoundByTime ==
  {i \in DOMAIN rows :
     /\ Matches(i)
     /\ cursor # Start =>
          IF query[1] = "attempts" THEN cursor < i ELSE rows[i].time < rows[cursor].time}

\* A row's key never changes, so the cursor may as well name the row.
Found == {i \in DOMAIN rows : Matches(i) /\ (cursor = Start \/ Precedes(cursor, i))}

\* The lists of the delivery service take any limit, that of the endpoint service
\* answers 400 to one out of range.
Accepted(limit) == query[1] = "endpoints" => limit \in 1..MaxLimit

PageSize(limit) == IF limit < 1 \/ limit > MaxLimit THEN DefaultLimit ELSE limit

\* The first rows of the result, LIMIT size of them.
IsPage(page, size) ==
  /\ page \subseteq Found /\ Cardinality(page) <= size
  /\ Cardinality(page) < size => page = Found
  /\ \A i \in page, j \in Found \ page : Precedes(i, j)

IsLast(i, page) == i \in page /\ \A j \in page : j = i \/ Precedes(j, i)

\* Only if there was a row beyond the page.
NextCursor(page) ==
  IF page = Found THEN {End} ELSE {i \in page : IsLast(i, page)}

List(limit) ==
  /\ cursor # End
  /\ Accepted(limit)
  /\ \E page \in SUBSET Found :
       /\ IsPage(page, PageSize(limit))
       /\ cursor' \in NextCursor(page)
       /\ listed' = [i \in Id |-> IF i \in page THEN listed[i] + 1 ELSE listed[i]]
  /\ steady' = IF cursor = Start THEN Found ELSE steady
  /\ UNCHANGED <<rows, query>>

-----------------------------------------------------------------------------
(* What others do meanwhile.                                                *)

Insert(i, time, status) ==
  /\ i \notin DOMAIN rows
  /\ rows' = [j \in DOMAIN rows \cup {i} |->
                IF j = i THEN [time |-> time, status |-> status] ELSE rows[j]]
  /\ UNCHANGED <<query, cursor, listed, steady>>

SetStatus(i, status) ==
  /\ i \in DOMAIN rows
  /\ rows' = [rows EXCEPT ![i].status = status]
  /\ steady' = IF query[2] \in {"ALL", status} THEN steady ELSE steady \ {i}
  /\ UNCHANGED <<query, cursor, listed>>

PagesInit ==
  /\ rows = [i \in {} |-> End]
  /\ query \in Query
  /\ cursor = Start
  /\ listed = [i \in Id |-> 0]
  /\ steady = {}

PagesNext ==
  \/ \E limit \in Limits : List(limit)
  \/ \E i \in Id, time \in Time, status \in Status : Insert(i, time, status)
  \/ \E i \in Id, status \in Status : SetStatus(i, status)

PagesSpec == PagesInit /\ [][PagesNext]_pages

-----------------------------------------------------------------------------
(* Properties.                                                              *)

PagesTypeOK ==
  /\ DOMAIN rows \subseteq Id /\ rows \in [DOMAIN rows -> [time : Time, status : Status]]
  /\ query \in Query
  /\ cursor \in DOMAIN rows \cup {Start, End}
  /\ listed \in [Id -> Nat]
  /\ steady \subseteq DOMAIN rows

\* A client that follows the cursors to the end has seen every row that matched
\* its filter all the while, although rows share a created_at, arrive late and
\* change their status between two pages, and no row twice.
EveryRowOnce ==
  /\ \A i \in Id : listed[i] <= 1
  /\ cursor = End => \A i \in steady : listed[i] = 1
===============================================================================
