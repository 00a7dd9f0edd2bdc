----------------------------- MODULE OutboxChannel -----------------------------
(***************************************************************************)
(* What is promised of an outbox: a channel that delivers every row at     *)
(* least once, in any order, and calls a row published only when it has    *)
(* delivered it.  EndpointRelay implements it, and Events as a part of     *)
(* EventService.                                                           *)
(***************************************************************************)
EXTENDS Naturals

CONSTANT Id

VARIABLES
  enqueued,    \* rows that were committed
  copies,      \* how often each row was delivered
  published    \* rows that will not be delivered again on purpose

vars == <<enqueued, copies, published>>

Enqueue(i) ==
  /\ i \notin enqueued
  /\ enqueued' = enqueued \cup {i}
  /\ UNCHANGED <<copies, published>>

Deliver(i) ==
  /\ i \in enqueued
  /\ copies' = [copies EXCEPT ![i] = @ + 1]
  /\ UNCHANGED <<enqueued, published>>

Publish(rows) ==
  /\ \A i \in rows : copies[i] > 0
  /\ published' = published \cup rows
  /\ UNCHANGED <<enqueued, copies>>

Init ==
  /\ enqueued = {} /\ published = {}
  /\ copies = [i \in Id |-> 0]

Next ==
  \/ \E i \in Id : Enqueue(i) \/ Deliver(i)
  \/ \E rows \in SUBSET enqueued : Publish(rows)

Spec == Init /\ [][Next]_vars
===============================================================================
