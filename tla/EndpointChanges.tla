---------------------------- MODULE EndpointChanges ----------------------------
(***************************************************************************)
(* The way of an endpoint's changes: rows of the endpoint service's outbox *)
(* that the relays write to hookyard.endpoint-events, and the delivery     *)
(* service's consumer on the other side.  Here the relay decides what the  *)
(* topic holds, in place of EndpointFeed's Publishable.                    *)
(*                                                                         *)
(* The messages of one endpoint share a key, so they are on one partition  *)
(* in the order of their writes.                                           *)
(***************************************************************************)
EXTENDS EndpointFeed

CONSTANTS
  Id, Relay, BatchSize, MaxFaults,   \* of EndpointRelay
  changes                            \* the message that each row holds

VARIABLES outbox, flush, copies, faults

relay == <<outbox, flush, copies, faults>>

R == INSTANCE EndpointRelay

\* Calls for one endpoint that follow each other: a change is committed after
\* those before it.
InOrder(rows) ==
  \A i \in rows, j \in Id :
    j < i /\ changes[j].endpoint = changes[i].endpoint => j \in rows

\* A step of the outbox or of a relay; what it writes is appended to the topic.
\* A broker that has no room left (MaxLog) takes no write.
RelayStep ==
  /\ R!Next /\ InOrder(DOMAIN outbox')
  /\ \/ UNCHANGED <<copies, topic, loop>>
     \/ \E i \in Id : copies'[i] > copies[i] /\ Produce(changes[i])
  /\ UNCHANGED tables

ChangesInit == FeedInit /\ R!Init

ChangesNext ==
  \/ RelayStep
  \/ Consume /\ UNCHANGED relay

ChangesSpec == ChangesInit /\ [][ChangesNext]_<<feed, relay>>
===============================================================================
