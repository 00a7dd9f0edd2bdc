------------------------------- MODULE Pipeline -------------------------------
(***************************************************************************)
(* The two consumers of the delivery service side by side: EndpointChanged *)
(* messages change the projection (EndpointFeed) while EventAccepted       *)
(* messages are fanned out to the endpoints that the projection lists.     *)
(* The event handler reads the projection in one statement and inserts the *)
(* deliveries in another transaction.                                      *)
(*                                                                         *)
(* Left out: the message's decoding (Events has it) and what becomes of a  *)
(* delivery (Deliveries has that).                                         *)
(***************************************************************************)
EXTENDS EndpointFeed

CONSTANTS
  Event,
  TypeOf,       \* the event's type
  MaxEvents     \* bound: length of the event topic

ASSUME PipelineAssumption ==
  /\ TypeOf \in [Event -> EventType]
  /\ MaxEvents \in Nat

VARIABLES
  events, eventCommitted, eventNext, eventState, eventHandled, eventFailed,
  eventErrors, eventRestarts,   \* the event consumer's loop
  snapshot,     \* what GetForEvent returned to the handler: a set of at most one set
  deliveries,   \* the original deliveries, as pairs of event and endpoint
  steady,       \* history: endpoints that were listed ever since the last fetch
  listed,       \* history: pairs whose endpoint was listed while its event was handled
  owed          \* history: pairs whose endpoint was listed from fetch to commit

handler == <<snapshot, deliveries>>
history == <<steady, listed, owed>>
eventLoop == <<eventCommitted, eventNext, eventState, eventHandled, eventFailed,
               eventErrors, eventRestarts>>
pipeline == <<feed, events, eventLoop, handler, history>>

Events == INSTANCE Consumer
  WITH Message <- Event, Poison <- {}, MaxLog <- MaxEvents,
       topic <- events, committed <- eventCommitted, next <- eventNext,
       state <- eventState, handled <- eventHandled, failed <- eventFailed,
       errors <- eventErrors, restarts <- eventRestarts

event == events[eventNext]

To(eps) == {<<event, p>> : p \in eps}

-----------------------------------------------------------------------------
(* The event handler.                                                       *)

\* Mutant of GetEndpoints: the query does not ask whether the endpoint is active.
MutGetEndpointsDeleted ==
  /\ eventState = "handle" /\ snapshot = {}
  /\ snapshot' = {{p \in Endpoint : TypeOf[event] \in subscriptions[p]}}
  /\ UNCHANGED <<events, eventLoop, deliveries>>

GetEndpoints ==
  /\ eventState = "handle" /\ snapshot = {}
  /\ snapshot' = {GetForEvent(TypeOf[event])}
  /\ UNCHANGED <<events, eventLoop, deliveries>>

\* No endpoints, no transaction: then the same step inserts nothing.
CreateDeliveries ==
  /\ snapshot # {}
  /\ Events!HandlerSucceeds
  /\ deliveries' = deliveries \cup To(UNION snapshot)
  /\ snapshot' = {}

\* The lookup of a payload, the read or the transaction fails, or its commit is
\* not answered.
EventHandlerFails ==
  /\ Events!HandlerFails
  /\ deliveries' \in {deliveries, deliveries \cup To(UNION snapshot)}
  /\ snapshot' = {}

\* The handler's variables go with the process.
RestartEvents ==
  /\ Events!Restart
  /\ snapshot' = {}
  /\ UNCHANGED deliveries

EventStep ==
  \/ \E e \in Event : Events!Produce(e) /\ UNCHANGED handler
  \/ GetEndpoints
  \/ CreateDeliveries
  \/ EventHandlerFails
  \/ RestartEvents
  \/ /\ Events!FetchMessage \/ Events!FetchFails
        \/ Events!CommitMessages \/ Events!CommitFails
     /\ UNCHANGED handler

-----------------------------------------------------------------------------
Handling == eventState \in {"handle", "commit"}

\* The history of a step, from the tables and the loop after it.
Observe ==
  LET current == GetForEvent(TypeOf[event]) IN
  /\ steady' = IF ~Handling' THEN {}
               ELSE IF Handling THEN steady \cap current' ELSE current'
  /\ listed' = IF Handling' THEN listed \cup To(current)' ELSE listed
  /\ owed' = IF eventCommitted' > eventCommitted THEN owed \cup To(steady) ELSE owed

PipelineInit ==
  /\ FeedInit /\ Events!Init
  /\ snapshot = {} /\ deliveries = {}
  /\ steady = {} /\ listed = {} /\ owed = {}

PipelineNext ==
  /\ \/ FeedNext /\ UNCHANGED <<events, eventLoop, handler>>
     \/ EventStep /\ UNCHANGED feed
  /\ Observe

PipelineSpec == PipelineInit /\ [][PipelineNext]_pipeline

-----------------------------------------------------------------------------
(* Properties.                                                              *)

\* The handlers' state and the history are well formed, beside EndpointFeed's.
PipelineTypeOK ==
  /\ TypeOK /\ Events!NothingUnseen
  /\ events \in Seq(Event) /\ eventNext \in 1..(Len(events) + 1)
  /\ snapshot \subseteq SUBSET Endpoint
  /\ snapshot # {} => eventState = "handle"
  /\ deliveries \cup listed \cup owed \subseteq Event \X Endpoint
  /\ steady \subseteq Endpoint

\* An event whose message was committed has a delivery for every endpoint that
\* was subscribed all the while it was handled, whatever else changed in the
\* projection between the read and the insert, and however often either
\* consumer restarted.
OwedIsDelivered == owed \subseteq deliveries

\* A delivery is only made for an endpoint that was subscribed, and active, at
\* some moment while the event was handled: nothing that was read for one
\* message, or before a restart, is used for another.
DeliveredWasListed == deliveries \subseteq listed
===============================================================================
