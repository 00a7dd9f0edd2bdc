----------------------------- MODULE EndpointFeed -----------------------------
(***************************************************************************)
(* The endpoint consumer and its projection: EndpointChanged messages of   *)
(* hookyard.endpoint-events are applied to endpoint_projection and         *)
(* endpoint_subscription_projection, and GetForEvent joins the two.        *)
(*                                                                         *)
(* The topic holds what an at-least-once relay may publish: any change any *)
(* number of times and in any order.  Left out: the columns of an endpoint *)
(* that only travel with its version.                                      *)
(***************************************************************************)
EXTENDS Consumer

CONSTANTS Endpoint, EventType

VARIABLES
  endpoint_projection,   \* by endpoint; version 0 stands for no row
  subscriptions          \* endpoint_subscription_projection

tables == <<endpoint_projection, subscriptions>>
feed == <<vars, tables>>

\* An endpoint is deleted once, with its last version and no event types.
EndpointChanged ==
  {m \in [endpoint : Endpoint, version : Nat \ {0}, active : BOOLEAN,
          types : SUBSET EventType] : m.active \/ m.types = {}}

ASSUME FeedAssumption == Message \subseteq EndpointChanged

\* What Patch and Delete make of changes to one endpoint that follow each other:
\* every change has a version of its own, and none follows the deletion.  Calls
\* that overlap, which can share a version, are not covered here.
Publishable(m) ==
  \A o \in 1..Len(topic) : topic[o].endpoint = m.endpoint =>
    /\ topic[o].version = m.version => topic[o] = m
    /\ topic[o].active \/ m.version <= topic[o].version
    /\ m.active \/ topic[o].version <= m.version

\* Mutants of Upsert: no version guard; old subscriptions are not deleted.
MutUpsertUnguarded(m) ==
  /\ endpoint_projection' = [endpoint_projection EXCEPT ![m.endpoint] =
                               [version |-> m.version, active |-> m.active]]
  /\ subscriptions' = [subscriptions EXCEPT ![m.endpoint] = m.types]

MutUpsertKeepsOld(m) ==
  /\ endpoint_projection' = [endpoint_projection EXCEPT ![m.endpoint] =
       IF @.version < m.version THEN [version |-> m.version, active |-> m.active] ELSE @]
  /\ subscriptions' = [subscriptions EXCEPT ![m.endpoint] = @ \cup m.types]

\* One transaction: the row is guarded by its version, the subscriptions are
\* replaced whatever the version.
Upsert(m) ==
  /\ endpoint_projection' = [endpoint_projection EXCEPT ![m.endpoint] =
       IF @.version < m.version THEN [version |-> m.version, active |-> m.active] ELSE @]
  /\ subscriptions' = [subscriptions EXCEPT ![m.endpoint] = m.types]

GetForEvent(type) ==
  {e \in Endpoint : /\ endpoint_projection[e].version > 0
                    /\ endpoint_projection[e].active
                    /\ type \in subscriptions[e]}

\* The transaction commits, but the handler learns of an error only.
HandlerFailsLate ==
  /\ HandlerFails
  /\ topic[next] \notin Poison
  /\ Upsert(topic[next])

FeedInit ==
  /\ Init
  /\ endpoint_projection = [e \in Endpoint |-> [version |-> 0, active |-> FALSE]]
  /\ subscriptions = [e \in Endpoint |-> {}]

\* The consumer and its handler.
Consume ==
  \/ HandlerSucceeds /\ Upsert(topic[next])
  \/ HandlerFailsLate
  \/ /\ FetchMessage \/ FetchFails \/ HandlerFails \/ CommitMessages \/ CommitFails \/ Restart
     /\ UNCHANGED tables

FeedNext ==
  \/ \E m \in Message : Publishable(m) /\ Produce(m) /\ UNCHANGED tables
  \/ Consume

FeedSpec == FeedInit /\ [][FeedNext]_feed

-----------------------------------------------------------------------------
(* Properties.                                                              *)

TypeOK ==
  /\ topic \in Seq(Message)
  /\ next \in 1..(Len(topic) + 1) /\ committed \in 0..Len(topic)
  /\ state \in Run
  /\ state \in {"handle", "commit"} => next <= Len(topic)
  /\ handled \subseteq 1..Len(topic) /\ failed \subseteq 1..Len(topic)
  /\ errors \in Nat /\ restarts \in Nat
  /\ endpoint_projection \in [Endpoint -> [version : Nat, active : BOOLEAN]]
  /\ subscriptions \in [Endpoint -> SUBSET EventType]

\* Once the deletion of an endpoint has been applied no event is fanned out to
\* it, whatever older messages are redelivered and whichever subscriptions
\* they bring back.
DeletedStaysOut ==
  \A o \in handled, type \in EventType :
    ~topic[o].active => topic[o].endpoint \notin GetForEvent(type)

Newest(o) == \A p \in 1..Len(topic) : topic[p].endpoint = topic[o].endpoint =>
               topic[p].version <= topic[o].version /\ p <= o

\* A consumer that has handled the whole topic and refused nothing has, for each
\* endpoint whose newest change came last, exactly that change: the replays in
\* between leave nothing behind.
CaughtUpIsCurrent ==
  state = "fetch" /\ next > Len(topic) /\ failed = {} =>
    \A o \in 1..Len(topic) : Newest(o) =>
      LET m == topic[o] IN
      /\ endpoint_projection[m.endpoint] = [version |-> m.version, active |-> m.active]
      /\ subscriptions[m.endpoint] = m.types

\* The projection is up to date as a whole: an event is fanned out to an active
\* endpoint exactly if the version that the projection shows subscribes to it.
FannedOutAsSubscribed ==
  \A o \in handled, type \in EventType :
    LET m == topic[o] IN
    endpoint_projection[m.endpoint] = [version |-> m.version, active |-> TRUE]
      => (m.endpoint \in GetForEvent(type) <=> type \in m.types)
===============================================================================
