-------------------------- MODULE EndpointFeedProofs --------------------------
(***************************************************************************)
(* Theorems about EndpointFeed, and about Pipeline, which it is a part of, *)
(* for every set of messages, events and endpoints and every bound on the  *)
(* topics, the errors and the restarts.                                    *)
(***************************************************************************)
EXTENDS Pipeline, EndpointChanges, TLAPS

\* Every action keeps the loop and the tables well formed.
LEMMA FeedTypeStep == TypeOK /\ [FeedNext]_feed => TypeOK'
  <1> USE FeedAssumption
  <1> SUFFICES ASSUME TypeOK, [FeedNext]_feed PROVE TypeOK'
      OBVIOUS
  <1>1. ASSUME NEW m \in Message, Produce(m), UNCHANGED tables PROVE TypeOK'
    <2>1. topic' \in Seq(Message) /\ Len(topic') = Len(topic) + 1 /\ Len(topic) \in Nat
          BY <1>1 DEF TypeOK, Produce
    <2> QED BY <1>1, <2>1 DEF TypeOK, Produce, loop, tables
  <1>2. ASSUME HandlerSucceeds \/ HandlerFails, Upsert(topic[next]) PROVE TypeOK'
    <2>1. next \in 1..Len(topic) /\ topic[next] \in Message
          BY <1>2 DEF TypeOK, HandlerSucceeds, HandlerFails
    <2>2. /\ topic[next].endpoint \in Endpoint /\ topic[next].version \in Nat
          /\ topic[next].active \in BOOLEAN /\ topic[next].types \in SUBSET EventType
          BY <2>1 DEF EndpointChanged
    <2>3. /\ endpoint_projection' \in [Endpoint -> [version : Nat, active : BOOLEAN]]
          /\ subscriptions' \in [Endpoint -> SUBSET EventType]
          BY <1>2, <2>2 DEF TypeOK, Upsert
    <2>4. CASE HandlerSucceeds
          BY <2>1, <2>3, <2>4 DEF TypeOK, HandlerSucceeds, Run
    <2>5. CASE HandlerFails
          BY <2>1, <2>3, <2>5 DEF TypeOK, HandlerFails, Run
    <2> QED BY <1>2, <2>4, <2>5
  <1>3. ASSUME UNCHANGED tables, FetchMessage PROVE TypeOK'
        BY <1>3 DEF TypeOK, tables, FetchMessage, Run
  <1>4. ASSUME UNCHANGED tables, FetchFails PROVE TypeOK'
        BY <1>4 DEF TypeOK, tables, FetchFails, Run
  <1>5. ASSUME UNCHANGED tables, CommitMessages PROVE TypeOK'
        BY <1>5 DEF TypeOK, tables, CommitMessages, Run
  <1>6. ASSUME UNCHANGED tables, HandlerFails PROVE TypeOK'
        BY <1>6 DEF TypeOK, tables, HandlerFails, Run
  <1>7. ASSUME UNCHANGED tables, CommitFails PROVE TypeOK'
        BY <1>7 DEF TypeOK, tables, CommitFails, Run
  <1>8. ASSUME UNCHANGED tables, Restart PROVE TypeOK'
        BY <1>8 DEF TypeOK, tables, Restart, Run
  <1>9. CASE UNCHANGED feed
        BY <1>9 DEF TypeOK, feed, vars, loop, tables
  <1> QED
      BY <1>1, <1>2, <1>3, <1>4, <1>5, <1>6, <1>7, <1>8, <1>9 DEF FeedNext, Consume, HandlerFailsLate

\* The loop's offsets and the two tables are well formed in every reachable
\* state.
THEOREM FeedTyping == FeedSpec => []TypeOK
  <1>1. FeedInit => TypeOK
        BY DEF FeedInit, Init, TypeOK, Run
  <1> QED BY <1>1, FeedTypeStep, PTL DEF FeedSpec

-----------------------------------------------------------------------------
(* Offsets.                                                                 *)

\* Everything before the reader's position has been tried, and only a lost
\* commit lets the committed offset catch up with it.
LoopInv ==
  /\ \A o \in 1..(next - 1) : o \in handled \cup failed
  /\ state = "commit" => next \in handled
  /\ committed <= next
  /\ committed = next => state = "stopped"
  /\ CommitFollowsHandling

LEMMA LoopStep == TypeOK /\ LoopInv /\ [FeedNext]_feed => LoopInv'
  <1> SUFFICES ASSUME TypeOK, LoopInv, [FeedNext]_feed PROVE LoopInv'
      OBVIOUS
  <1> USE DEF LoopInv, CommitFollowsHandling
  <1>1. CASE UNCHANGED loop
        BY <1>1 DEF loop
  <1>2. CASE HandlerSucceeds
        BY <1>2 DEF TypeOK, HandlerSucceeds
  <1>3. CASE FetchMessage \/ FetchFails
        BY <1>3 DEF TypeOK, FetchMessage, FetchFails
  <1>4. CASE HandlerFails
        BY <1>4 DEF TypeOK, HandlerFails
  <1>5. CASE CommitMessages
        BY <1>5 DEF TypeOK, CommitMessages
  <1>6. CASE CommitFails
        BY <1>6 DEF TypeOK, CommitFails
  <1>7. CASE Restart
        BY <1>7 DEF TypeOK, Restart
  <1> QED BY <1>1, <1>2, <1>3, <1>4, <1>5, <1>6, <1>7
         DEF FeedNext, Consume, feed, vars, Produce, HandlerFailsLate

\* No offset the group will not fetch again was passed over without a call of
\* its handler, through any errors, restarts and lost commits.
THEOREM Unseen == FeedSpec => []NothingUnseen
  <1>1. FeedInit => LoopInv
        BY DEF FeedInit, Init, LoopInv, CommitFollowsHandling
  <1>2. TypeOK /\ LoopInv => NothingUnseen
        BY DEF TypeOK, LoopInv, NothingUnseen, CommitFollowsHandling
  <1> QED BY <1>1, <1>2, LoopStep, FeedTyping, PTL DEF FeedSpec

\* What a commit is for was handled.
THEOREM Commits == FeedSpec => []CommitFollowsHandling
  <1>1. FeedInit => LoopInv
        BY DEF FeedInit, Init, LoopInv, CommitFollowsHandling
  <1>2. LoopInv => CommitFollowsHandling
        BY DEF LoopInv
  <1> QED BY <1>1, <1>2, LoopStep, FeedTyping, PTL DEF FeedSpec

\* A message whose handler failed is uncommitted, or a later one was handled and
\* is behind the committed offset too.
SkippedByLater ==
  \A o \in failed \ handled :
    committed < o \/ \E p \in handled : o < p /\ p <= committed

\* Consumer.Run passes over a failed message only by the commit of a later one that
\* was handled: what is left of the promise that it is redelivered.
THEOREM OnlySuccessSkips == FeedSpec => []SkippedByLater
  <1>1. FeedInit => LoopInv
        BY DEF FeedInit, Init, LoopInv, CommitFollowsHandling
  <1>2. TypeOK /\ LoopInv => SkippedByLater
        BY DEF TypeOK, LoopInv, SkippedByLater, CommitFollowsHandling
  <1> QED BY <1>1, <1>2, LoopStep, FeedTyping, PTL DEF FeedSpec

-----------------------------------------------------------------------------
(* Deletions.                                                               *)

\* Messages of one endpoint agree where they have the same version, and a
\* deletion has the last one.
Coherent ==
  \A o, p \in 1..Len(topic) : topic[o].endpoint = topic[p].endpoint =>
    /\ topic[o].version = topic[p].version => topic[o] = topic[p]
    /\ topic[p].active \/ topic[o].version <= topic[p].version

\* The row of an endpoint shows a message that was tried, and none newer was
\* handled.
ShowsNewest ==
  /\ \A e \in Endpoint : endpoint_projection[e].version > 0 =>
       \E o \in handled \cup failed :
         /\ topic[o].endpoint = e
         /\ endpoint_projection[e] = [version |-> topic[o].version, active |-> topic[o].active]
  /\ \A o \in handled :
       topic[o].version <= endpoint_projection[topic[o].endpoint].version

\* What is on the topic stays where it is.
LEMMA Produced ==
  ASSUME TypeOK, NEW m \in Message, Produce(m)
  PROVE  /\ Len(topic) \in Nat /\ Len(topic') = Len(topic) + 1
         /\ \A o \in 1..Len(topic) : topic'[o] = topic[o]
         /\ topic'[Len(topic) + 1] = m
         /\ \A o \in handled \cup failed : o \in 1..Len(topic) /\ topic'[o] = topic[o]
         /\ UNCHANGED <<next, state, handled, failed, restarts>>
  <1>1. topic \in Seq(Message) /\ handled \cup failed \subseteq 1..Len(topic)
        BY DEF TypeOK
  <1>2. topic' = Append(topic, m)
        BY DEF Produce
  <1>3. /\ Len(topic) \in Nat /\ Len(topic') = Len(topic) + 1
        /\ \A o \in 1..Len(topic) : topic'[o] = topic[o]
        /\ topic'[Len(topic) + 1] = m
        BY ONLY <1>1, <1>2, m \in Message
  <1>4. UNCHANGED <<next, state, handled, failed, restarts>>
        BY DEF Produce, loop
  <1> QED BY <1>1, <1>3, <1>4

LEMMA CoherentStep == TypeOK /\ Coherent /\ [FeedNext]_feed => Coherent'
  <1> SUFFICES ASSUME TypeOK, Coherent, [FeedNext]_feed PROVE Coherent'
      OBVIOUS
  <1>1. ASSUME NEW m \in Message, Publishable(m), Produce(m) PROVE Coherent'
    <2>1. /\ Len(topic) \in Nat /\ Len(topic') = Len(topic) + 1
          /\ \A o \in 1..Len(topic) : topic'[o] = topic[o]
          /\ topic'[Len(topic) + 1] = m
          BY <1>1, Produced
    <2>2. m.version \in Nat
          BY FeedAssumption DEF EndpointChanged
    <2>3. \A o \in 1..Len(topic') : o \in 1..Len(topic) \/ o = Len(topic) + 1
          BY <2>1
    <2> QED BY <1>1, <2>1, <2>2, <2>3 DEF Coherent, Publishable
  <1>2. CASE UNCHANGED topic
        BY <1>2 DEF Coherent
  <1> QED
      BY <1>1, <1>2 DEF FeedNext, Consume, feed, vars, FetchMessage, FetchFails, HandlerSucceeds,
         HandlerFails, HandlerFailsLate, CommitMessages, CommitFails, Restart

LEMMA ShowsNewestStep == TypeOK /\ ShowsNewest /\ [FeedNext]_feed => ShowsNewest'
  <1> SUFFICES ASSUME TypeOK, ShowsNewest, [FeedNext]_feed PROVE ShowsNewest'
      OBVIOUS
  <1>1. ASSUME NEW m \in Message, Produce(m), UNCHANGED tables PROVE ShowsNewest'
    <2>1. \A o \in handled \cup failed : topic'[o] = topic[o]
          BY <1>1, Produced
    <2>2. handled' = handled /\ failed' = failed /\ endpoint_projection' = endpoint_projection
          BY <1>1 DEF Produce, loop, tables
    <2>3. ASSUME NEW e \in Endpoint, endpoint_projection[e].version > 0
          PROVE  \E o \in handled \cup failed :
                   /\ topic'[o].endpoint = e
                   /\ endpoint_projection[e]
                        = [version |-> topic'[o].version, active |-> topic'[o].active]
      <3>1. PICK o \in handled \cup failed :
              /\ topic[o].endpoint = e
              /\ endpoint_projection[e] = [version |-> topic[o].version, active |-> topic[o].active]
            BY <2>3 DEF ShowsNewest
      <3> QED BY <2>1, <3>1
    <2>4. \A o \in handled :
            topic'[o].version <= endpoint_projection[topic'[o].endpoint].version
          BY <2>1 DEF ShowsNewest
    <2> QED BY <2>2, <2>3, <2>4 DEF ShowsNewest
  <1>2. ASSUME HandlerSucceeds \/ HandlerFails, Upsert(topic[next]) PROVE ShowsNewest'
    <2> DEFINE m == topic[next]
    <2>1. /\ m \in Message /\ topic' = topic
          /\ handled' \subseteq handled \cup {next}
          /\ (handled \cup failed)' = handled \cup failed \cup {next}
          BY <1>2 DEF TypeOK, HandlerSucceeds, HandlerFails
    <2>2. m.endpoint \in Endpoint /\ m.version \in Nat \ {0}
          BY <2>1, FeedAssumption DEF EndpointChanged
    <2>3. \A e \in Endpoint : endpoint_projection[e].version \in Nat
          BY DEF TypeOK
    <2>4. \A e \in Endpoint \ {m.endpoint} : endpoint_projection'[e] = endpoint_projection[e]
          BY <1>2 DEF Upsert, TypeOK
    <2>5. endpoint_projection'[m.endpoint] =
            IF endpoint_projection[m.endpoint].version < m.version
            THEN [version |-> m.version, active |-> m.active]
            ELSE endpoint_projection[m.endpoint]
          BY <1>2, <2>2 DEF Upsert, TypeOK
    <2>6. ASSUME NEW o \in handled
          PROVE  topic[o].endpoint \in Endpoint /\ topic[o].version \in Nat
          BY FeedAssumption DEF TypeOK, EndpointChanged
    <2>7. ASSUME NEW e \in Endpoint, endpoint_projection'[e].version > 0
          PROVE  \E o \in (handled \cup failed)' :
                   /\ topic'[o].endpoint = e
                   /\ endpoint_projection'[e]
                        = [version |-> topic'[o].version, active |-> topic'[o].active]
      <3>1. CASE endpoint_projection'[e] = endpoint_projection[e]
            BY <2>1, <2>7, <3>1 DEF ShowsNewest
      <3>2. CASE endpoint_projection'[e] # endpoint_projection[e]
            BY <2>1, <2>4, <2>5, <3>2
      <3> QED BY <3>1, <3>2
    <2>8. ASSUME NEW o \in handled'
          PROVE  topic'[o].version <= endpoint_projection'[topic'[o].endpoint].version
      <3>1. CASE o = next
            BY <2>1, <2>2, <2>3, <2>5, <3>1
      <3>2. CASE o \in handled
        <4>1. topic[o].version <= endpoint_projection[topic[o].endpoint].version
              BY <3>2 DEF ShowsNewest
        <4> QED BY <2>1, <2>2, <2>3, <2>4, <2>5, <2>6, <3>2, <4>1
      <3> QED BY <2>1, <3>1, <3>2
    <2> QED BY <2>7, <2>8 DEF ShowsNewest
  <1>3. CASE UNCHANGED <<topic, handled, tables>> /\ failed \subseteq failed'
        BY <1>3 DEF ShowsNewest, tables
  <1> QED
      BY <1>1, <1>2, <1>3 DEF FeedNext, Consume, feed, vars, loop, FetchMessage, FetchFails,
         HandlerFails, HandlerFailsLate, CommitMessages, CommitFails, Restart

\* Once an endpoint's deletion has been applied it gets no further event,
\* whatever is redelivered.
THEOREM Deleted == FeedSpec => []DeletedStaysOut
  <1>1. FeedInit => Coherent /\ ShowsNewest
        BY DEF FeedInit, Init, Coherent, ShowsNewest
  <1>2. TypeOK /\ Coherent /\ ShowsNewest => DeletedStaysOut
    <2> SUFFICES ASSUME TypeOK, Coherent, ShowsNewest, NEW o \in handled, ~topic[o].active,
                        endpoint_projection[topic[o].endpoint].active,
                        endpoint_projection[topic[o].endpoint].version > 0
                 PROVE  FALSE
        BY DEF DeletedStaysOut, GetForEvent
    <2> USE DEF TypeOK
    <2>1. ASSUME NEW q \in handled \cup failed
          PROVE  q \in 1..Len(topic) /\ topic[q].endpoint \in Endpoint /\ topic[q].version \in Nat
      <3>1. q \in 1..Len(topic)
            OBVIOUS
      <3>2. topic[q] \in Message
            BY <3>1
      <3> QED BY <3>1, <3>2, FeedAssumption DEF EndpointChanged
    <2> HIDE DEF TypeOK
    <2>2. PICK p \in handled \cup failed :
            /\ topic[p].endpoint = topic[o].endpoint
            /\ endpoint_projection[topic[o].endpoint]
                 = [version |-> topic[p].version, active |-> topic[p].active]
          BY <2>1 DEF ShowsNewest
    <2>3. topic[o].version <= topic[p].version
          BY <2>2 DEF ShowsNewest
    <2>4. topic[p].version <= topic[o].version
          BY <2>1, <2>2 DEF Coherent
    <2>5. topic[p] = topic[o]
          BY <2>1, <2>2, <2>3, <2>4 DEF Coherent
    <2> QED BY <2>2, <2>5
  <1> QED BY <1>1, <1>2, CoherentStep, ShowsNewestStep, FeedTyping, PTL DEF FeedSpec

-----------------------------------------------------------------------------
(* CaughtUpIsCurrent.                                                       *)

\* Offsets that the reader is past, or that a restart would take it past.
Done ==
  {o \in 1..Len(topic) : o < next \/ (o = next /\ (state = "commit" \/ committed = next))}

\* A restart repeats messages in their order, so the subscriptions of an endpoint
\* never come from a message before the last one that is done.
AppliedInv ==
  failed = {} =>
    \A o \in Done : \E q \in 1..Len(topic) :
      /\ q >= o /\ topic[q].endpoint = topic[o].endpoint
      /\ subscriptions[topic[o].endpoint] = topic[q].types

LEMMA AppliedStep == TypeOK /\ LoopInv /\ AppliedInv /\ [FeedNext]_feed => AppliedInv'
  <1> SUFFICES ASSUME TypeOK, LoopInv, AppliedInv, [FeedNext]_feed PROVE AppliedInv'
      OBVIOUS
  <1>0. /\ Len(topic) \in Nat /\ next \in 1..(Len(topic) + 1) /\ committed \in 0..Len(topic)
        /\ state \in {"handle", "commit"} => next <= Len(topic)
        /\ committed <= next
        BY DEF TypeOK, LoopInv
  <1>1. ASSUME NEW m \in Message, Produce(m), UNCHANGED tables PROVE AppliedInv'
    <2>1. /\ Len(topic') = Len(topic) + 1
          /\ \A o \in 1..Len(topic) : topic'[o] = topic[o]
          /\ UNCHANGED <<next, state, committed, failed, subscriptions>>
          BY <1>1 DEF TypeOK, Produce, loop, tables
    <2>2. Done' = Done
          BY <1>0, <2>1 DEF Done
    <2>3. \A q \in 1..Len(topic) : q \in 1..Len(topic')
          BY <1>0, <2>1
    <2>4. Done \subseteq 1..Len(topic)
          BY DEF Done
    <2> QED BY <2>1, <2>2, <2>3, <2>4 DEF AppliedInv
  <1>2. ASSUME HandlerSucceeds, Upsert(topic[next]) PROVE AppliedInv'
    <2>1. /\ topic' = topic /\ next' = next /\ committed' = committed /\ failed' = failed
          /\ next \in 1..Len(topic) /\ topic[next] \in Message
          BY <1>0, <1>2 DEF TypeOK, HandlerSucceeds
    <2>2. topic[next].endpoint \in Endpoint
          BY <2>1, FeedAssumption DEF EndpointChanged
    <2>3. \A e \in Endpoint : subscriptions'[e] =
            IF e = topic[next].endpoint THEN topic[next].types ELSE subscriptions[e]
          BY <1>2, <2>2 DEF Upsert, TypeOK
    <2>4. ASSUME failed = {}, NEW o \in Done'
          PROVE  \E q \in 1..Len(topic) :
                   /\ q >= o /\ topic[q].endpoint = topic[o].endpoint
                   /\ subscriptions'[topic[o].endpoint] = topic[q].types
      <3>1. o \in 1..Len(topic) /\ o <= next /\ topic[o] \in Message
            BY <1>0, <2>1 DEF Done, TypeOK
      <3>2. topic[o].endpoint \in Endpoint
            BY <3>1, FeedAssumption DEF EndpointChanged
      <3>3. CASE topic[o].endpoint = topic[next].endpoint
            BY <1>0, <2>1, <2>3, <3>1, <3>2, <3>3
      <3>4. CASE topic[o].endpoint # topic[next].endpoint
        <4>1. o \in Done
              BY <1>0, <2>1, <3>1, <3>4 DEF Done
        <4>2. PICK q \in 1..Len(topic) :
                /\ q >= o /\ topic[q].endpoint = topic[o].endpoint
                /\ subscriptions[topic[o].endpoint] = topic[q].types
              BY <2>4, <4>1 DEF AppliedInv
        <4> QED BY <2>3, <3>2, <3>4, <4>2
      <3> QED BY <3>3, <3>4
    <2> QED BY <2>1, <2>4 DEF AppliedInv
  <1>3. CASE HandlerFails
    <2>1. failed' # {}
          BY <1>3 DEF HandlerFails
    <2> QED BY <2>1 DEF AppliedInv
  <1>4. ASSUME UNCHANGED <<topic, subscriptions, failed>>, Done' \subseteq Done PROVE AppliedInv'
        BY <1>4 DEF AppliedInv
  <1>5. ASSUME UNCHANGED tables,
               FetchMessage \/ FetchFails \/ CommitMessages \/ CommitFails \/ Restart
        PROVE  AppliedInv'
    <2>1. UNCHANGED <<topic, subscriptions, failed>>
          BY <1>5 DEF tables, FetchMessage, FetchFails, CommitMessages, CommitFails, Restart
    <2>2. CASE FetchMessage \/ FetchFails
      <3>1. Done' \subseteq Done
            BY <2>2 DEF Done, FetchMessage, FetchFails
      <3> QED BY <1>4, <2>1, <3>1
    <2>3. CASE CommitMessages \/ CommitFails
      <3>1. Done' \subseteq Done
            BY <1>0, <2>3 DEF Done, CommitMessages, CommitFails
      <3> QED BY <1>4, <2>1, <3>1
    <2>4. CASE Restart
      <3>1. Done' \subseteq Done
            BY <1>0, <2>4 DEF Done, Restart
      <3> QED BY <1>4, <2>1, <3>1
    <2> QED BY <1>5, <2>2, <2>3, <2>4
  <1>6. CASE UNCHANGED feed
    <2>1. UNCHANGED <<topic, subscriptions, failed>> /\ Done' \subseteq Done
          BY <1>6 DEF feed, vars, loop, tables, Done
    <2> QED BY <1>4, <2>1
  <1> QED
      BY <1>1, <1>2, <1>3, <1>5, <1>6 DEF FeedNext, Consume, HandlerFailsLate

\* A consumer that has handled its whole topic has, for each endpoint whose newest
\* change came last, that change, whatever it went through.
THEOREM Current == FeedSpec => []CaughtUpIsCurrent
  <1>1. FeedInit => LoopInv /\ Coherent /\ ShowsNewest /\ AppliedInv
        BY DEF FeedInit, Init, LoopInv, CommitFollowsHandling, Coherent, ShowsNewest, AppliedInv, Done
  <1>2. TypeOK /\ LoopInv /\ Coherent /\ ShowsNewest /\ AppliedInv => CaughtUpIsCurrent
    <2> SUFFICES ASSUME TypeOK, LoopInv, Coherent, ShowsNewest, AppliedInv, state = "fetch",
                        next > Len(topic), failed = {}, NEW o \in 1..Len(topic), Newest(o)
                 PROVE  LET m == topic[o] IN
                        /\ endpoint_projection[m.endpoint] = [version |-> m.version, active |-> m.active]
                        /\ subscriptions[m.endpoint] = m.types
        BY DEF CaughtUpIsCurrent
    <2>1. /\ Len(topic) \in Nat /\ next \in Nat /\ handled \subseteq 1..Len(topic)
          /\ \A q \in 1..Len(topic) : topic[q] \in Message
          BY DEF TypeOK
    <2>2. o \in Done
          BY <2>1 DEF Done
    <2>3. PICK q \in 1..Len(topic) :
            /\ q >= o /\ topic[q].endpoint = topic[o].endpoint
            /\ subscriptions[topic[o].endpoint] = topic[q].types
          BY <2>2 DEF AppliedInv
    <2>4. q = o
          BY <2>1, <2>3 DEF Newest
    <2>5. o \in handled
          BY <2>1 DEF LoopInv
    <2>6. /\ topic[o].endpoint \in Endpoint
          /\ \A p \in 1..Len(topic) : topic[p].version \in Nat \ {0}
          BY <2>1, FeedAssumption DEF EndpointChanged
    <2>7. topic[o].version <= endpoint_projection[topic[o].endpoint].version
          BY <2>5 DEF ShowsNewest
    <2>8. endpoint_projection[topic[o].endpoint].version > 0
          BY <2>6, <2>7 DEF TypeOK
    <2>9. PICK p \in handled \cup failed :
            /\ topic[p].endpoint = topic[o].endpoint
            /\ endpoint_projection[topic[o].endpoint]
                 = [version |-> topic[p].version, active |-> topic[p].active]
          BY <2>6, <2>8 DEF ShowsNewest
    <2>10. p \in 1..Len(topic) /\ topic[p].version <= topic[o].version
           BY <2>1, <2>9 DEF Newest
    <2>11. topic[p].version = topic[o].version
           BY <2>6, <2>7, <2>9, <2>10
    <2>12. topic[p] = topic[o]
           BY <2>9, <2>10, <2>11 DEF Coherent
    <2> QED BY <2>3, <2>4, <2>9, <2>12
  <1> QED BY <1>1, <1>2, LoopStep, CoherentStep, ShowsNewestStep, AppliedStep, FeedTyping, PTL DEF FeedSpec

-----------------------------------------------------------------------------
(* Pipeline: the event consumer beside the endpoint consumer.                *)

\* What EndpointFeed promises holds beside the event consumer: FeedTyping, Unseen,
\* Deleted and Current are about PipelineSpec too.
THEOREM PipelineFeeds == PipelineSpec => FeedSpec
  <1>1. PipelineInit => FeedInit
        BY DEF PipelineInit
  <1>2. [PipelineNext]_pipeline => [FeedNext]_feed
        BY DEF PipelineNext, pipeline
  <1> QED BY <1>1, <1>2, PTL DEF PipelineSpec, FeedSpec

\* The event consumer's loop, as LoopInv has the other's.
EventLoopInv ==
  /\ events \in Seq(Event)
  /\ eventNext \in 1..(Len(events) + 1) /\ eventCommitted \in 0..Len(events)
  /\ Handling => eventNext <= Len(events)
  /\ \A o \in 1..(eventNext - 1) : o \in eventHandled \cup eventFailed
  /\ eventState = "commit" => eventNext \in eventHandled
  /\ eventCommitted <= eventNext
  /\ eventCommitted = eventNext => eventState = "stopped"
  /\ eventCommitted > 0 => eventCommitted \in eventHandled

LEMMA EventLoopStep == EventLoopInv /\ [PipelineNext]_pipeline => EventLoopInv'
  <1> SUFFICES ASSUME EventLoopInv, [PipelineNext]_pipeline PROVE EventLoopInv'
      OBVIOUS
  <1>1. ASSUME NEW e \in Event, Events!Produce(e) PROVE EventLoopInv'
    <2>1. /\ events' \in Seq(Event) /\ Len(events') = Len(events) + 1 /\ Len(events) \in Nat
          /\ UNCHANGED eventLoop
          BY <1>1 DEF EventLoopInv, Events!Produce, Events!loop, eventLoop
    <2> QED BY <2>1 DEF EventLoopInv, Handling, eventLoop
  <1>2. CASE Events!FetchMessage \/ Events!FetchFails
        BY <1>2 DEF EventLoopInv, Handling, Events!FetchMessage, Events!FetchFails
  <1>3. CASE Events!HandlerSucceeds
        BY <1>3 DEF EventLoopInv, Handling, Events!HandlerSucceeds
  <1>4. CASE Events!HandlerFails
        BY <1>4 DEF EventLoopInv, Handling, Events!HandlerFails
  <1>5. CASE Events!CommitMessages
        BY <1>5 DEF EventLoopInv, Handling, Events!CommitMessages
  <1>6. CASE Events!CommitFails
        BY <1>6 DEF EventLoopInv, Handling, Events!CommitFails
  <1>7. CASE Events!Restart
        BY <1>7 DEF EventLoopInv, Handling, Events!Restart
  <1>8. CASE UNCHANGED <<events, eventLoop>>
        BY <1>8 DEF EventLoopInv, Handling, eventLoop
  <1> QED
      BY <1>1, <1>2, <1>3, <1>4, <1>5, <1>6, <1>7, <1>8
      DEF PipelineNext, EventStep, pipeline, GetEndpoints, CreateDeliveries, EventHandlerFails, RestartEvents

\* The loop stays at its event until it is committed or given up.
LEMMA SameEvent ==
  ASSUME EventLoopInv, PipelineNext
  PROVE  /\ Handling /\ Handling' => event' = event
         /\ eventCommitted' > eventCommitted => eventState = "commit"
         /\ eventState' = "commit" => Handling
  <1>0. eventNext \in Nat /\ eventCommitted \in Nat
        BY DEF EventLoopInv
  <1>1. ASSUME NEW e \in Event, Events!Produce(e)
        PROVE  UNCHANGED eventLoop /\ (Handling => event' = event)
    <2>1. UNCHANGED eventLoop
          BY <1>1 DEF Events!Produce, Events!loop, eventLoop
    <2>2. ASSUME Handling PROVE event' = event
          BY <1>1, <2>1, <2>2 DEF EventLoopInv, Events!Produce, event, eventLoop
    <2> QED BY <2>1, <2>2
  <1>2. CASE UNCHANGED eventLoop /\ (Handling => event' = event)
        BY <1>0, <1>2 DEF eventLoop, Handling
  <1>3. CASE UNCHANGED <<events, eventLoop>>
    <2>1. event' = event
          BY <1>3 DEF event, eventLoop
    <2> QED BY <1>2, <1>3, <2>1
  <1>4. CASE \/ Events!FetchMessage \/ Events!FetchFails \/ Events!HandlerSucceeds \/ Events!HandlerFails
             \/ Events!CommitMessages \/ Events!CommitFails \/ Events!Restart
        BY <1>0, <1>4 DEF event, Handling, Events!FetchMessage, Events!FetchFails, Events!HandlerSucceeds,
               Events!HandlerFails, Events!CommitMessages, Events!CommitFails, Events!Restart
  <1> QED
      BY <1>1, <1>2, <1>3, <1>4
      DEF PipelineNext, EventStep, GetEndpoints, CreateDeliveries, EventHandlerFails, RestartEvents

-----------------------------------------------------------------------------
(* What is owed and what was listed.                                         *)

\* Whom the projection lists for the event at hand.
Listing == GetForEvent(TypeOf[event])

HandlerTypeOK ==
  /\ snapshot \subseteq SUBSET Endpoint
  /\ snapshot # {} => eventState = "handle"
  /\ deliveries \cup listed \cup owed \subseteq Event \X Endpoint
  /\ steady \subseteq Endpoint

\* What was read for the event covers whoever is listed since before, and was
\* listed; from the inserts on the deliveries do.
OwedInv ==
  /\ snapshot # {} => steady \subseteq UNION snapshot
  /\ eventState = "commit" => To(steady) \subseteq deliveries
  /\ Handling => To(UNION snapshot) \subseteq listed
  /\ owed \subseteq deliveries
  /\ deliveries \subseteq listed

LEMMA Observed ==
  ASSUME PipelineNext
  PROVE  /\ steady' = IF ~Handling' THEN {}
                      ELSE IF Handling THEN steady \cap Listing' ELSE Listing'
         /\ listed' = IF Handling' THEN listed \cup To(Listing)' ELSE listed
         /\ owed' = IF eventCommitted' > eventCommitted THEN owed \cup To(steady) ELSE owed
  BY DEF PipelineNext, Observe, Listing

\* What a step does to the handler's variables.
LEMMA HandlerMoves ==
  ASSUME HandlerTypeOK, PipelineNext
  PROVE  \/ snapshot' = snapshot /\ deliveries' = deliveries
            /\ (snapshot # {} => eventState' = "handle")
            /\ (eventState' = "commit" => eventState = "commit")
         \/ snapshot' = {Listing} /\ deliveries' = deliveries /\ UNCHANGED <<feed, events, eventLoop>>
            /\ eventState = "handle"
         \/ snapshot' = {} /\ deliveries' = deliveries \cup To(UNION snapshot)
            /\ snapshot # {} /\ eventState = "handle"
         \/ snapshot' = {} /\ deliveries' \in {deliveries, deliveries \cup To(UNION snapshot)}
            /\ eventState' = "fetch" /\ eventState = "handle"
         \/ snapshot' = {} /\ deliveries' = deliveries /\ eventState' = "fetch"
  <1>1. CASE FeedNext /\ UNCHANGED <<events, eventLoop, handler>>
        BY <1>1 DEF HandlerTypeOK, handler, eventLoop
  <1>2. ASSUME NEW e \in Event, Events!Produce(e), UNCHANGED handler
        PROVE  /\ snapshot' = snapshot /\ deliveries' = deliveries /\ eventState' = eventState
        BY <1>2 DEF Events!Produce, Events!loop, handler
  <1>3. CASE GetEndpoints /\ UNCHANGED feed
        BY <1>3 DEF GetEndpoints, Listing
  <1>4. CASE CreateDeliveries
        BY <1>4 DEF CreateDeliveries, Events!HandlerSucceeds
  <1>5. CASE EventHandlerFails
        BY <1>5 DEF EventHandlerFails, Events!HandlerFails
  <1>6. CASE RestartEvents
        BY <1>6 DEF RestartEvents, Events!Restart
  <1>7. CASE /\ Events!FetchMessage \/ Events!FetchFails \/ Events!CommitMessages \/ Events!CommitFails
             /\ UNCHANGED handler
        BY <1>7 DEF HandlerTypeOK, handler, Events!FetchMessage, Events!FetchFails, Events!CommitMessages,
               Events!CommitFails
  <1>8. ASSUME snapshot' = snapshot, deliveries' = deliveries, eventState' = eventState
        PROVE  /\ snapshot # {} => eventState' = "handle"
               /\ eventState' = "commit" => eventState = "commit"
        BY <1>8 DEF HandlerTypeOK
  <1> QED BY <1>1, <1>2, <1>3, <1>4, <1>5, <1>6, <1>7, <1>8 DEF PipelineNext, EventStep

LEMMA HandlerTypeStep ==
  EventLoopInv /\ HandlerTypeOK /\ [PipelineNext]_pipeline => HandlerTypeOK'
  <1>1. ASSUME EventLoopInv, HandlerTypeOK, PipelineNext PROVE HandlerTypeOK'
    <2>1. EventLoopInv'
          BY <1>1, EventLoopStep
    <2>2. Handling => event \in Event
          BY <1>1 DEF EventLoopInv, event
    <2>3. Handling' => event' \in Event
          BY <2>1 DEF EventLoopInv, event
    <2>4. Listing \subseteq Endpoint /\ Listing' \subseteq Endpoint
          BY DEF Listing, GetForEvent
    <2>5. steady' \subseteq Endpoint
          BY <1>1, <2>4, Observed DEF HandlerTypeOK
    <2>6. listed' \subseteq Event \X Endpoint
          BY <1>1, <2>3, <2>4, Observed DEF HandlerTypeOK, To
    <2>7. owed' \subseteq Event \X Endpoint
      <3>1. CASE eventCommitted' > eventCommitted
        <4>1. event \in Event
              BY <1>1, <2>2, <3>1, SameEvent DEF Handling
        <4> QED BY <1>1, <4>1, Observed DEF HandlerTypeOK, To
      <3>2. CASE ~(eventCommitted' > eventCommitted)
            BY <1>1, <3>2, Observed DEF HandlerTypeOK
      <3> QED BY <3>1, <3>2
    <2>8. UNION snapshot \subseteq Endpoint
          BY <1>1 DEF HandlerTypeOK
    <2>9. deliveries' \subseteq Event \X Endpoint
      <3>1. eventState = "handle" => To(UNION snapshot) \subseteq Event \X Endpoint
            BY <2>2, <2>8 DEF To, Handling
      <3> QED BY <1>1, <3>1, HandlerMoves DEF HandlerTypeOK
    <2>10. snapshot' \subseteq SUBSET Endpoint /\ (snapshot' # {} => eventState' = "handle")
          BY <1>1, <2>4, HandlerMoves DEF HandlerTypeOK, eventLoop
    <2> QED BY <2>5, <2>6, <2>7, <2>9, <2>10 DEF HandlerTypeOK
  <1>2. ASSUME HandlerTypeOK, UNCHANGED pipeline PROVE HandlerTypeOK'
        BY <1>2 DEF HandlerTypeOK, pipeline, handler, history, eventLoop
  <1> QED BY <1>1, <1>2

\* Both loops, the tables, the handlers' state and the history are well formed,
\* and no event was passed over.
THEOREM PipelineTyping == PipelineSpec => []PipelineTypeOK
  <1>1. PipelineInit => EventLoopInv /\ HandlerTypeOK
        BY DEF PipelineInit, Events!Init, EventLoopInv, HandlerTypeOK, Handling
  <1>2. TypeOK /\ EventLoopInv /\ HandlerTypeOK => PipelineTypeOK
    <2> SUFFICES ASSUME EventLoopInv PROVE Events!NothingUnseen
        BY DEF PipelineTypeOK, EventLoopInv, HandlerTypeOK
    <2> QED BY DEF EventLoopInv, Events!NothingUnseen
  <1> QED BY <1>1, <1>2, EventLoopStep, HandlerTypeStep, FeedTyping, PipelineFeeds, PTL DEF PipelineSpec

\* Pairs follow their endpoints, and the history only shrinks what is steady.
LEMMA PairsFollow ==
  /\ \A S, T : S \subseteq T => To(S) \subseteq To(T)
  /\ To({}) = {} /\ UNION {} = {}
  BY DEF To

LEMMA OwedStep ==
  EventLoopInv /\ HandlerTypeOK /\ OwedInv /\ [PipelineNext]_pipeline => OwedInv'
  <1>1. ASSUME EventLoopInv, HandlerTypeOK, OwedInv, PipelineNext PROVE OwedInv'
    <2>1. /\ Handling /\ Handling' => event' = event
          /\ eventCommitted' > eventCommitted => eventState = "commit"
          /\ eventState' = "commit" => Handling
          BY <1>1, SameEvent
    <2>2. /\ listed \subseteq listed'
          /\ Handling' => To(Listing)' \subseteq listed'
          /\ Handling /\ Handling' => steady' \subseteq steady
          BY <1>1, Observed
    <2>3. To(UNION snapshot) \subseteq listed \/ ~Handling
          BY <1>1 DEF OwedInv
    <2>4. owed' \subseteq deliveries
      <3>1. CASE eventCommitted' > eventCommitted
            BY <1>1, <2>1, <3>1, Observed DEF OwedInv
      <3>2. CASE ~(eventCommitted' > eventCommitted)
            BY <1>1, <3>2, Observed DEF OwedInv
      <3> QED BY <3>1, <3>2
    <2>5. deliveries \subseteq deliveries' /\ deliveries' \subseteq listed
      <3>1. eventState = "handle" => To(UNION snapshot) \subseteq listed
            BY <2>3 DEF Handling
      <3> QED BY <1>1, <3>1, HandlerMoves DEF OwedInv
    <2>6. ASSUME snapshot' # {} PROVE steady' \subseteq UNION snapshot'
      <3>1. CASE snapshot' = snapshot
        <4>1. Handling /\ Handling'
              BY <1>1, <2>6, <3>1, HandlerMoves DEF HandlerTypeOK, Handling, eventLoop
        <4> QED BY <1>1, <2>2, <2>6, <3>1, <4>1 DEF OwedInv
      <3>2. CASE snapshot' = {Listing} /\ UNCHANGED <<feed, events, eventLoop>> /\ eventState = "handle"
        <4>1. Listing' = Listing /\ Handling /\ Handling'
              BY <3>2 DEF Listing, event, eventLoop, GetForEvent, feed, tables, Handling
        <4>2. steady' \subseteq Listing
              BY <1>1, <4>1, Observed
        <4> QED BY <3>2, <4>2
      <3> QED BY <1>1, <2>6, <3>1, <3>2, HandlerMoves
    <2>7. ASSUME eventState' = "commit" PROVE To(steady)' \subseteq deliveries'
      <3>1. Handling /\ Handling'
            BY <2>1, <2>7 DEF Handling
      <3>2. To(steady)' \subseteq To(steady)
            BY <2>1, <2>2, <3>1 DEF To
      <3>3. CASE eventState = "commit"
            BY <1>1, <2>5, <3>2, <3>3 DEF OwedInv
      <3>4. CASE eventState # "commit"
        <4>1. snapshot # {} /\ deliveries' = deliveries \cup To(UNION snapshot)
              BY <1>1, <2>7, <3>4, HandlerMoves DEF eventLoop
        <4>2. To(steady) \subseteq To(UNION snapshot)
              BY <1>1, <4>1, PairsFollow DEF OwedInv
        <4> QED BY <3>2, <4>1, <4>2
      <3> QED BY <3>3, <3>4
    <2>8. ASSUME Handling' PROVE To(UNION snapshot)' \subseteq listed'
      <3>1. CASE snapshot' = {}
        <4>1. To(UNION snapshot)' = {}
              BY <3>1 DEF To
        <4> QED BY <4>1
      <3>2. CASE snapshot' = snapshot /\ snapshot # {}
        <4>1. Handling
              BY <1>1, <3>2 DEF HandlerTypeOK, Handling
        <4>2. To(UNION snapshot)' = To(UNION snapshot)
              BY <2>1, <2>8, <3>2, <4>1 DEF To
        <4> QED BY <2>2, <2>3, <4>1, <4>2
      <3>3. CASE snapshot' = {Listing} /\ UNCHANGED <<feed, events, eventLoop>>
        <4>1. Listing' = Listing
              BY <3>3 DEF Listing, event, eventLoop, GetForEvent, feed, tables
        <4>2. To(UNION snapshot)' = To(Listing)'
              BY <3>3, <4>1 DEF To
        <4> QED BY <2>2, <2>8, <4>2
      <3> QED BY <1>1, <3>1, <3>2, <3>3, HandlerMoves
    <2> QED BY <2>2, <2>4, <2>5, <2>6, <2>7, <2>8 DEF OwedInv
  <1>2. ASSUME OwedInv, UNCHANGED pipeline PROVE OwedInv'
        BY <1>2 DEF OwedInv, pipeline, handler, history, eventLoop, Handling, To, event
  <1> QED BY <1>1, <1>2

LEMMA Fanned == PipelineSpec => []OwedInv
  <1>1. PipelineInit => EventLoopInv /\ HandlerTypeOK /\ OwedInv
        BY PairsFollow DEF PipelineInit, Events!Init, EventLoopInv, HandlerTypeOK, OwedInv, Handling
  <1> QED BY <1>1, EventLoopStep, HandlerTypeStep, OwedStep, PTL DEF PipelineSpec

\* An event that was committed has a delivery for every endpoint that was
\* subscribed all the while, whatever the two consumers did to each other.
THEOREM Owed == PipelineSpec => []OwedIsDelivered
  <1>1. OwedInv => OwedIsDelivered
        BY DEF OwedInv, OwedIsDelivered
  <1> QED BY <1>1, Fanned, PTL

\* A delivery is only made for an endpoint that was subscribed at some moment
\* while its event was handled.
THEOREM Listed == PipelineSpec => []DeliveredWasListed
  <1>1. OwedInv => DeliveredWasListed
        BY DEF OwedInv, DeliveredWasListed
  <1> QED BY <1>1, Fanned, PTL

-----------------------------------------------------------------------------
(* FannedOutAsSubscribed, which a topic that is out of order breaks.        *)

VersionOrder ==
  \A o, p \in 1..Len(topic) : o < p /\ topic[o].endpoint = topic[p].endpoint =>
    topic[o].version <= topic[p].version

\* Row and subscriptions of an endpoint come from one message, and the reader
\* has not gone back behind what was tried.
FollowsTopic ==
  /\ \A o \in handled \cup failed : o <= next
  /\ \A e \in Endpoint : endpoint_projection[e].version > 0 =>
       \E o \in handled \cup failed :
         /\ topic[o].endpoint = e
         /\ endpoint_projection[e] = [version |-> topic[o].version, active |-> topic[o].active]
         /\ subscriptions[e] = topic[o].types

FollowsInv == VersionOrder /\ restarts = 0 => FollowsTopic

LEMMA FollowsStep == TypeOK /\ Coherent /\ FollowsInv /\ [FeedNext]_feed => FollowsInv'
  <1> SUFFICES ASSUME TypeOK, Coherent, FollowsInv, [FeedNext]_feed,
                      VersionOrder', restarts' = 0
               PROVE  FollowsTopic'
      BY DEF FollowsInv
  <1>0. /\ Len(topic) \in Nat /\ next \in Nat /\ restarts \in Nat
        /\ handled \cup failed \subseteq 1..Len(topic)
        BY DEF TypeOK
  <1>1. ASSUME NEW m \in Message, Produce(m), UNCHANGED tables PROVE FollowsTopic'
    <2>1. /\ Len(topic') = Len(topic) + 1
          /\ \A o \in 1..Len(topic) : topic'[o] = topic[o]
          /\ UNCHANGED <<next, handled, failed, restarts, endpoint_projection, subscriptions>>
          BY <1>1, Produced DEF tables
    <2>2. VersionOrder
          BY <1>0, <2>1 DEF VersionOrder
    <2>3. FollowsTopic
          BY <2>1, <2>2 DEF FollowsInv
    <2>4. \A o \in handled \cup failed : topic'[o] = topic[o]
          BY <1>1, Produced
    <2>5. ASSUME NEW e \in Endpoint, endpoint_projection[e].version > 0
          PROVE  \E o \in handled \cup failed :
                   /\ topic'[o].endpoint = e
                   /\ endpoint_projection[e]
                        = [version |-> topic'[o].version, active |-> topic'[o].active]
                   /\ subscriptions[e] = topic'[o].types
      <3>1. PICK o \in handled \cup failed :
              /\ topic[o].endpoint = e
              /\ endpoint_projection[e] = [version |-> topic[o].version, active |-> topic[o].active]
              /\ subscriptions[e] = topic[o].types
            BY <2>3, <2>5 DEF FollowsTopic
      <3> QED BY <2>4, <3>1
    <2> QED BY <2>1, <2>3, <2>5 DEF FollowsTopic
  <1>2. ASSUME HandlerSucceeds \/ HandlerFails, Upsert(topic[next]) PROVE FollowsTopic'
    <2> DEFINE m == topic[next]
    <2>1. /\ m \in Message /\ next \in 1..Len(topic) /\ topic' = topic
          /\ next <= next' /\ next' \in Nat /\ restarts' = restarts
          /\ (handled \cup failed)' = handled \cup failed \cup {next}
          BY <1>2 DEF TypeOK, HandlerSucceeds, HandlerFails
    <2>2. FollowsTopic /\ VersionOrder
          BY <2>1 DEF FollowsInv, VersionOrder
    <2>3. m.endpoint \in Endpoint /\ m.version \in Nat \ {0}
          BY <2>1, FeedAssumption DEF EndpointChanged
    <2>4. \A e \in Endpoint \ {m.endpoint} :
            endpoint_projection'[e] = endpoint_projection[e] /\ subscriptions'[e] = subscriptions[e]
          BY <1>2 DEF Upsert, TypeOK
    <2>5. /\ subscriptions'[m.endpoint] = m.types
          /\ endpoint_projection'[m.endpoint] =
               IF endpoint_projection[m.endpoint].version < m.version
               THEN [version |-> m.version, active |-> m.active]
               ELSE endpoint_projection[m.endpoint]
          BY <1>2, <2>3 DEF Upsert, TypeOK
    <2>6. endpoint_projection'[m.endpoint] = [version |-> m.version, active |-> m.active]
      <3>1. CASE endpoint_projection[m.endpoint].version < m.version
            BY <2>5, <3>1
      <3>2. CASE ~(endpoint_projection[m.endpoint].version < m.version)
        <4>1. endpoint_projection[m.endpoint].version \in Nat
              BY <2>3 DEF TypeOK
        <4>2. PICK o \in handled \cup failed :
                /\ topic[o].endpoint = m.endpoint
                /\ endpoint_projection[m.endpoint]
                     = [version |-> topic[o].version, active |-> topic[o].active]
              BY <2>2, <2>3, <3>2, <4>1 DEF FollowsTopic
        <4>3. o \in 1..Len(topic) /\ o <= next
              BY <1>0, <2>2 DEF FollowsTopic
        <4>4. topic[o].version <= m.version
              BY <1>0, <2>1, <2>2, <2>3, <4>2, <4>3 DEF VersionOrder
        <4>5. topic[o] = m
              BY <2>1, <2>3, <3>2, <4>1, <4>2, <4>3, <4>4 DEF Coherent
        <4> QED BY <2>5, <3>2, <4>2, <4>5
      <3> QED BY <3>1, <3>2
    <2>7. \A o \in (handled \cup failed)' : o <= next'
          BY <1>0, <2>1, <2>2 DEF FollowsTopic
    <2>8. ASSUME NEW e \in Endpoint, endpoint_projection'[e].version > 0
          PROVE  \E o \in (handled \cup failed)' :
                   /\ topic'[o].endpoint = e
                   /\ endpoint_projection'[e]
                        = [version |-> topic'[o].version, active |-> topic'[o].active]
                   /\ subscriptions'[e] = topic'[o].types
      <3>1. CASE e = m.endpoint
            BY <2>1, <2>5, <2>6, <3>1
      <3>2. CASE e # m.endpoint
            BY <2>1, <2>2, <2>4, <2>8, <3>2 DEF FollowsTopic
      <3> QED BY <3>1, <3>2
    <2> QED BY <2>7, <2>8 DEF FollowsTopic
  <1>3. ASSUME UNCHANGED <<topic, handled, tables>>, failed' \in {failed, failed \cup {next}},
               next <= next', next' \in Nat, restarts' = restarts
        PROVE  FollowsTopic'
    <2>1. FollowsTopic
          BY <1>3 DEF FollowsInv, VersionOrder
    <2> QED BY <1>0, <1>3, <2>1 DEF FollowsTopic, tables
  <1>4. CASE FetchMessage /\ UNCHANGED tables
        BY <1>0, <1>3, <1>4 DEF FetchMessage
  <1>5. CASE FetchFails /\ UNCHANGED tables
        BY <1>0, <1>3, <1>5 DEF FetchFails
  <1>6. CASE HandlerFails /\ UNCHANGED tables
        BY <1>0, <1>3, <1>6 DEF HandlerFails
  <1>7. CASE CommitMessages /\ UNCHANGED tables
        BY <1>0, <1>3, <1>7 DEF CommitMessages
  <1>8. CASE CommitFails /\ UNCHANGED tables
        BY <1>0, <1>3, <1>8 DEF CommitFails
  <1>9. CASE Restart
        BY <1>0, <1>9 DEF Restart
  <1>10. CASE UNCHANGED feed
        BY <1>0, <1>3, <1>10 DEF feed, vars, loop
  <1> QED
      BY <1>1, <1>2, <1>4, <1>5, <1>6, <1>7, <1>8, <1>9, <1>10
      DEF FeedNext, Consume, HandlerFailsLate

LEMMA FollowsFanOut ==
  ASSUME TypeOK, Coherent, FollowsTopic PROVE FannedOutAsSubscribed
  <1> SUFFICES ASSUME NEW o \in handled, NEW type \in EventType,
                      endpoint_projection[topic[o].endpoint]
                        = [version |-> topic[o].version, active |-> TRUE]
               PROVE  topic[o].endpoint \in GetForEvent(type) <=> type \in topic[o].types
      BY DEF FannedOutAsSubscribed
  <1>1. handled \cup failed \subseteq 1..Len(topic) /\ topic[o] \in Message
        BY DEF TypeOK
  <1>2. topic[o].endpoint \in Endpoint /\ topic[o].version \in Nat \ {0}
        BY <1>1, FeedAssumption DEF EndpointChanged
  <1>3. PICK p \in handled \cup failed :
          /\ topic[p].endpoint = topic[o].endpoint
          /\ endpoint_projection[topic[o].endpoint]
               = [version |-> topic[p].version, active |-> topic[p].active]
          /\ subscriptions[topic[o].endpoint] = topic[p].types
        BY <1>2 DEF FollowsTopic
  <1>4. topic[p] = topic[o]
        BY <1>1, <1>3 DEF Coherent
  <1> QED BY <1>2, <1>3, <1>4 DEF GetForEvent

\* What the finding on Upsert comes down to: an endpoint's row and subscriptions
\* fall apart only if the topic is not in version order or the consumer has been
\* restarted; errors, lost answers and repeated messages are not enough.
THEOREM InOrderIsEnough == FeedSpec => [](VersionOrder /\ restarts = 0 => FannedOutAsSubscribed)
  <1>1. FeedInit => Coherent /\ FollowsInv
        BY DEF FeedInit, Init, Coherent, FollowsInv, FollowsTopic
  <1>2. TypeOK /\ Coherent /\ FollowsInv => (VersionOrder /\ restarts = 0 => FannedOutAsSubscribed)
        BY FollowsFanOut DEF FollowsInv
  <1> QED BY <1>1, <1>2, CoherentStep, FollowsStep, FeedTyping, PTL DEF FeedSpec

-----------------------------------------------------------------------------
(* EndpointChanges: the same, with the relays in front of the topic.        *)

\* Calls for an endpoint that follow each other: each change has a later version
\* than those before it, and none follows the deletion.
OneAfterAnother ==
  /\ changes \in [Id -> Message]
  /\ \A i, j \in Id : i < j /\ changes[i].endpoint = changes[j].endpoint =>
       changes[i].version < changes[j].version /\ changes[i].active

LEMMA ChangeTyping ==
  ASSUME OneAfterAnother, NEW i \in Id
  PROVE  /\ changes[i] \in Message
         /\ changes[i].endpoint \in Endpoint /\ changes[i].version \in Nat \ {0}
  <1>1. changes[i] \in Message
        BY DEF OneAfterAnother
  <1> QED BY <1>1, FeedAssumption DEF EndpointChanged

RelayProofs == INSTANCE EndpointRelayProofs

\* EndpointRelay's theorems are about the relays of EndpointChanges.
LEMMA SameRelay ==
  /\ R!RelayAssumption <=> RelayProofs!RelayAssumption
  /\ R!Init <=> RelayProofs!Init
  /\ R!Next <=> RelayProofs!Next
  /\ relay = RelayProofs!vars
  /\ R!TypeOK <=> RelayProofs!TypeOK
  <1>1. R!RelayAssumption <=> RelayProofs!RelayAssumption
        BY DEF R!RelayAssumption, RelayProofs!RelayAssumption, R!IsFiniteSet, RelayProofs!IsFiniteSet
  <1>2. R!Init <=> RelayProofs!Init
        BY DEF R!Init, RelayProofs!Init, R!Idle, RelayProofs!Idle, R!NewRow, RelayProofs!NewRow
  <1>3. relay = RelayProofs!vars
        BY DEF relay, RelayProofs!vars
  <1>4. R!TypeOK <=> RelayProofs!TypeOK
        BY DEF R!TypeOK, RelayProofs!TypeOK, R!Row, RelayProofs!Row, R!Flush, RelayProofs!Flush
  <1>5. \A i : R!Enqueue(i) <=> RelayProofs!Enqueue(i)
        BY DEF R!Enqueue, RelayProofs!Enqueue, R!NewRow, RelayProofs!NewRow
  <1>6. \A r, batch : R!Claim(r, batch) <=> RelayProofs!Claim(r, batch)
        BY DEF R!Claim, RelayProofs!Claim, R!Claimable, RelayProofs!Claimable,
               R!FirstOf, RelayProofs!FirstOf, R!Cardinality, RelayProofs!Cardinality
  <1>7. \A r, i : R!Publish(r, i) <=> RelayProofs!Publish(r, i)
        BY DEF R!Publish, RelayProofs!Publish, R!At, RelayProofs!At, R!Write, RelayProofs!Write,
               R!Goto, RelayProofs!Goto
  <1>8. \A r, i : R!PublishRetried(r, i) <=> RelayProofs!PublishRetried(r, i)
        BY DEF R!PublishRetried, RelayProofs!PublishRetried, R!At, RelayProofs!At,
               R!Write, RelayProofs!Write, R!Fault, RelayProofs!Fault
  <1>9. \A r, i : R!PublishFails(r, i) <=> RelayProofs!PublishFails(r, i)
        BY DEF R!PublishFails, RelayProofs!PublishFails, R!At, RelayProofs!At, R!Write, RelayProofs!Write,
               R!Goto, RelayProofs!Goto, R!Fault, RelayProofs!Fault
  <1>10. \A r, i : R!MarkPublished(r, i) <=> RelayProofs!MarkPublished(r, i)
        BY DEF R!MarkPublished, RelayProofs!MarkPublished, R!At, RelayProofs!At,
               R!Marked, RelayProofs!Marked, R!Leave, RelayProofs!Leave
  <1>11. \A r, i : R!Release(r, i) <=> RelayProofs!Release(r, i)
        BY DEF R!Release, RelayProofs!Release, R!At, RelayProofs!At,
               R!Released, RelayProofs!Released, R!Leave, RelayProofs!Leave
  <1>12. \A r, i : R!UpdateFails(r, i) <=> RelayProofs!UpdateFails(r, i)
        BY DEF R!UpdateFails, RelayProofs!UpdateFails, R!At, RelayProofs!At, R!Marked, RelayProofs!Marked,
               R!Released, RelayProofs!Released, R!Leave, RelayProofs!Leave, R!Fault, RelayProofs!Fault
  <1>13. \A r : R!Crash(r) <=> RelayProofs!Crash(r)
        BY DEF R!Crash, RelayProofs!Crash, R!Fault, RelayProofs!Fault, R!Idle, RelayProofs!Idle
  <1>14. \A i : R!DelayPasses(i) <=> RelayProofs!DelayPasses(i)
        BY DEF R!DelayPasses, RelayProofs!DelayPasses
  <1>15. \A i : /\ R!LeaseExpires(i) <=> RelayProofs!LeaseExpires(i)
                /\ R!LeaseOverrun(i) <=> RelayProofs!LeaseOverrun(i)
        BY DEF R!LeaseExpires, RelayProofs!LeaseExpires, R!LeaseOverrun, RelayProofs!LeaseOverrun,
               R!ExpireLease, RelayProofs!ExpireLease, R!InHand, RelayProofs!InHand,
               R!Fault, RelayProofs!Fault
  <1>16. R!Next <=> RelayProofs!Next
        BY <1>5, <1>6, <1>7, <1>8, <1>9, <1>10, <1>11, <1>12, <1>13, <1>14, <1>15
        DEF R!Next, RelayProofs!Next
  <1> QED BY <1>1, <1>2, <1>3, <1>4, <1>16

\* The relays run in EndpointChanges as they do alone.
LEMMA RelayRuns ==
  ASSUME R!RelayAssumption
  PROVE  ChangesSpec => [](R!TypeOK /\ RelayProofs!WrittenInv)
  <1>1. RelayProofs!RelayAssumption
        BY SameRelay
  <1>2. ChangesInit => RelayProofs!TypeOK /\ RelayProofs!WrittenInv
    <2>1. RelayProofs!Init => RelayProofs!TypeOK
          BY DEF RelayProofs!Init, RelayProofs!TypeOK, RelayProofs!Idle, RelayProofs!Flush
    <2>2. RelayProofs!Init => RelayProofs!WrittenInv
          BY DEF RelayProofs!Init, RelayProofs!WrittenInv, RelayProofs!At, RelayProofs!Idle
    <2> QED BY <2>1, <2>2, SameRelay DEF ChangesInit
  <1>3. [ChangesNext]_<<feed, relay>> => [RelayProofs!Next]_RelayProofs!vars
        BY SameRelay DEF ChangesNext, RelayStep, relay, RelayProofs!vars
  <1>4. /\ RelayProofs!TypeOK /\ [RelayProofs!Next]_RelayProofs!vars => RelayProofs!TypeOK'
        /\ RelayProofs!TypeOK /\ RelayProofs!WrittenInv /\ [RelayProofs!Next]_RelayProofs!vars
             => RelayProofs!WrittenInv'
        BY <1>1, RelayProofs!TypeStep, RelayProofs!WrittenStep
  <1>5. RelayProofs!TypeOK => R!TypeOK
        BY SameRelay
  <1> QED BY <1>2, <1>3, <1>4, <1>5, PTL DEF ChangesSpec

\* A relay's step writes one row of the table at most.
LEMMA Writes ==
  ASSUME R!TypeOK, R!Next
  PROVE  /\ DOMAIN outbox \subseteq DOMAIN outbox'
         /\ \/ copies' = copies
            \/ \E k \in DOMAIN outbox : copies' = [copies EXCEPT ![k] = @ + 1]
  <1>1. DOMAIN outbox \subseteq DOMAIN outbox'
        BY DEF R!Next, R!Enqueue, R!Claim, R!Publish, R!PublishRetried, R!PublishFails,
               R!MarkPublished, R!Release, R!UpdateFails, R!Crash, R!DelayPasses,
               R!LeaseExpires, R!LeaseOverrun, R!ExpireLease
  <1>2. ASSUME NEW r \in Relay, NEW k \in Id, NEW stage, R!At(r, k, stage), NEW n \in {0, 1}, R!Write(k, n)
        PROVE  \/ copies' = copies
               \/ k \in DOMAIN outbox /\ copies' = [copies EXCEPT ![k] = @ + 1]
    <2>1. k \in DOMAIN outbox
          BY <1>2 DEF R!At, R!TypeOK
    <2>2. CASE n = 1
          BY <1>2, <2>1, <2>2 DEF R!Write
    <2>3. CASE n = 0
          BY <1>2, <2>3 DEF R!Write, R!TypeOK
    <2> QED BY <2>2, <2>3
  <1>3. ASSUME NEW r \in Relay, NEW k \in Id,
               R!Publish(r, k) \/ R!PublishRetried(r, k) \/ R!PublishFails(r, k)
        PROVE  \/ copies' = copies
               \/ k \in DOMAIN outbox /\ copies' = [copies EXCEPT ![k] = @ + 1]
        BY <1>2, <1>3 DEF R!Publish, R!PublishRetried, R!PublishFails
  <1> QED
      BY <1>1, <1>3 DEF R!Next, R!Enqueue, R!Claim, R!MarkPublished, R!Release, R!UpdateFails, R!Crash,
         R!DelayPasses, R!LeaseExpires, R!LeaseOverrun, R!ExpireLease

\* The topic has the changes of the rows that were written, and no others.
TopicInv ==
  /\ \A i \in Id : copies[i] > 0 =>
       i \in DOMAIN outbox /\ \E o \in 1..Len(topic) : topic[o] = changes[i]
  /\ \A o \in 1..Len(topic) : \E i \in DOMAIN outbox : copies[i] > 0 /\ topic[o] = changes[i]

\* A consumer's step leaves the topic and the outbox alone.
LEMMA Consuming == Consume => UNCHANGED topic
  BY DEF Consume, HandlerFailsLate, FetchMessage, FetchFails, HandlerSucceeds, HandlerFails,
         CommitMessages, CommitFails, Restart

LEMMA TopicStep ==
  TypeOK /\ R!TypeOK /\ TopicInv /\ OneAfterAnother /\ [ChangesNext]_<<feed, relay>> => TopicInv'
  <1> SUFFICES ASSUME TypeOK, R!TypeOK, TopicInv, OneAfterAnother, [ChangesNext]_<<feed, relay>>
               PROVE  TopicInv'
      OBVIOUS
  <1>1. CASE UNCHANGED <<topic, relay>>
        BY <1>1 DEF TopicInv, relay
  <1>2. ASSUME RelayStep PROVE TopicInv'
    <2>1. /\ DOMAIN outbox \subseteq DOMAIN outbox'
          /\ \/ copies' = copies
             \/ \E k \in DOMAIN outbox : copies' = [copies EXCEPT ![k] = @ + 1]
          BY <1>2, Writes DEF RelayStep
    <2>2. CASE UNCHANGED <<copies, topic>>
          BY <2>1, <2>2 DEF TopicInv
    <2>3. ASSUME NEW i \in Id, copies'[i] > copies[i], Produce(changes[i]) PROVE TopicInv'
      <3>1. copies \in [Id -> Nat] /\ DOMAIN outbox \subseteq Id
            BY DEF R!TypeOK
      <3>2. /\ i \in DOMAIN outbox /\ copies'[i] > 0
            /\ \A k \in Id \ {i} : copies'[k] = copies[k]
            BY <2>1, <2>3, <3>1
      <3>3. /\ Len(topic) \in Nat /\ Len(topic') = Len(topic) + 1
            /\ \A o \in 1..Len(topic) : topic'[o] = topic[o]
            /\ topic'[Len(topic) + 1] = changes[i]
        <4>1. changes[i] \in Message
              BY ChangeTyping
        <4> QED BY <2>3, <4>1, Produced
      <3>4. \A k \in Id : copies'[k] > 0 =>
              k \in DOMAIN outbox' /\ \E o \in 1..Len(topic') : topic'[o] = changes[k]
        <4> SUFFICES ASSUME NEW k \in Id, copies'[k] > 0
                     PROVE  k \in DOMAIN outbox' /\ \E o \in 1..Len(topic') : topic'[o] = changes[k]
            OBVIOUS
        <4>1. CASE k = i
              BY <2>1, <3>2, <3>3, <4>1
        <4>2. CASE k # i
          <5>1. k \in DOMAIN outbox /\ copies[k] > 0
                BY <3>2, <4>2 DEF TopicInv
          <5>2. PICK o \in 1..Len(topic) : topic[o] = changes[k]
                BY <5>1 DEF TopicInv
          <5> QED BY <2>1, <3>3, <5>1, <5>2
        <4> QED BY <4>1, <4>2
      <3>5. ASSUME NEW o \in 1..Len(topic')
            PROVE  \E k \in DOMAIN outbox' : copies'[k] > 0 /\ topic'[o] = changes[k]
        <4>1. CASE o = Len(topic) + 1
              BY <2>1, <3>2, <3>3, <4>1
        <4>2. CASE o \in 1..Len(topic)
          <5>1. PICK k \in DOMAIN outbox : copies[k] > 0 /\ topic[o] = changes[k]
                BY <4>2 DEF TopicInv
          <5> QED BY <2>1, <3>1, <3>2, <3>3, <4>2, <5>1
        <4> QED BY <3>3, <4>1, <4>2
      <3> QED BY <3>4, <3>5 DEF TopicInv
    <2> QED BY <1>2, <2>2, <2>3 DEF RelayStep
  <1> QED BY <1>1, <1>2, Consuming DEF ChangesNext, feed, vars

\* What the relays write is Publishable: the composition's steps are the feed's.
LEMMA ChangesFeedStep ==
  /\ R!RelayAssumption /\ OneAfterAnother
  /\ TypeOK /\ R!TypeOK /\ TopicInv /\ [ChangesNext]_<<feed, relay>>
  => [FeedNext]_feed
  <1> SUFFICES ASSUME R!RelayAssumption, OneAfterAnother, TypeOK, R!TypeOK, TopicInv,
                      [ChangesNext]_<<feed, relay>>
               PROVE  [FeedNext]_feed
      OBVIOUS
  <1>1. ASSUME NEW i \in Id, Produce(changes[i]), UNCHANGED tables PROVE FeedNext
    <2>1. changes[i] \in Message
          BY ChangeTyping
    <2>2. Publishable(changes[i])
      <3> SUFFICES ASSUME NEW o \in 1..Len(topic), topic[o].endpoint = changes[i].endpoint
                   PROVE  /\ topic[o].version = changes[i].version => topic[o] = changes[i]
                          /\ topic[o].active \/ changes[i].version <= topic[o].version
                          /\ changes[i].active \/ topic[o].version <= changes[i].version
          BY DEF Publishable
      <3>1. PICK k \in Id : topic[o] = changes[k]
            BY DEF TopicInv, R!TypeOK
      <3>2. k \in Nat /\ i \in Nat /\ changes[k].version \in Nat /\ changes[i].version \in Nat
            BY ChangeTyping DEF R!RelayAssumption
      <3>3. CASE k = i
            BY <3>1, <3>2, <3>3
      <3>4. CASE k < i
        <4>1. changes[k].version < changes[i].version /\ changes[k].active
              BY <3>1, <3>4 DEF OneAfterAnother
        <4> QED BY <3>1, <3>2, <4>1
      <3>5. CASE i < k
        <4>1. changes[i].version < changes[k].version /\ changes[i].active
              BY <3>1, <3>5 DEF OneAfterAnother
        <4> QED BY <3>1, <3>2, <4>1
      <3> QED BY <3>2, <3>3, <3>4, <3>5
    <2> QED BY <1>1, <2>1, <2>2 DEF FeedNext
  <1> QED BY <1>1 DEF ChangesNext, RelayStep, FeedNext, feed, vars

LEMMA ChangesRun ==
  ASSUME R!RelayAssumption, OneAfterAnother
  PROVE  ChangesSpec => FeedSpec /\ []TopicInv
  <1>1. ChangesInit => FeedInit /\ TypeOK /\ TopicInv
    <2>1. FeedInit => TypeOK
          BY DEF FeedInit, Init, TypeOK, Run
    <2> QED BY <2>1 DEF ChangesInit, FeedInit, Init, R!Init, TopicInv
  <1> QED BY <1>1, RelayRuns, ChangesFeedStep, FeedTypeStep, TopicStep, PTL DEF ChangesSpec, FeedSpec

\* With any number of relays, batches and faults in front of it, the topic is one
\* that EndpointFeed allows, if calls for one endpoint follow each other: what is
\* proved of FeedSpec holds behind the relays.
THEOREM ChangesFeed ==
  ASSUME R!RelayAssumption, OneAfterAnother
  PROVE  ChangesSpec => FeedSpec
  BY ChangesRun, PTL

\* A consumer that has handled the whole topic and refused nothing shows, for each
\* endpoint whose newest change the relays have marked as published, that change.
PublishedIsShown ==
  state = "fetch" /\ next > Len(topic) /\ failed = {} =>
    \A i \in DOMAIN outbox :
      LET m == changes[i] IN
      outbox[i].published /\ (\A j \in DOMAIN outbox : changes[j].endpoint = m.endpoint => j <= i)
        => endpoint_projection[m.endpoint] = [version |-> m.version, active |-> m.active]

\* From the outbox to the projection: in whatever order relays that crash, repeat
\* and free each other's rows have written an endpoint's changes, its row ends at
\* the newest one (its subscriptions need not, as InOrderIsEnough says).
THEOREM Arrives ==
  ASSUME R!RelayAssumption, OneAfterAnother
  PROVE  ChangesSpec => []PublishedIsShown
  <1>1. /\ TypeOK /\ LoopInv /\ ShowsNewest
        /\ R!TypeOK /\ RelayProofs!WrittenInv /\ TopicInv
        => PublishedIsShown
    <2> SUFFICES ASSUME TypeOK, LoopInv, ShowsNewest, R!TypeOK, RelayProofs!WrittenInv, TopicInv,
                        state = "fetch", next > Len(topic), failed = {},
                        NEW i \in DOMAIN outbox, outbox[i].published,
                        \A j \in DOMAIN outbox : changes[j].endpoint = changes[i].endpoint => j <= i
                 PROVE  endpoint_projection[changes[i].endpoint]
                          = [version |-> changes[i].version, active |-> changes[i].active]
        BY DEF PublishedIsShown
    <2>1. i \in Id /\ copies[i] > 0
          BY DEF R!TypeOK, RelayProofs!WrittenInv
    <2>2. PICK o \in 1..Len(topic) : topic[o] = changes[i]
          BY <2>1 DEF TopicInv
    <2>3. changes[i].endpoint \in Endpoint /\ changes[i].version \in Nat \ {0}
          BY <2>1, ChangeTyping
    <2>4. o \in handled
          BY DEF LoopInv, TypeOK
    <2>5. endpoint_projection[changes[i].endpoint].version >= changes[i].version
          BY <2>2, <2>3, <2>4 DEF ShowsNewest, TypeOK
    <2>6. endpoint_projection[changes[i].endpoint].version \in Nat
          BY <2>3 DEF TypeOK
    <2>7. PICK p \in handled :
            /\ topic[p].endpoint = changes[i].endpoint
            /\ endpoint_projection[changes[i].endpoint]
                 = [version |-> topic[p].version, active |-> topic[p].active]
          BY <2>3, <2>5, <2>6 DEF ShowsNewest
    <2>8. PICK k \in DOMAIN outbox : topic[p] = changes[k]
      <3>1. p \in 1..Len(topic)
            BY DEF TypeOK
      <3> QED BY <3>1 DEF TopicInv
    <2>9. k \in Id /\ k <= i /\ k \in Nat /\ i \in Nat
          BY <2>7, <2>8 DEF R!TypeOK, R!RelayAssumption
    <2>10. CASE k < i
      <3>1. changes[k].version < changes[i].version /\ changes[k].version \in Nat
            BY <2>1, <2>7, <2>8, <2>9, <2>10, ChangeTyping DEF OneAfterAnother
      <3> QED BY <2>3, <2>5, <2>7, <2>8, <3>1
    <2>11. CASE k = i
          BY <2>7, <2>8, <2>11
    <2> QED BY <2>9, <2>10, <2>11
  <1>2. FeedInit => LoopInv /\ ShowsNewest
        BY DEF FeedInit, Init, LoopInv, CommitFollowsHandling, ShowsNewest
  <1>3. FeedSpec => [](LoopInv /\ ShowsNewest)
        BY <1>2, LoopStep, ShowsNewestStep, FeedTyping, PTL DEF FeedSpec
  <1> QED BY <1>1, <1>3, ChangesRun, RelayRuns, FeedTyping, PTL

-----------------------------------------------------------------------------
(* One relay that nothing happens to writes changes in the order of their    *)
(* versions.                                                                 *)

\* Row k is an earlier change of the endpoint of row i.
Before(k, i) == k < i /\ changes[k].endpoint = changes[i].endpoint

\* The one relay r holds the locks of its batch and no others; before a row in
\* its batch come only rows that are published or in the batch too, before a
\* published one only published ones.
Quiet(r) ==
  /\ flush[r].stage # "release"
  /\ \A i \in DOMAIN outbox : /\ outbox[i].available
                              /\ outbox[i].lock = "held" => i \in flush[r].todo
  /\ \A i \in flush[r].todo : outbox[i].lock = "held" /\ ~outbox[i].published
  /\ \A i \in DOMAIN outbox : copies[i] > 0 => outbox[i].published \/ R!At(r, i, "mark")
  /\ \A k \in Id, i \in flush[r].todo : Before(k, i) =>
       k \in flush[r].todo \/ (k \in DOMAIN outbox /\ outbox[k].published)
  /\ \A k \in Id, i \in DOMAIN outbox : Before(k, i) /\ outbox[i].published =>
       k \in DOMAIN outbox /\ outbox[k].published
  /\ InOrder(DOMAIN outbox)
  /\ VersionOrder

QuietInv(r) == faults = 0 => Quiet(r)

LEMMA QuietStep ==
  ASSUME R!RelayAssumption, OneAfterAnother, NEW r, Relay = {r}
  PROVE  /\ TypeOK /\ R!TypeOK /\ TopicInv /\ QuietInv(r)
         /\ [ChangesNext]_<<feed, relay>>
         => QuietInv(r)'
  <1> SUFFICES ASSUME TypeOK, R!TypeOK, TopicInv, QuietInv(r), [ChangesNext]_<<feed, relay>>,
                      faults' = 0
               PROVE  Quiet(r)'
      BY DEF QuietInv
  <1>1. CASE UNCHANGED <<topic, relay>>
        BY <1>1 DEF QuietInv, Quiet, relay, VersionOrder, R!At
  <1>2. ASSUME RelayStep PROVE Quiet(r)'
    <2>1. ~R!Fault
      <3>1. faults \in Nat
            BY DEF R!TypeOK
      <3> QED BY <3>1 DEF R!Fault
    <2>2. faults' = faults
          BY <1>2, <2>1 DEF RelayStep, R!Next, R!Enqueue, R!Claim, R!Publish, R!PublishRetried,
             R!PublishFails, R!MarkPublished, R!Release, R!UpdateFails, R!Crash, R!DelayPasses,
             R!LeaseExpires, R!LeaseOverrun, R!ExpireLease
    <2>3. Quiet(r)
          BY <2>2 DEF QuietInv
    <2>4. InOrder(DOMAIN outbox')
          BY <1>2 DEF RelayStep
    <2>5. /\ r \in Relay /\ flush[r] \in R!Flush /\ flush[r].todo \subseteq DOMAIN outbox
          /\ DOMAIN outbox \subseteq Id /\ Id \subseteq Nat
          /\ \A i \in DOMAIN outbox : outbox[i] \in R!Row
          BY DEF R!TypeOK, R!RelayAssumption
    <2>6. ASSUME UNCHANGED copies PROVE VersionOrder'
      <3>1. topic' = topic
        <4>1. \A i \in Id : ~(copies[i] > copies[i])
              BY DEF R!TypeOK
        <4> QED BY <1>2, <2>6, <4>1 DEF RelayStep
      <3> QED BY <2>3, <3>1 DEF Quiet, VersionOrder
    <2>7. ASSUME NEW i \in Id, R!Enqueue(i) PROVE Quiet(r)'
      <3>1. /\ DOMAIN outbox' = DOMAIN outbox \cup {i} /\ i \notin DOMAIN outbox
            /\ ~outbox'[i].published /\ outbox'[i].available /\ outbox'[i].lock = "none"
            /\ \A j \in DOMAIN outbox : outbox'[j] = outbox[j]
            /\ UNCHANGED <<flush, copies>>
            BY <2>7 DEF R!Enqueue, R!NewRow
      <3>2. ~(copies[i] > 0)
            BY <3>1 DEF TopicInv
      <3>3. VersionOrder'
            BY <2>6, <3>1
      <3>4. \A j \in Id : \A s : R!At(r, j, s)' <=> R!At(r, j, s)
            BY <3>1 DEF R!At
      <3>5. /\ \A j \in DOMAIN outbox' : /\ outbox'[j].available
                                         /\ outbox'[j].lock = "held" => j \in flush'[r].todo
            /\ \A j \in flush'[r].todo : outbox'[j].lock = "held" /\ ~outbox'[j].published
            BY <2>3, <2>5, <3>1 DEF Quiet
      <3>6. \A j \in DOMAIN outbox' : copies'[j] > 0 => outbox'[j].published \/ R!At(r, j, "mark")'
            BY <2>3, <2>5, <3>1, <3>2, <3>4 DEF Quiet
      <3>7. /\ \A k \in Id, j \in flush'[r].todo : Before(k, j) =>
                 k \in flush'[r].todo \/ (k \in DOMAIN outbox' /\ outbox'[k].published)
            /\ \A k \in Id, j \in DOMAIN outbox' : Before(k, j) /\ outbox'[j].published =>
                 k \in DOMAIN outbox' /\ outbox'[k].published
            BY <2>3, <3>1 DEF Quiet
      <3>8. flush'[r].stage # "release"
            BY <2>3, <3>1 DEF Quiet
      <3> QED BY <2>4, <3>3, <3>5, <3>6, <3>7, <3>8 DEF Quiet
    <2>8. ASSUME NEW batch \in SUBSET DOMAIN outbox, R!Claim(r, batch) PROVE Quiet(r)'
      <3>1. /\ flush[r].todo = {}
            /\ flush'[r] = [todo |-> batch, stage |-> "publish"]
            /\ DOMAIN outbox' = DOMAIN outbox /\ copies' = copies
            /\ \A i \in DOMAIN outbox : /\ outbox'[i].published = outbox[i].published
                                        /\ outbox'[i].available = outbox[i].available
                                        /\ outbox'[i].lock = IF i \in batch THEN "held" ELSE outbox[i].lock
            BY <2>5, <2>8 DEF R!Claim, R!TypeOK, R!Row
      <3>2. \A i \in DOMAIN outbox : i \in R!Claimable <=> ~outbox[i].published
            BY <2>3, <3>1 DEF Quiet, R!Claimable
      <3>3. /\ \A i \in batch : ~outbox[i].published
            /\ \A i \in batch, j \in R!Claimable \ batch : i < j
            BY <2>8, <3>2 DEF R!Claim, R!FirstOf
      <3>4. \A k \in Id, i \in batch : Before(k, i) =>
              k \in batch \/ (k \in DOMAIN outbox /\ outbox[k].published)
        <4> SUFFICES ASSUME NEW k \in Id, NEW i \in batch, Before(k, i), k \notin batch
                     PROVE  k \in DOMAIN outbox /\ outbox[k].published
            OBVIOUS
        <4>1. k \in DOMAIN outbox
              BY <2>3 DEF Quiet, InOrder, Before
        <4>2. i \in Nat /\ k \in Nat
              BY <2>5
        <4>3. ~(i < k)
              BY <4>2 DEF Before
        <4> QED BY <3>2, <3>3, <4>1, <4>3
      <3>5. \A i \in DOMAIN outbox : copies[i] > 0 => outbox[i].published
            BY <2>3, <3>1 DEF Quiet, R!At
      <3>6. VersionOrder'
            BY <2>6, <3>1
      <3> QED BY <2>3, <2>4, <3>1, <3>3, <3>4, <3>5, <3>6 DEF Quiet
    <2>9. ASSUME NEW i \in Id, R!Publish(r, i) PROVE Quiet(r)'
      <3>1. /\ i \in flush[r].todo /\ (\A j \in flush[r].todo : i <= j) /\ flush[r].stage = "publish"
            /\ flush'[r].todo = flush[r].todo /\ flush'[r].stage = "mark"
            /\ copies'[i] = copies[i] + 1 /\ \A k \in Id \ {i} : copies'[k] = copies[k]
            /\ outbox' = outbox
            BY <2>5, <2>9 DEF R!Publish, R!At, R!Goto, R!Write, R!TypeOK
      <3>2. R!At(r, i, "mark")'
            BY <3>1 DEF R!At
      <3>3. \A k \in DOMAIN outbox : copies[k] > 0 => outbox[k].published
            BY <2>3, <3>1 DEF Quiet, R!At
      <3>4. Produce(changes[i])
        <4>1. \A k \in Id : copies'[k] > copies[k] => k = i
              BY <3>1 DEF R!TypeOK
        <4>2. copies' # copies
              BY <3>1 DEF R!TypeOK
        <4> QED BY <1>2, <4>1, <4>2 DEF RelayStep
      <3>5. /\ Len(topic) \in Nat /\ Len(topic') = Len(topic) + 1
            /\ \A o \in 1..Len(topic) : topic'[o] = topic[o]
            /\ topic'[Len(topic) + 1] = changes[i]
            BY <3>4, ChangeTyping, Produced
      <3>6. ASSUME NEW o \in 1..Len(topic), topic[o].endpoint = changes[i].endpoint
            PROVE  topic[o].version <= changes[i].version
        <4>1. PICK k \in DOMAIN outbox : copies[k] > 0 /\ topic[o] = changes[k]
              BY DEF TopicInv
        <4>2. k \in Id /\ k \in Nat /\ i \in Nat /\ i \in DOMAIN outbox
              BY <2>5, <3>1
        <4>3. outbox[k].published /\ ~outbox[i].published
              BY <2>3, <3>1, <3>3, <4>1 DEF Quiet
        <4>4. ~(i < k)
              BY <2>3, <3>6, <4>1, <4>2, <4>3 DEF Quiet, Before
        <4>5. k < i
              BY <4>2, <4>3, <4>4
        <4>6. changes[k].version < changes[i].version
              BY <3>6, <4>1, <4>2, <4>5 DEF OneAfterAnother
        <4>7. changes[k].version \in Nat /\ changes[i].version \in Nat
              BY <4>2, ChangeTyping
        <4> QED BY <4>1, <4>6, <4>7
      <3>7. VersionOrder'
        <4> SUFFICES ASSUME NEW o \in 1..Len(topic'), NEW p \in 1..Len(topic'), o < p,
                            topic'[o].endpoint = topic'[p].endpoint
                     PROVE  topic'[o].version <= topic'[p].version
            BY DEF VersionOrder
        <4>1. o \in 1..Len(topic)
              BY <3>5
        <4>2. CASE p \in 1..Len(topic)
              BY <2>3, <3>5, <4>1, <4>2 DEF Quiet, VersionOrder
        <4>3. CASE p = Len(topic) + 1
              BY <3>5, <3>6, <4>1, <4>3
        <4> QED BY <3>5, <4>2, <4>3
      <3>8. \A k \in DOMAIN outbox' : copies'[k] > 0 => outbox'[k].published \/ R!At(r, k, "mark")'
            BY <2>5, <3>1, <3>2, <3>3
      <3> QED BY <2>3, <2>4, <3>1, <3>7, <3>8 DEF Quiet
    <2>10. ASSUME NEW i \in Id, R!MarkPublished(r, i) PROVE Quiet(r)'
      <3>1. /\ i \in flush[r].todo /\ (\A j \in flush[r].todo : i <= j)
            /\ flush'[r].todo = flush[r].todo \ {i} /\ flush'[r].stage = "publish"
            /\ UNCHANGED copies
            BY <2>5, <2>10 DEF R!MarkPublished, R!At, R!Leave, R!TypeOK
      <3>2. outbox[i].lock = "held" /\ i \in DOMAIN outbox
            BY <2>3, <2>5, <3>1 DEF Quiet
      <3>3. /\ DOMAIN outbox' = DOMAIN outbox
            /\ outbox'[i].published /\ outbox'[i].lock = "none" /\ outbox'[i].available = outbox[i].available
            /\ \A j \in DOMAIN outbox \ {i} : outbox'[j] = outbox[j]
            BY <2>5, <2>10, <3>2 DEF R!MarkPublished, R!Marked, R!TypeOK, R!Row
      <3>4. \A k \in Id : Before(k, i) => k \in DOMAIN outbox /\ outbox[k].published
        <4> SUFFICES ASSUME NEW k \in Id, Before(k, i)
                     PROVE  k \in DOMAIN outbox /\ outbox[k].published
            OBVIOUS
        <4>1. i \in Nat /\ k \in Nat /\ k < i
              BY <2>5 DEF Before
        <4>2. k \notin flush[r].todo
              BY <3>1, <4>1
        <4> QED BY <2>3, <3>1, <4>2 DEF Quiet
      <3>5. \A k \in DOMAIN outbox : copies[k] > 0 => outbox'[k].published
        <4>1. \A k \in DOMAIN outbox : R!At(r, k, "mark") => k = i
          <5>1. \A k \in DOMAIN outbox : R!At(r, k, "mark") => k <= i /\ i <= k
                BY <3>1 DEF R!At
          <5>2. \A k \in DOMAIN outbox : k \in Nat
                BY <2>5
          <5> QED BY <3>2, <5>1, <5>2
        <4> QED BY <2>3, <3>3, <4>1 DEF Quiet
      <3>6. VersionOrder'
            BY <2>6, <3>1
      <3>7. /\ \A j \in DOMAIN outbox' : /\ outbox'[j].available
                                         /\ outbox'[j].lock = "held" => j \in flush'[r].todo
            /\ \A j \in flush'[r].todo : outbox'[j].lock = "held" /\ ~outbox'[j].published
            BY <2>3, <2>5, <3>1, <3>3 DEF Quiet
      <3>8. /\ \A k \in Id, j \in flush'[r].todo : Before(k, j) =>
                 k \in flush'[r].todo \/ (k \in DOMAIN outbox' /\ outbox'[k].published)
            /\ \A k \in Id, j \in DOMAIN outbox' : Before(k, j) /\ outbox'[j].published =>
                 k \in DOMAIN outbox' /\ outbox'[k].published
            BY <2>3, <2>5, <3>1, <3>3, <3>4 DEF Quiet
      <3> QED BY <2>4, <3>1, <3>3, <3>5, <3>6, <3>7, <3>8 DEF Quiet
    <2>11. ASSUME NEW i \in Id, R!Release(r, i) \/ R!DelayPasses(i) \/ R!LeaseExpires(i) PROVE FALSE
      <3>1. ~R!Release(r, i)
            BY <2>3 DEF Quiet, R!Release, R!At
      <3>2. ~R!DelayPasses(i)
            BY <2>3 DEF Quiet, R!DelayPasses
      <3>3. ~R!LeaseExpires(i)
            BY <2>3, <2>5 DEF Quiet, R!LeaseExpires, R!ExpireLease, R!InHand
      <3> QED BY <2>11, <3>1, <3>2, <3>3
    <2>12. \/ \E i \in Id : R!Enqueue(i)
           \/ \E batch \in SUBSET DOMAIN outbox : R!Claim(r, batch)
           \/ \E i \in Id : \/ R!Publish(r, i) \/ R!MarkPublished(r, i) \/ R!Release(r, i)
                            \/ R!DelayPasses(i) \/ R!LeaseExpires(i)
          BY <1>2, <2>1 DEF RelayStep, R!Next, R!PublishRetried, R!PublishFails, R!UpdateFails,
             R!Crash, R!LeaseOverrun
    <2> QED BY <2>7, <2>8, <2>9, <2>10, <2>11, <2>12
  <1> QED BY <1>1, <1>2, Consuming DEF ChangesNext, feed, vars

\* While one relay works alone and no call of its fails, and while the consumer is
\* not restarted, events are fanned out as the projection's versions say, provided
\* that calls for one endpoint follow each other.
LEMMA QuietFansOut ==
  ASSUME R!RelayAssumption, OneAfterAnother, NEW r, Relay = {r}
  PROVE  ChangesSpec => [](faults = 0 /\ restarts = 0 => FannedOutAsSubscribed)
  <1>1. ChangesInit => QuietInv(r)
    <2> SUFFICES ASSUME ChangesInit PROVE Quiet(r)
        BY DEF QuietInv
    <2>1. /\ DOMAIN outbox = {} /\ flush[r] = [todo |-> {}, stage |-> "publish"] /\ Len(topic) = 0
          BY DEF ChangesInit, R!Init, R!Idle, FeedInit, Init
    <2> QED BY <2>1 DEF Quiet, InOrder, VersionOrder
  <1>2. QuietInv(r) /\ (VersionOrder /\ restarts = 0 => FannedOutAsSubscribed)
          => (faults = 0 /\ restarts = 0 => FannedOutAsSubscribed)
        BY DEF QuietInv, Quiet
  <1>3. ChangesSpec => []QuietInv(r)
        BY <1>1, QuietStep, ChangesRun, RelayRuns, FeedTyping, PTL DEF ChangesSpec
  <1> QED BY <1>2, <1>3, ChangesRun, InOrderIsEnough, PTL

\* What calls of the endpoint service that overlap can leave in the outbox: a change
\* of an endpoint whose version is not above that of one before it, or that
\* follows the deletion.
SomeOverlap ==
  \E i, j \in Id : /\ i < j /\ changes[i].endpoint = changes[j].endpoint
                   /\ changes[i].version < changes[j].version => ~changes[i].active

\* An endpoint's row and its subscriptions fall apart only where one of four things
\* is at work: calls of the endpoint service that overlap; the relay of a second
\* replica; a fault of a relay; a restart of the consumer.  stale_feed shows
\* the third alone.
THEOREM Causes ==
  ASSUME R!RelayAssumption, changes \in [Id -> Message], Relay # {}
  PROVE  \/ SomeOverlap
         \/ \E q, s \in Relay : q # s
         \/ ChangesSpec => [](~FannedOutAsSubscribed => faults > 0 \/ restarts > 0)
  <1> SUFFICES ASSUME ~SomeOverlap, ~\E q, s \in Relay : q # s
               PROVE  ChangesSpec => [](~FannedOutAsSubscribed => faults > 0 \/ restarts > 0)
      OBVIOUS
  <1>0. PICK r \in Relay : TRUE
        OBVIOUS
  <1>1. Relay = {r}
        BY <1>0
  <1>2. OneAfterAnother
    <2>1. ASSUME NEW i \in Id, NEW j \in Id, i < j, changes[i].endpoint = changes[j].endpoint
          PROVE  changes[i].version < changes[j].version /\ changes[i].active
      <3>1. changes[i] \in EndpointChanged
            BY FeedAssumption
      <3>2. changes[i].active \in BOOLEAN
            BY <3>1 DEF EndpointChanged
      <3> QED BY <2>1, <3>2 DEF SomeOverlap
    <2> QED BY <2>1 DEF OneAfterAnother
  <1>3. ChangesSpec => [](faults = 0 /\ restarts = 0 => FannedOutAsSubscribed)
        BY <1>1, <1>2, QuietFansOut
  <1>4. ChangesSpec => [](faults \in Nat /\ restarts \in Nat)
    <2>1. TypeOK /\ R!TypeOK => faults \in Nat /\ restarts \in Nat
          BY DEF TypeOK, R!TypeOK
    <2> QED BY <1>2, <2>1, ChangesRun, RelayRuns, FeedTyping, PTL
  <1>5. /\ faults = 0 /\ restarts = 0 => FannedOutAsSubscribed
        /\ faults \in Nat /\ restarts \in Nat
        => (~FannedOutAsSubscribed => faults > 0 \/ restarts > 0)
        OBVIOUS
  <1> QED BY <1>3, <1>4, <1>5, PTL
===============================================================================
