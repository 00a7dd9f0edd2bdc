# Verification of Hookyard

TLA+ models of Hookyard's services, checked with TLC on small instances, and
theorems about them, proved with TLAPS for every value of the constants.
`PROJECT.json` is the index: components, runs, mutants, the map from definitions
to source lines, findings, hazards and theorems.

## 1. The system

Hookyard takes events over HTTP and posts them as webhooks to the endpoints that
subscribe to them. Four Go services, each with a Postgres database, talk over
Kafka and HTTP. Paths below are relative to `src/`.

| component | state | operations | correct when |
|---|---|---|---|
| Delivery engine (`delivery-service/internal/delivery`, `scheduler`, `webhook`, `attempt`) | tables `deliveries`, `delivery_attempts`; goroutines under a semaphore; 30 s leases | CreateDeliveries, ClaimBatch, Deliver, RecordAttemptAndTransition, Replay | one original per event and endpoint; attempts numbered once; a verdict rests on a recorded answer and is final; nothing is lost after a crash; everything that can be recorded settles |
| Consumer loop (`delivery-service/internal/kafka`) | the reader's position, the group's committed offset | fetch, handle, commit; ends on a fetch or commit error | no offset is committed that no handler saw; failures come back |
| Endpoint projection (`delivery-service/internal/endpoint`) | `endpoint_projection`, `endpoint_subscription_projection` | Upsert, GetForEvent | deletions survive late and repeated messages; rows and subscriptions belong together |
| Retry backoff (`delivery-service/internal/retry`) | none | NextDelay | within jitter of a wait that grows to the policy's cap |
| Event ingestion (`event-service/internal/event`) | `events`, `event_idempotency`, `outbox` | CreateEvent | one event per idempotency key; accepted means stored |
| Event outbox publisher (`event-service/internal/outbox`) | `outbox.published_at`, row locks of an open transaction | publishBatch every 500 ms, in every replica | published means on the topic; copies only after faults; everything is published |
| Endpoint management (`endpoint-service/internal/endpoint`) | `endpoints`, `endpoint_subscriptions`, `retry_policies` | CreateEndpoint, Patch, Delete, List, GetSubscriptions | names are unique, deletion is final, no endpoint for a deleted tenant |
| Endpoint outbox relay (`endpoint-service/internal/outbox`, `kafka`) | `outbox_messages` with locks, leases and availability | Claim, Publish, MarkPublished, Release | every change is published, in spite of crashes |
| Tenants and keys (`auth-service`) | `tenants`, `api_keys` | create, update, delete tenant; create, revoke, verify key | a key that is out stays out; live tenants' names differ |
| Listings of the APIs (`delivery-service/internal/httpapi`, the repositories' List) | a client's cursor | pages of deliveries, the DLQ, attempts, endpoints | every row that stays is listed once |
| HTTP APIs, secrets, signing | none | parsing, formatting, ciphers | |
| CLI (`CLI/`) | | every file is empty | |

How they interact: `POST /v1/events` stores an event and an outbox row in one
transaction; the publisher writes the row to a topic; the delivery service's
event consumer inserts one delivery per endpoint that its projection lists; the
scheduler of every delivery process claims due rows under a lease, posts them,
and records the answer. Endpoint changes are meant to reach the projection
through the relay and a topic of their own; at this commit the calls that would
put them in the outbox are commented out. Keys are verified over HTTP.

What is hard: several workers hold one row once a lease has run out; a process
dies between two transactions; Kafka repeats and, across retries, reorders;
statements of READ COMMITTED transactions read and write with different
snapshots; retry limits are tested in two places; a consumer commits past a
failure; all relays share one worker id, so a lock does not say whose it is;
endpoints change while events are fanned out to them. The hazards in
`PROJECT.json` name the lines.

## 2. Modules

A single SQL transaction is one action where nothing outside can see its parts;
it has a step per statement where another transaction can act in between. An
HTTP call, a Kafka write and a goroutine's life are steps of their own. Time is
what a query can tell: due or not, lease held or expired.

| module | models | state |
|---|---|---|
| `Deliveries` | the delivery engine | `rows` = `deliveries`, `attempts` = `delivery_attempts`, `inflight` = Deliver goroutines, `replays` = Replay calls between their two statements, `faults` |
| `Scheduling` | the order of the claims and how soon they come, which `Deliveries` leaves open | `queue` = rows that are due, by `next_attempt_at`, with `status`, `tries`, `lease`; `running` = attempts in the workers' slots, `ticked`, `mishaps` |
| `DeliveryLifecycle` | what a caller may rely on, without workers, claims or leases; `Deliveries` implements it | `delivery`, `answers` |
| `Consumer` | `Consumer.Run` on one partition | `topic`, `committed`, `next`, `state`, `handled`, `failed` |
| `EndpointFeed` | `Consumer` with the endpoint handler and the projection | adds the two projection tables |
| `Pipeline` | `EndpointFeed` beside a second `Consumer` whose handler fans events out | adds the event loop, `snapshot` = what the handler has read, `deliveries`, and three history variables |
| `EndpointRelay` | the outbox of the endpoint service and the relay of every replica | `outbox` = `outbox_messages`, `flush` = flush calls, `copies` on the topic, `faults` |
| `OutboxChannel` | an at-least-once channel; `EndpointRelay` implements it, `EventService` contains it | `enqueued`, `copies`, `published` |
| `EndpointChanges` | `EndpointRelay` writing the topic that `EndpointFeed` reads | both modules' |
| `Events` | CreateEvent beside the publishers of all replicas, and what the delivery service reads from their messages | the three tables, `request` = calls, `batch` = open publishBatch transactions, `copies` on the topic, `faults` |
| `EventService` | what clients and readers of the event service may rely on: a request is answered in one step, its event goes into an at-least-once channel; `Events` implements it | `keys`, `replies`, and the channel's |
| `Endpoints` | CreateEndpoint, Patch, Delete beside the deletion of their tenant | `endpoints`, `subscriptions`, `calls` = open transactions and what they read, `tenantActive` |
| `Tenants` | the auth service | `tenants`, `keys`, `checked` = CreateKey calls between their two statements (any number for a tenant), open deletions: `deleting`, `swept`, `locked` |
| `Pages` | the listings and their cursors, beside writers | `rows`, `query`, `cursor`, `listed`, `steady` (history) |
| `Backoff` | NextDelay as a function, and the waits of one delivery | `policy`, `attempt`, `wait`, `nominal` (reference) |
| `MC*` | instances and symmetry sets for TLC; `MCAlgorithms` runs `Pages`, `Backoff` and `Scheduling`, each by itself | |
| `*Proofs`, `DeliveriesRefinement` | theorems (section 6) | |

### Actions and code

*Deliveries.* `CreateDeliveries` is the transaction of that name (repository.go);
the unique index that its ON CONFLICT is written for is `Conflicts`.
`ReplayGet` and `CreateReplay` are the two statements of `Service.Replay`.
`ClaimBatch` is one tick of the scheduler, whose WHERE clause is `Claimable` and
whose LIMIT is `BatchLimit`; it starts a goroutine per row. It takes any claimable
rows, more than the query's ORDER BY allows. `Send` is the POST and
its classification, `DecryptFails` the early return of Deliver,
`RecordAttemptAndTransition` the final transaction, which rolls back on
a constraint (`Rejected`) or on an answer that TEXT does not take (`Refused`). What
stands between a row and its record is the row's `obstacle`: nothing, a secret that
does not decrypt, or a customer whose answers may be such bytes. `HasNext` (service.go) and `NextStatus` (repository.go) are the two
separate tests of the retry budget. `LeaseExpires` is time passing for a row whose
goroutine is gone, `LeaseOverrun` the same while it still runs, `LoseAttempt` a
goroutine that records nothing, `Crash` a process that dies.

*Scheduling.* The rows that are due form a queue by `next_attempt_at`. `Tick` is one
tick of a worker: `Batch` is the claim's query, ORDER BY and LIMIT included, and its rows
keep their place in the queue, because the claim's UPDATE leaves `next_attempt_at`
alone. `Finish` ends an attempt: `Transition` takes the row out of the queue, unless the
row cannot be recorded or was settled by another. `Period` lets 250 ms pass, for the
leases and for the attempts that run; `BecomeDue` puts a retry at the end of the queue.
`ClaimFails`, `RecordFails` and `Crash` are bounded by `MaxMishaps`.

*Consumer, EndpointFeed.* The loop's statements are actions; `HandlerFails` skips to
the next message, `CommitMessages` commits everything up to its own. `Restart`
stands for a new process or a rebalance; the old process has stopped by then.
`HandlerFailsLate` is a handler that sees an error although its transaction
committed. `Upsert` has the version guard of the row and none for subscriptions,
as in projection.go. `Consume` is a step of the consumer with its handler, for any
topic; `FeedNext` adds what an at-least-once relay may publish (`Publishable`).

*Pipeline.* `Events` there is an instance of `Consumer` on the event topic.
`GetEndpoints` is the read of the projection, `CreateDeliveries` the transaction
after it, `EventHandlerFails` any of the handler's errors, the transaction's lost
answer included. The endpoint consumer may take any number of steps in between.
`Observe` keeps the history: `steady`, the endpoints that were listed ever since
the message was fetched, `listed` and `owed`.

*EndpointRelay.* `Claim` is the SELECT ... FOR UPDATE SKIP LOCKED with its UPDATE;
`Publish`, `MarkPublished` and `Release` are flush's three calls, in the order of its
loop. A row's `lock` says whether it is locked and whether the lease has run out,
not by whom: locked_by is the same in every replica (endpoint-service/cmd/server/main.go:69),
so `Marked` and `Released` act on any lock. `PublishRetried`, `PublishFails`,
`UpdateFails`, `Crash` and `LeaseOverrun` are the ways in which a flush goes wrong, each
counted in `faults`. `Enqueue` is a committed row, in any order.

*EndpointChanges.* A relay's write appends the row's change to the topic; changes of
one endpoint are committed one after another (`InOrder`).

*Events.* `CheckIdempotency`, `InsertEvent`, `CommitEvent`, `RollBack` are the visible
steps of CreateEvent, which may fail at each of them; an INSERT of a key that another open transaction has
inserted waits (`KeyLocked`). `OpenBatch` is the SELECT ... FOR UPDATE SKIP LOCKED,
`WriteMessage` a write with its UPDATE, `WriteFails` and `WriteRetried` the write's
other endings, `CommitBatch` and `LoseBatch` the end of the transaction. `Envelope`,
`Decode` and `Acceptable` are the message, its unmarshalling on the other side and
the checks made there. `Service` maps the tables to `EventService`: a call's reply is
what its last step told the client (`Told`, `Replies`), and a stored event is one in the
channel. `CommitEvent` is its `Create`, a
`CheckIdempotency` that finds the key its `Repeat`, everything that ends in an error, the
insert of a key that came in between included, its `Fail`.

*Endpoints.* `LockTenant` is the SELECT ... FOR SHARE; `ReadEndpoint` the unlocked read
of Patch and Delete; `Patch` and `Delete` write from it. `DeleteTenant` belongs to
the auth service and waits for the shared lock. The endpoint service reads a table
`tenants` that its own migration does not create; the model follows the comment at
repository.go:42 and takes it for the row that tenant deletion updates.

*Tenants.* `DeleteTenantRow`, `RevokeTenantKeys`, `CommitDeletion` (or
`RollBackDeletion`) are DeleteTenant's transaction; `CheckTenant` and `CreateKey` are
the two statements of CreateKey, each call with a key of its own (`Fresh`).

*Pages.* `List` is one page: `Found` the WHERE clause with the cursor's row comparison,
`IsPage` ORDER BY and LIMIT, `NextCursor` the row beyond the page that the queries
ask for. `PageSize` and `Accepted` are the handling of the limit: the delivery service takes
its default for one out of range, the endpoint service answers 400. `Insert` and `SetStatus` are the
writers; a row that is committed late has an early created_at. The two orders are
created_at DESC, id DESC and attempt_number.

*Backoff.* `Growth`, `Base` and `NextDelay` follow backoff.go; the answer is the set of
milliseconds that the jitter allows. `Fail` is an attempt that fails. `nominal` grows the
wait step by step, as a reference.

### What the models take from Postgres and the drivers

Three statements of the delivery service are modelled as their code intends:
`ON CONFLICT (event_id, endpoint_id)` without the predicate of the partial unique
index (Postgres refuses to infer that index); ClaimBatch's Exec on a transaction
whose Query rows are still open (pgx reports a busy connection); and
`status=$2 ... CASE WHEN $2 IN (...)`, whose parameter type Postgres may not deduce
(it has two contexts). If they fail as described, the engine does nothing; the
models say what it does once they run. TEXT takes neither 0x00 nor bytes that are
not UTF-8, so an answer with such a body is never recorded (`Refused`, finding 1).

## 3. Runs

All of them are in `PROJECT.json`; each property of a passing run has a mutant of
the code that breaks it.

| run | question | result |
|---|---|---|
| `race` | two deliveries with any obstacle, two workers with two slots each, attempts that may be lost or outlast their lease | numbering, evidence, finality of verdicts and the retry budget hold; the engine implements the lifecycle |
| `batches` | repeated messages, three ids, two workers with batches, replays of replays, any obstacle; no attempt outlasts its lease | one original, no row with two goroutines, a recorded 2xx is always DELIVERED |
| `unrecorded` | where nothing fails, is a customer sent no more than MaxAttempts requests? | no: finding 1 |
| `pipeline` | changes of two endpoints beside two events, an error and a restart of either consumer | offsets, deletions and replays behave; a committed event has the deliveries that its steady subscribers are owed, and no other |
| `skipped` | is a failed message redelivered? | no: finding 2 |
| `stale_feed` | do row and subscriptions belong together when one publication fails? | no: finding 3 |
| `events` | three requests on two keys, two publishers, two faults | one event per key, accepted is stored; the service answers as if each request were one step, in front of an at-least-once channel; everything is published |
| `misread` | can the delivery service read what is published? | no: finding 4 |
| `relay` | three rows, two relays, three faults | an at-least-once channel, a copy more only for a fault, every row is published |
| `endpoints` | three overlapping calls on two endpoints, and the tenant's deletion | names, deletions and the tenant lock hold |
| `tenants` | two tenants, three keys, deletions that may roll back | keys stay out, names differ |
| `algorithms` | four rows with two times and two states under a client's paging; the waits of one delivery; two schedulers with a slot each and three deliveries, one of which may never be recorded, with a failed claim, a failed record or a crash | every steady row is listed once; waits double up to the cap; the two other deliveries settle |

`ClaimsPaidFor` in `race` is the exact form of a promise the code does not keep:
README.md:52 says that retries end in the DLQ once they are exhausted, but
ClaimBatch does not compare attempt_count with the policy, so an attempt that was
lost at the limit is made again. The excess is one claim for each fault, if the
customer's answers can be stored; if not, `unrecorded` shows that it has no limit.

### Bounds

Each bound is a constant with Max in its name, or the size of a set.
`MaxFaults` bounds crashes, losses and overruns, `MaxClaims` claims of one row (a row
with an obstacle is claimed for ever), `MaxMishaps` the failures in `Scheduling`, `MaxLog` and `MaxEvents` the
topics, `MaxErrors` and `MaxRestarts` a consumer's failures, `MaxVersion` an endpoint's
version, `MaxAttempts` a delivery's waits. They are enough because: in `race` an
overrun gives a row a late holder beside the current one, and the second row takes
the slot that the first gives back; no row without an obstacle can reach `MaxClaims`
there, as a policy of two and one fault ask for three claims; in `unrecorded` the third
claim of a policy of two is enough; three ids in
`batches` hold an original, its replay and a replay of that, or originals for three
endpoints; two changes of endpoints in `pipeline` hold a subscription and its end,
or a deletion, around each of two events, and a restart repeats them;
three rows and two relays with batches of two in `relay` overlap after an overrun,
and three faults hold an overrun, a failed update and a crash in one history; three
requests on two keys hold a race and a repetition; three calls hold a patch and a
delete that started from one version while a third creates; three keys hold one
that was created before, between and after a deletion's statements; four rows
make pages of one or two end inside a group of equal times. In `algorithms` caps are
at and between the values that doubling reaches, within the
ranges that the migrations allow, for both types of policy; a row that is never recorded
fills a worker's slot for two of the three periods that its lease lasts, the most that
`RoomForOthers` allows, while a healthy one is retried and a mishap of either worker
costs another a lease. `tenants` needs no bound beside its sets. The
theorems hold without these numbers.

Deadlock is checked in `race`, `batches`, `unrecorded` and `tenants`, where a message may
always be handled again or a tenant updated or deleted again. It is not in
`pipeline`, `skipped`, `stale_feed` (a consumer that stopped with no restart left),
`events`, `misread`, `relay` (everything answered and published), `endpoints`
(everything deleted) and `algorithms` (the delivery has no attempt left).

## 4. Fairness

*Scheduling.* Weak fairness of `Advance`: tickers tick, requests time out, and time
passes; weak fairness of `BecomeDue` of each row. There is none of claiming a row:
which rows a tick takes is the query's order, with the LIMIT. Nor of creation or
mishaps. The price is a condition, `RoomForOthers`: what the rows that are never
recorded take of a worker's time within one lease leaves a tick over. It is enough for a
single slot and sharp there (with one row that takes both periods of a lease of two, or two
rows that take four of four, TLC finds a healthy row that waits for ever); with more
slots it asks for more than it has to. `Deliveries` states no fairness.

*Events.* Weak fairness of an open batch's writes and commit (one loop, in order),
strong fairness of a row's being taken into a batch, by ORDER BY created_at. A
request owes nothing.

*EndpointRelay.* Weak fairness of time (`DelayPasses`, `LeaseExpires`), of each relay's
claiming (its ticker calls flush every 250 ms), and of the next step of its flush:
the Kafka writer and the connections have timeouts, and a failure is such a step
too. Weak fairness of some claim, not of each row's, is enough: the query takes
rows in order, and `Id` is finite.

## 5. Findings

1. `unrecorded`: the answer's body goes into a TEXT column as it came, and a body
   with 0x00 or without valid UTF-8 makes the record fail, of a 2xx as well as of a
   failure. The row comes back when its lease expires, and nothing compares its
   attempts with MaxAttempts: the customer is posted to every 30 s, without end.
2. `skipped`: after a handler error the loop goes on, and the next commit covers
   the failed message; a comment in consumer.go says it will be redelivered. What
   the code does keep is `OnlySuccessSkips` (section 6).
3. `stale_feed`: Upsert's version guard covers the row, not its subscriptions, and
   one failed publication is enough for the relay to write versions out of order.
   So is a second replica without any fault, each with one of the two versions in
   its batch; a restarted consumer repeats versions in an order that is no
   better; and calls of the endpoint service that overlap may give two changes one
   version. `Causes` proves that there is no other cause (section 6).
4. `misread`: the publisher's envelope nests the event's fields in `payload`, where
   the delivery service does not look for them; every message is refused.

Not runs, but seen while modelling:

- If an attempt outlasts its lease, a recorded 2xx need not make the row DELIVERED:
  the row's new holder may have recorded a failure and closed it by the time the
  first worker's 2xx arrives. The transition asks for status IN_PROGRESS and not for
  the lease; asking for the lease would not change this history.
- A row whose record never succeeds (finding 1, or a secret that does not decrypt)
  keeps its `next_attempt_at` and is ahead of every later one each time its lease
  expires. Enough of them keep all others waiting for ever: about concurrency x
  30 s / T rows whose attempts take T, or 120 times the batch size of those whose
  attempts end at once (`RoomForOthers` in `Scheduling`).
- At this commit no code writes `outbox_messages` (endpoint repository.go:73, 259,
  311 are commented out), so the projection gets no changes.
- A claim is made beyond MaxAttempts after a fault (section 3).
- A policy's backoff_type is 'fixed' or 'exponential' (endpoint-service
  migrations/001_init.sql:8, retrypolicy/model.go:18), but NextDelay singles out
  "linear" only: a fixed policy doubles its waits.
- The relay computes retryDelay from the attempts that it read before its claim
  added one, so the first two delays are both one second.
- `POST /v1/deliveries/{id}/replay` is routed, but its handler parses the rest of the
  path, "/replay" included, as the id (delivery-service/internal/httpapi/handler.go:99)
  and always answers 400; API_CONTRACTS.md:18 has `/v1/dlq/{id}/replay`.
- The listing of attempts answers 400 when `limit` is absent or not a number: the
  error of its parsing is tested again after the default has been taken
  (same file, lines 195 to 202).
- GetSubscriptions reads a path value `event_type` that its route does not have, so
  it always answers 400.
- Patch and Delete write the version they read plus one, so overlapping calls lose
  updates and can share a version or take it back; `InTurn` proves that calls which
  do not overlap cannot.
- A key created while its tenant is deleted stays ACTIVE in the table, and `Verify`
  is what keeps it out.
- An attempt's lease is 30 s whatever DELIVERY_LEASE_SECONDS says.

## 6. Proofs

`tlapm` checks every step; assumptions are the named ASSUMEs on the constants,
which TLC evaluates in the runs. All theorems are about specifications without
fairness.

*DeliveriesProofs.* `Typing` first. `Stranded` (a row is in progress exactly if it has a
lease) is inductive with it and gives `Evolves`, the graph of a row's changes, from
which `Final` follows. `Ledger` needs both: attempt numbers are at most the row's
count, so a claim's number is new. `Recordable` is then a consequence: the number
is free, and HasNext agrees with NextStatus; of an answer's bytes it says nothing. `Verdicts` says that whoever changes a
row to a verdict is a record that left its attempt behind. `Originals`,
`ReplaySources` (strengthened by `ReplaysFailed`: a row read for replay has still
failed) and `Pool` (strengthened by finiteness of `inflight`) stand beside them.
`Exclusive` and `Successes` assume that no attempt outlasts its lease, and must
(section 5). `Budget` is about rows without an obstacle and counts: a row's claims, and one more if it can be
claimed as it stands, are at most one, plus its recorded retryable answers below
the limit, plus the faults (`Paid`). Every step that makes a row claimable again adds
to the right side, a record because its number is new.

*DeliveriesRefinement.* `Implements`: under the mapping of `Lifecycle` in
`Deliveries`, initial states map to initial states and each action to `Open`,
`Replay`, `Answer` or a stutter, by the invariants above.

*EndpointFeedProofs.* `Unseen` and `Commits` rest on a loop invariant (the reader is
at most one message past what was tried, committed offsets lie behind it);
`Deleted` on an invariant that a row shows the newest change that was handled and
that a deletion is the newest of its endpoint. `Deleted`
takes changes to one endpoint to be made one after another (`Publishable`).
`Current` needs, at every point of a replay, that the subscriptions of an endpoint
come from no message before the last one that is done, where a message counts as
done if no restart goes back behind it (`AppliedInv`). `PipelineFeeds` shows that `Pipeline` implements `FeedSpec`, so that all
of these hold beside the event consumer. `Owed` and `Listed` follow from `OwedInv`:
what the handler has read lies between `steady` and `listed`, and once the
deliveries are inserted they contain `steady` until the commit.
`OnlySuccessSkips` says how finding 2 comes about and that nothing else skips a
message: a failed one that no restart can bring back has a later one behind the
committed offset that was handled.

The module then puts the relay in front of the feed (`EndpointChanges`), under two
hypotheses: the relay's own assumption on its constants, and `OneAfterAnother`, that
changes of one endpoint carry increasing versions and that none follows its
deletion (`InTurn` below has this of the endpoint service). `ChangesFeed` shows that the composition implements `FeedSpec`, because the
topic holds the changes of the rows that were written and no others (`TopicInv`); so the feed's theorems hold behind
any number of relays. `Arrives` joins both ends: a row that is marked is on the topic
(the relay's `WrittenInv`), the projection shows the newest message (`ShowsNewest`), and
so it shows the newest change that was published, whatever failed on the way.
`InOrderIsEnough` and `Causes` delimit finding 3: subscriptions follow the row
if each endpoint's versions are on the topic in order and the reader never goes
back, and a single relay without a fault writes them in order (`Quiet`: a row of
its batch is preceded only by rows that are in the batch too or published), so
that a row and its subscriptions fall apart only where calls overlap (`SomeOverlap`,
the negation of `OneAfterAnother`), a second relay runs, a relay has a fault, or the
consumer restarts.

*EndpointRelayProofs.* `RelayCopies` counts: a row's copies, the relays that have it
in their batch and are not past its write, and one more if it can be claimed
without another fault, are at most one plus the faults (`CopyInv`). `RelayImplements` rests on `WrittenInv`, that a row to be marked, or marked,
has a copy, whoever's lock the mark uses.

*AlgorithmsProofs.* `PagesComplete`: with the cursor at a row, every steady row was listed or
is behind the cursor, and no listed row is behind it (`CursorInv`). It uses only that the two orders are total, so it covers
both. `Waits` says for every policy that a row can hold, of either type, and number of
attempts that growing by powers and capping last equals doubling step by step up to
the cap; it is what the code does with a fixed policy too, not what its name asks for. `Pow2` is a recursive
function; what it is for every n (positive, doubling) follows without an
induction schema, from the least element of the set of counterexamples (`LeastNat`,
`AllNat`).

*EventsProofs.* `Idempotent` and `Accepted` follow from `KeyInv`: the key table is
one-to-one onto the stored events, accepted requests name their key's event, and
open ones hold keys and events apart from each other's. `Published` and `Copies`
follow from `CopyInv`: batches' rows are disjoint and unpublished, and a message's
copies are bounded by faults plus one if it counts as written. `Serves` is the
refinement of `EventService`, from both: of a request's steps only the commit, the
answer and the failure show (`RequestServed`), of a publisher's only a write and the
marks of a committed batch (`PublisherServed`).

*EndpointsProofs.* `Steps` reduces the actions to three changes of the tables;
`EndpointTyping`, `Names` and `Deleted` follow by cases of those, `Creations` from
`LockInv` (a call that holds the tenant's row keeps it from being deleted). `InTurn`
has a hypothesis on the run, `NoOverlap`: at no time are two calls open on one
endpoint. Then what a call has read is still in the table (`ReadIsCurrent`), and each
change adds one to the version of an endpoint that is not deleted. This is
`OneAfterAnother` above, from the other side.

*TenantsProofs.* `RowsStay` says what any step leaves of the rows: `KeysStayOut`
follows, for keys created during a deletion too, because Verify joins the
tenant. `Names` is inductive with the type invariant.

Only model-checked: `EventuallySettled` (in `algorithms`) and the two `EventuallyPublished`. Liveness
under fairness is out of the prover's reach. The findings' runs are
counterexamples and need no proof.

## 7. Not modelled

HTTP parsing and formatting, Get, logging, ciphers and signatures (a secret decrypts
or not), the audit log, scopes and `last_used_at`, the event lookup over HTTP when a
message has no payload (it fails or not), the creation of a default retry policy
(one upsert), the relay's retryDelay (a released row becomes available at some time).
How long a retry waits is in `Backoff`, not in `Deliveries` and `Scheduling`, where it is
due or not. Changes of one endpoint that share a version with its deletion are not
published to the feed (`Publishable`); overlapping calls can make them. A consumer that has stopped is not started again by its process; nothing
in the source promises that it is. The API gateway that the repository's README
names is not in it; the CLI's files are empty.

## 8. What is left

The plan's modules are written, in the order of their weight: `Deliveries` with its
lifecycle and `Scheduling`, `Consumer`, `EndpointFeed`, `Events`, `Tenants`, `Endpoints`, `EndpointRelay` with
its channel, `Pages` and `Backoff`, `Pipeline` and `EndpointChanges`. Worth adding as the
code grows: `Endpoints` in front of `EndpointRelay` once changes are enqueued, for the
versions of calls that overlap; a fixed backoff type, once NextDelay knows it; a
tenant whose first key could not be created, and a consumer that ends, once the
code says what should become of them.
