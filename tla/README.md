# Verification of the notification service

TLA+ models of the event-driven notification service, model-checked with TLC and
partly proved with TLAPS. Source paths are relative to the repository's root.

## 1. The system

| component | state | operations | talks to |
|---|---|---|---|
| API intake, `internal/service/notification.go` | none of its own | Create, CreateBatch, Cancel, CancelBatch, List | notifications table, work queue, hub |
| Delivery worker, `cmd/worker/main.go`, `internal/service/delivery.go` | per goroutine: the message and a copy of the row | Dequeue, Process, handleRetry, Acknowledge | table, queue, breaker, limiter, provider, hub |
| Scheduler and retry poller, `internal/service/scheduler.go` | the rows returned by the current poll | poll | table, queue |
| Work queue, `internal/adapter/queue` | Redis sorted set and processing set per channel | Enqueue, EnqueueBatch, Dequeue (Lua), Acknowledge | |
| Repositories, `internal/adapter/repository/postgres` | notifications, delivery_attempts, dead_letter_queue, templates | inserts, an unconditional Update, conditional cancellations, two claiming polls | |
| Circuit breaker, `pkg/circuitbreaker` | state and three counters per channel and process | Allow, RecordSuccess, RecordFailure | |
| Rate limiter, `pkg/ratelimit` | a sorted set per channel in Redis | Allow (Lua) | |
| Status feed, `internal/adapter/event` | clients, a buffered broadcast channel, a buffer per client | Run, Publish, SubscribeRedis, Register | Redis pub/sub, WebSocket |
| Templates, metrics, configuration, middleware | rows, counters, nothing | CRUD, recording | |

A notification's life: the API inserts the row and pushes a message into the sorted set of
its channel, or leaves the row `scheduled` for the scheduler. A worker goroutine pops the
message (an atomic script that also adds it to the processing set), loads the row,
overwrites it with status `processing`, asks the breaker and the limiter, calls the
provider, records the attempt and overwrites the row again: `delivered`, or `failed` with
a time for the next retry, or `failed` for good with a dead-letter entry. Then it removes
the message from the processing set. The retry poller of every worker process sets due
failed rows to `queued` and pushes them again.

There is no lock and no transaction around any of this. Nearly every error is only logged,
and `Update` writes the whole row whatever it has become since it was read. What holds the
system together is a discipline: at any time one party has the duty to move a notification
on, and hands it over with a single atomic call. The models state that discipline, check
what follows from it, and show where it is broken.

Hard behaviours: interleavings of workers, pollers and API calls between two round trips;
replies lost after the effect; processes that stop; ignored errors; retry limits kept in two
places; reports to the breaker that arrive late or never; clocks of several machines in one
sorted set; bounded channels whose senders do not wait; reads that decide a later write.

What makes each component correct:

- delivery as a whole: one custodian at a time, at most one outcome, never picked up again
  once let go of, and without failures everything comes to rest, accounted for;
- cancellation: a cancelled notification is not sent (it is not always so, see 4);
- audit trail: attempts are numbered truthfully;
- breaker: it limits its probes, cannot get stuck, and closes when the provider is well;
- rate limiter: no more than the limit in a window, and no refusal without cause, up to
  what the callers' clocks are off;
- queue: priority first, then age, also for what is put back;
- status feed: no send to a closed client, no gaps, order within a source, and no goroutine
  left behind when a client goes;
- intake: one notification per idempotency key, batches inserted whole, deleted templates
  out of use, pages that miss nothing.

## 2. Modules

| module | what it is |
|---|---|
| `Custody` | abstract: what the pipeline promises about a notification, whatever fails |
| `Delivery` | API, workers, pollers, the two stores, failures and crashes |
| `DeliveryProofs` | type correctness, `SoleCustodian`, `OneOutcome`, `FinalUnlessInFlight` |
| `DeliveryAccounts` | `AttemptsInOrder`, `NothingLeftProcessing`, `RestIsAccountedFor` |
| `DeliveryRefinement` | `Delivery` implements `Custody`, and what `Custody` implies |
| `CircuitBreaker` | the breaker and the calls it admits |
| `CircuitBreakerProofs` | `TypeOK`, `ClosedHasRoom`, `ProbeLimit`, `NotWedged` |
| `StatusFeed` | publishers, Redis pub/sub, the hub, the clients' buffers and pumps |
| `StatusFeedProofs` | all the safety properties of `StatusFeed` |
| `Intake` | POST handlers up to the row they insert; templates |
| `Listing` | extends `Intake` with a client that pages through the list |
| `IntakeProofs` | all the properties of `Intake` and `Listing` |
| `RateLimiter` | the sliding-window script and its callers' clocks |
| `WorkQueue` | scores and the script that pops the lowest |
| `Dispatch` | composes `RateLimiter` and `WorkQueue` the way `Process` uses them |
| `DispatchProofs` | all the properties of `Dispatch` |
| `Pipeline` | composes `Delivery` and `CircuitBreaker` |
| `PipelineProofs` | `Pipeline` implements both of them; `SomebodyWillReport` |
| `MC...` | values of the constants for TLC |

### Delivery

One action is one round trip to a store or to the provider; what the code does in memory
between two round trips belongs to one of them. `pc[w]` says which call worker `w` makes
next:

    idle -> load -> claim -> gate -> limit -> send -> logSuccess -> settle -> ack -> idle
                              |        |        +---> logFailure -> retry -> (deadletter) -> ack
                              |        +-> requeue -> unclaim -> ack
                              +-> retry -> ...

| variable | code |
|---|---|
| `row` | notifications: `status`, `retry_count`, whether `next_retry_at` is set |
| `attempts`, `dlq` | delivery_attempts; number of entries in dead_letter_queue |
| `queue`, `processing` | `queue:notifications:<channel>`, `processing:notifications:<channel>` |
| `creator` | what Create or CreateBatch has still to do for a notification |
| `batch` | rows a poller has claimed and not yet pushed |
| `pc`, `msg`, `copy` | `runWorker` and `Process`: place, message, in-memory notification |
| `accepted` | history: how often the provider answered 2xx |

| action | code |
|---|---|
| `Create`, `MarkQueued`, `EnqueueCreated` | `NotificationService.Create` and its three calls |
| `CreateBatch` (+ `EnqueueCreated`) | one transaction, then one pipeline of ZADDs |
| `Cancel`, `CancelBatch` | the two conditional UPDATEs |
| `Dequeue`, `Ack` | the Lua script; SMEMBERS/SREM |
| `Load` ... `Settle` | `Process` and `handleRetry`, call by call |
| `Poll`, `EnqueuePolled` | `UPDATE ... FOR UPDATE SKIP LOCKED ... RETURNING`; the pipeline |
| `Crash`, `ApiCrash` | a process stops: what it had in memory is gone |

`Faults` chooses what may go wrong: `db` (a call fails, before or after it took effect),
`redis` (a call fails or its reply is lost), `limiter` (the script fails), `throttle` (the
limiter says no), `crash`, and `resend` (the Redis client repeats a write it saw no reply
to). A shutdown on SIGTERM, which cancels the context of calls under way, is a sequence of
failed calls followed by `Crash`.

Abstractions. Time: a poll may find a row due whenever its time is set. Queue order: any
member may be popped next. The breaker and the limiter may give any answer here. (The order
and the limiter are in `Dispatch`, the breaker's answers in `Pipeline`.) The content of
messages: a queue member is the same JSON every time the notification is pushed, so the
sorted set is a set. Status events decide nothing and are in `StatusFeed`.

### CircuitBreaker

The fields of the struct, one bit for "the reset timeout has passed since the last failure"
(`cooled`), and the calls under way, split into those the current half-open episode admitted
(`probes`) and all others (`calls`). A refused `Allow` changes nothing and is no step. All
methods take the mutex, so each is one action. `Abandon` is `Process` returning between
`Allow` and the report, which happens when the limiter refuses or fails; `leaked` remembers
that one of this episode's test calls did.

### Pipeline

`Delivery` for one process, with the breaker its workers share: each worker is a caller.
`AskBreaker` is `Delivery`'s `Gate` together with the breaker's `Allow` (or its refusal),
`AskLimiter` is `Limit`, with `Abandon` when the answer is not yes, and the two `Log` steps
carry the reports. `Restart` is a crash: the breaker starts anew. Every other step leaves the
breaker alone, so each step of `Pipeline` is one of `Delivery` and one (or none) of
`CircuitBreaker`.

### StatusFeed

| variable | code |
|---|---|
| `published` | how far each source (one request, one worker's handling of a notification) has got |
| `wire` | between the worker's PUBLISH and `SubscribeRedis`; `WireLoses` takes events out |
| `broadcast` | `Hub.broadcast`, per process; `Offer` drops what does not fit |
| `clients`, `send`, `closes` | `Hub.clients`, `Client.send`, how often it was closed |
| `conn`, `reader`, `writer`, `hand` | the connection, `readPump`, `writePump` and the message it writes |
| `received`, `due` | history: written to the connection; relayed while the hub knew the client |

Each case of the hub's select is an action (`Relay`, `HubRegister`, `HubUnregister`).
`Register` blocks until the hub takes the client, and so does the deferred unregistering, so
those channels need no state but the reader's. An event is its source and its number: what a
filter looks at (the batch) is a property of the source. Pings are not modelled by
themselves; that one may fail is in `StopWriting`, that none is answered in `HangUp`.

### Intake and Listing

A step is one round trip to Postgres, and it may fail before or after its effect. `Begin` is
everything `Create` does before the idempotency lookup, the read of the template included;
`Lookup` builds the notification when the key is free; `Insert` meets the UNIQUE constraint.
The batch request checks its items' data, then inserts all the accepted ones in a
transaction. An editor (`PUT /templates/{id}`) reads a template and later writes every
column of it. A template is absent, active or deleted: its text is data.

`created` is the `created_at` a notification gets when it is built, before it is inserted, so
rows appear in the table out of order. `Listing` reads one page per step from that table,
newest first, ties in any order.

### RateLimiter, WorkQueue, Dispatch

Time is Redis's clock, in units. A caller's time may be `Lag` behind or `Lead` ahead of it
when the script runs, by skew and by the way the call takes. `Admit` and `Refuse` are the
two results of the Lua script; `Live` is what PEXPIRE has left. A member of the queue has
the score `calcScore` gives it. `Dispatch` adds the messages' way: popped (`held`), then
`sent`, or turned away (`refused`) and put back with a new score. What `Process` does
besides is in `Delivery`.

### Custody

A notification is unborn, carried or closed. It becomes carried (or is lost at birth), is
closed once, and while it is carried it may be accepted or buried, not both. `Delivery` maps
to it by `Life`: carried means some custodian holds it or a worker is about to write its
dead-letter entry.

## 3. What is checked

| run | instance | shows |
|---|---|---|
| `faults` | 1 notification, 3 workers in 2 processes, limits 3 and 3, every failure but `resend` | `TypeOK`, `SoleCustodian`, `OneOutcome`, `FinalUnlessInFlight`, refinement of `Custody` |
| `reliable` | 2 notifications (one batched), 2 workers in 1 process, limits 3 and 3, no failures | `RestIsAccountedFor`, `AttemptsInOrder`, `NothingLeftProcessing`, `EventuallyAtRest` |
| `breaker` | 5 calls, thresholds 5, 3, 3 as in `NewDeliveryService`; calls may report late or never | `TypeOK`, `ProbeLimit`, `ClosedHasRoom`, `NotWedged`, `Recovers` |
| `feed` | 2 processes, 1 request and 1 delivery with 3 events, 2 clients (one with a filter), capacities 2 and 1 | `TypeOK`, `ClosedOnce`, `NoGaps`, `InOrderPerSource`, `PartingIsNoticed` |
| `api` | a request, its retry and a batch item with one key, a request and an item from one template, one editor, pages of 1 | `ListTypeOK`, `OneNotificationPerKey`, `BatchIsWhole`, `DeletedForGood`, `NothingMissed` |
| `dispatch` | 3 messages of 2 priorities, 2 calls per window of 3, clocks off by 1, 5 units of time | `TypeOK`, `WindowBound`, `RefusalIsDue`, `ServedInOrder` |
| `cancel`, `throttle`, `budget`, `restart`, `breaker_abandon`, `pipeline` | smallest instances | disagreements with the documents, section 4 |

Bounds. Notifications do not interact except through the worker that handles them and the
breaker, whose answer is open, so one notification with three workers
and two processes shows the interleavings that matter under failures;
the second notification in `reliable` shows the batch and a worker that serves several. The
retry limits have the value `NewNotification` gives the rows (3) and the default of the
worker's configuration (3), except in `budget`. Five calls at the breaker are the default
number of goroutines a channel has in a process, and as many as it takes to open it. No
counter needs a bound of its own there: retries bound the number of attempts. `MaxEvents`
bounds the events of a source; three events fill every channel (the capacities, 256 in the
code, are 2 and 1), let a dropped client coexist with one that goes on, and let events from
Redis overtake local ones. `api` has as many requests as it takes for a key to be raced for
three ways and for a page boundary to fall between any two rows. `MaxTime` bounds the clock
of `dispatch`: five units are nearly two windows, so that entries leave the window, the key
expires, and stamps from before and after the boundary meet; `Weight` is larger than any
time, as 10^13 is. The theorems of section 5 hold for every
value of them.

Deadlock is not checked: in every one of these systems it is right that nothing happens when
nothing is asked for (all notifications at rest, no event left to publish, every request
answered), and a breaker may end up refusing everybody, which is what `breaker_abandon` shows.

Fairness. `Fairness` in `Delivery` is weak fairness of each worker, each poller and the API
call that has begun: goroutines are scheduled, tickers tick, calls return or time out. No
client is obliged to create or cancel anything, and no failure is obliged to happen or not to
happen. In `CircuitBreaker` weak fairness of `Allow` says that traffic keeps arriving, of
`Finish` that every call ends (the provider client has a timeout), of `Cool` that time
passes; the provider need not recover, and `Recovers` speaks of the case that it does. In
`StatusFeed` it is weak fairness of the subscription, of each case of the hub's select (Go
chooses among ready cases at random, and the hub never blocks), and of the two pumps, whose
reads and writes have deadlines; nobody need connect, leave or publish, and no write need
succeed. `Intake` and `Dispatch` state only safety.

## 4. Where documents and code disagree

| run | the document says | the code does |
|---|---|---|
| `cancel` | `README.md:212`: final states are immutable | `Process` overwrites a cancellation accepted after its read (`delivery.go:99`) |
| `throttle` | `scripts/run-integration-tests.sh:423`: no message loss | a throttled message is pushed before its row is written back; another worker's result is overwritten with `queued` and nobody serves it (`delivery.go:121-129`) |
| `budget` | `README.md:252`: the dead-letter table is the final resting place | with `worker.max_retries` below 3 the poller selects a dead-lettered row (`postgres/notification.go:290`) |
| `restart` | `run-integration-tests.sh:427-428`: the retry poller picks up stuck messages | it selects failed rows only; a row left in `processing` stays there |
| `breaker_abandon` | `run-integration-tests.sh:415-416`, `README.md:103`: tests pass, circuit closes | half-open slots spent on rate-limited calls are not given back (`delivery.go:119`) |
| `pipeline` | `README.md:243`: notifications blocked by an open circuit are scheduled for retry, no data loss | a refusal counts as a failed try (`delivery.go:109`): three of them dead-letter a notification without its attempts |

More that the models and the proofs made visible and no run claims:

- `README.md:171` says that after all retries a notification moves to the dead-letter queue.
  With `worker.max_retries` above 3, `handleRetry` parks a row whose `retry_count` has reached
  the row's own limit; no poller selects it, and it stays failed without an entry. The proof
  of `RestIsAccountedFor` needs equal limits for this reason.
- The processing set does not say who works on what: a late `Acknowledge` removes the entry of
  the next worker, so an entry may be missing while a notification is being processed.
- `SoleCustodian` needs a Redis client that does not retransmit: the worker's client is
  created with the library's default of three retries, and a repeated ZADD that lands after
  the message was popped queues it twice.
- The late write-back behind `throttle` also sets `retry_count` back, so another worker's
  failed try is forgotten and its attempt number used again.
- `README.md:247` calls the limit strict. The window is measured by the callers' clocks, so
  the bound holds for a window that is shorter by what they may be off (`WindowBound`), as
  it must with client-side time.
- `README.md:282` says FIFO by creation within a priority. The score is the time of the
  last enqueueing: a retried or throttled notification goes to the end of its priority, and
  processes' clocks decide between neighbours (`ServedInOrder` says by how much).
- Of two racing requests with one key, the loser is answered with a 500, not with the
  winner's notification: `ErrDuplicateIDKey` exists, but nothing returns it. The template is
  rendered before the key is looked up, so a retry can be refused although its first try
  succeeded. The `X-Idempotency-Key` header that CORS allows is not read.
- A batch does not look at its items' templates: one deleted since is no obstacle, one that
  never existed fails the whole batch.
- An editor that changes a template's text while it is being deleted revives it.
- `GET /templates?page_size=0` divides by zero in the handler (the recovery middleware
  answers 500); the repository's own default comes too late.

## 5. What is proved

For all sets of notifications, workers, processes, calls, clients, requests and messages,
all limits, thresholds and capacities and every choice of failures, with the assumptions
named:

| theorem | assumptions | statement |
|---|---|---|
| `TypeCorrect` | | `Spec => []TypeOK` |
| `SoleCustody` | no `resend` | `Spec => []SoleCustodian` |
| `OutcomeIsUnique` | no `resend`, `RowMaxRetries <= MaxRetries` | `Spec => []OneOutcome` |
| `PromiseKept` | the same | `Spec => KeepsPromise` (refinement of `Custody`) |
| `PromiseIsEnough` | | `KeepsPromise => []OneOutcome`, and closed stays closed |
| `FinalRowsAreLeftAlone` | | `Spec => FinalUnlessInFlight` |
| `TrailIsTrue` | no `resend`, no `throttle`, `RowMaxRetries <= MaxRetries` | `Spec => []AttemptsInOrder` |
| `ProcessingIsCleared` | no `redis`, no `crash` | `Spec => []NothingLeftProcessing` |
| `BooksBalance` | `Faults = {}`, `RowMaxRetries = MaxRetries` | `Spec => []RestIsAccountedFor` |
| `BreakerTypeCorrect`, `RoomWhenClosed`, `ProbesAreLimited`, `NeverWedged` | `Parameters` (of which `SuccessThreshold <= HalfOpenMax`) | the four invariants of `CircuitBreaker` |
| `FeedTypeCorrect`, `ChannelsCloseOnce`, `NothingSkipped`, `SourcesInOrder` | | `TypeOK`, `ClosedOnce`, `NoGaps`, `InOrderPerSource` of `StatusFeed` |
| `KeysAreUnique`, `BatchesAreWhole`, `RetirementIsFinal` | | `OneNotificationPerKey`, `BatchIsWhole`, `DeletedForGood` of `Intake` |
| `ListTypeCorrect`, `PagesAreComplete` | | `ListTypeOK`, `NothingMissed` of `Listing` |
| `DispatchTypeCorrect`, `WindowHolds`, `RefusalsAreDue` | | `TypeOK`, `WindowBound`, `RefusalIsDue` of `Dispatch` |
| `UrgentFirst` | `Weight > MaxTime + Lead` | `ServedInOrder` of `Dispatch` |
| `WorkersAreDelivery` | | `PipelineSpec => Spec` of `Delivery` |
| `GateIsBreaker` | no `crash` | `PipelineSpec => Breaker!Spec` of `CircuitBreaker` |
| `SoleCustodyInPipeline` | no `resend` | `PipelineSpec => []SoleCustodian` |
| `BreakerSurvivesRestarts` | `OneBreaker` | the four invariants of the breaker, for `PipelineSpec` |
| `RefusalsEnd` | `OneBreaker` | `PipelineSpec => []SomebodyWillReport` |
| `OnlyTheLimiterLeaks` | `OneBreaker`, no `limiter`, no `throttle` | the same without the exception for `leaked` |

The modules' own named assumptions (`DeliveryAssumption`, `FeedAssumption`, ...) are part of
each; TLC checks them on the instances. Those of the breaker are an operator, `Parameters`,
assumed by name in its theorems and in `MCCircuitBreaker`, so that `PipelineProofs` can use the
lemmas about the breaker through an instance; `OneBreaker` is those parameters and all the
workers in the process whose breaker it is. `SomebodyWillReport` (a half-open breaker with no
slot left is waiting for a worker, unless the limiter turned a test call away) is stated for
the composition and has no run of its own; the invariants it joins do.

The assumptions about `Delivery` are needed. `budget` shows what happens when the configured
limit is below the rows', section 4 what happens when it is above (the books do not balance),
and why the trail needs a limiter that never says no. With `resend` a message is in
the queue twice. With `redis` or `crash` nobody may be left to remove an entry of the
processing set.

`SoleCustodian` is not inductive. `CustodyInv` adds that nobody knows of a notification whose
row does not exist (so that creating it makes one custodian), and that what a worker is about
to write in `Claim` has status `processing` (so that this blind write never parks the row).
The heart of the argument is `ParkedStep`: a row becomes parked only by the worker that holds
it, in `HandleRetry`, or by being created as scheduled; every other blind write keeps or
removes a parked status.

`OneOutcome` needs `Decided`: once the provider has accepted, the only one who still has the
notification is the worker that sent it, on its way to `settle`; once a worker is to write
the dead-letter entry, nobody has it. `RowMaxRetries <= MaxRetries` is used in one place:
the row that handleRetry gives up is not one a poller selects.

The refinement follows from the same invariant: a closed notification is not picked up again
(`CarriedStep`), sending and burying map to `Accept` and `Bury` because the worker is the sole
custodian, creation maps to `Arrive`, and every other step lets go of some notifications or of
none (`Release`).

`FinalUnlessInFlight` rests on `CopyInv`: a worker that is about to write its row has loaded
it, and its copy says `processing`. A poller selects only parked rows, which are not final.

`NothingLeftProcessing` follows from `EntriesHaveWorkers`: an entry belongs to some worker that
has the notification as its message. That worker's own `Ack` comes later, and it does not matter
whose entry it removes. At rest there is no such worker.

`AttemptsInOrder` rests on `TrailInv`, about a notification with a custodian: the tries on
record are failures numbered up to the row's `retry_count` (plus one, between the record and
`handleRetry`), and the copy of a worker that holds it has the same count as the row. Two
facts carry the proof: `HolderIsAlone`, so that nobody else writes the row meanwhile, and
`CustodyPasses`, so that a trail that was closed by a success, or by the last failure, is never
written to again. A cancellation or a `Create` that marks its row late changes the status only.
The write-back of a throttled worker is the one that breaks the second half, for it comes after
the message has gone back to the queue.

`RestIsAccountedFor` adds `BooksInv`, what the row says for every place the notification can be
in: parked, with a poller, in the queue, with a worker at each of its steps, or closed, when
one of the three accounts must be complete. Equal limits are used where `handleRetry` parks a
row: it is then one that a poller selects, so the notification still has a custodian.

`PromiseIsEnough` shows that `Custody` is worth implementing: `OneOutcome` follows from it alone.

For the breaker, `SlotsInv` says that test calls are under way only while half-open, each in a
slot of its own, which bounds them; `NoLeakInv` adds that, as long as no test call was
abandoned, `halfOpenCount <= successCount + Cardinality(probes)`: a slot is in use or was
turned into a success. With no test call under way the slots handed out are at most the
successes counted, of which there are fewer than the success threshold. Calls admitted
before the episode only raise `successCount`, which keeps the inequality.

For the feed, `ClientInv` ties together what the hub, the reader and the writer know of a
client: the pumps run from the moment the hub knows it, not earlier; a client in the map has
an open channel, and one that is not has a channel closed at most once; and what was received,
is in hand and is buffered makes up `due` (a prefix of it, once it was dropped). Closing and
forgetting happen in one step of the hub, which is what makes this inductive. `WireOK` and
`ClientsOK` are the two halves of the type invariant.

The order within a source is `OrderInv`: what a client was relayed was published before what
is in the API's channel, and that before what is still on the way from Redis, source by
source, and each of these sequences is ascending (`Lane`, `Ahead`). That a source publishes
either in the API's process or through Redis, never both ways to one client, is what keeps the
two ways apart. What the client received is a prefix of what it was relayed (`NoGaps`'s
invariant), and losing or dropping events leaves subsequences.

For intake, `PlaceInv` says at which places of its handler a request can have a row, and
that what is about to be inserted has its `created_at`; `WholeInv` that the batch's rows are
all the accepted ones or none, and that none of its items is answered with a notification
before. Uniqueness itself is the constraint's: what has to be shown is that every answer
names a row that has the key. `PagingInv` says of every row that was there when the client
began and has not been shown that it is tied with another one, or that at least
`Offset(page)` rows are newer, so that the next page does not skip it. Rows
inserted meanwhile only add to the newer ones, and the page that is not full shows all that
is left. This uses the library's facts about the cardinality of finite sets.

For the limiter, `WindowInv` says that every admitted call whose window cannot be over by
anybody's clock is still a member of the sorted set: neither purged by a caller who is ahead
nor gone with the key. So counting the members counts at least the calls that matter. For
the queue, `QueueInv` ties a waiting message's score to its priority and to the time of its
enqueueing, up to `Lag` and `Lead`, and `PlaceInv` keeps a message in one place.

For the pipeline, `DeliveryStep` and `BreakerStep` map each of its steps to one of `Delivery`
and to one (or none) of the breaker, so that what is proved of either holds of both together;
`SoleCustodyInPipeline` is the example. A crash is no step of the breaker, which knows
nothing of restarts, and is left out of `GateIsBreaker`; but a restart re-establishes the
breaker's inductive invariant (`RestartedBreaker`), so its invariants hold all the same.
`CallersInv` then ties the two together: the calls the breaker has admitted and not heard of
are exactly the workers between `Allow` and the report. So the guard of `Allow`, which asks for
a caller that is not under way, never holds up a worker at the gate, and with `NoLeakInv` an
exhausted half-open breaker means that such a worker exists. The run `breaker_abandon` can get
stuck only because of the limiter: without its refusals and failures nothing leaks.

Only model-checked: liveness (`EventuallyAtRest`, `Recovers`, `PartingIsNoticed`), which is out
of the prover's reach. Every other property of a passing run is a theorem.

## 6. Not modelled

Left out for good: metrics (counters nothing reads back, no decision depends on them), the
HTTP router, middleware and health checks (no state), configuration (the constants),
tracing, the cache adapter (unused), the reads that only answer a GET, list filters and
totals, and the text of messages and templates (data). Delivery does not follow a request
that the provider accepted but whose answer was lost: without the provider's help the code
cannot tell it from one that failed, and it is sent again.

## 7. Plan

1. Done: all the modules of section 2, and every safety property of the passing runs as a
   theorem.
2. What is left of `AttemptsInOrder` when the limiter says no (numbers within the budget, one
   success), and a proof of it.
3. `Pipeline` with several processes, each with its breaker, and `Dispatch`'s limiter in front
   of `Delivery`.
