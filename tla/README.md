# Verification of the notifier

TLA+ specifications, TLC model checks and TLAPS proofs for the notification
service in this repository (Go; Postgres and Redis). Paths below are relative to
the repository root (`src/` in `PROJECT.json`).

## 1. The system

Three kinds of process share one Postgres and one Redis:

* **API** (`cmd/api`): HTTP handlers over the use cases. Each request is a
  goroutine; it also runs the WebSocket hub and its Redis bridge.
* **worker** (`cmd/worker`): `WORKER_CONCURRENCY` goroutines that dequeue and
  deliver, plus *one promoter over the retry set in every worker process*
  (`cmd/worker/main.go:53`), so scaling workers scales promoters.
* **scheduler** (`cmd/scheduler`): one promoter over the scheduled set.

| Component | State | Operations | Interacts by |
|---|---|---|---|
| create (`usecase/create_notification.go`) | row, queue or scheduled entry, idempotency key | look up key, build and validate, claim key, insert, place the item, write `queued` | SQL, Redis; its last write races the workers |
| create batch (`usecase/create_batch.go`) | batch row, items | size check, row, then items one by one up to the first error | create |
| cancel (`usecase/cancel_notification.go`) | row, queue, scheduled set | check, remove from lists, remove from scheduled set, write `cancelled` | SQL, Redis; races creation, workers, promoters |
| process + worker loop (`usecase/process_notification.go`, `worker/loop.go`) | row, attempts, retry set, dead-letter list | dequeue, load, ask limiter, mark, send, log, deliver / dead-letter / requeue | SQL, Redis, provider |
| promoters (`scheduler/*.go`, `adapter/queue/redis/zset.go`) | scheduled and retry sorted sets, queue | snapshot, remove, enqueue | Redis; promoters race one another |
| queue, sorted sets, DLQ (`adapter/queue/redis`) | lists per priority, two sorted sets, a list | LPUSH, BRPOP, LREM, ZADD, ZRANGE, ZREM | shared by all processes |
| idempotency store (`adapter/idempotency/redis`) | key to id, 24 h | SET NX, GET | concurrent creates |
| rate limiter (`adapter/ratelimit/redis`) | counter per channel and second | INCR, EXPIRE | all workers |
| provider client (`adapter/provider/webhook`) | none | POST, 202 or error | external |
| repositories (`adapter/repository/postgres`) | notifications, attempts, batches, templates | single statements, no transaction across calls | all processes |
| queries (`usecase/queries.go`, `List`, `StatusCounts`) | none | count, page, counts of a batch | reads of rows that change meanwhile |
| templates, rendering, validation (`usecase/templates.go`, `domain`) | templates table | store, find, render, check | create |
| HTTP layer (`adapter/http`) | none | binding, defaults, error mapping | API use cases |
| event stream (`adapter/ws`) | subscriber channels | subscribe, unsubscribe, publish, forward | pub/sub from workers to the API |
| config, wiring, connections, observability | none | start-up, metrics, logs, traces | - |

**What is hard here.** No operation is atomic: every handler is a sequence of
single-statement calls to two stores with no transaction and no lock, so any two
handlers interleave between calls. BRPOP is destructive, so a popped item exists
only in its worker. Status writes are unconditional (`UPDATE ... WHERE id`), so
the last writer wins. Errors of several calls are ignored. A process may die, or
be stopped, between any two calls. Keys and counters in Redis expire by
themselves. A list is paged with LIMIT/OFFSET over rows that move. The properties
below are about those facts: an item is never duplicated, lost only by a
failure that struck it, sent within a known budget, a success is about something that is stored,
and rows end up telling the truth - and where the code does not keep what its
documentation says, a run shows the behaviour that breaks it.

## 2. Modules

| Module | Models | Extends |
|---|---|---|
| `NotifierState` | constants with their assumptions, all variables, the store operations, faults, where a work item is (`Place`, `Holds`) | |
| `CreateNotification` | `CreateNotification.Execute`, one action per remote call | `NotifierState` |
| `CancelNotification` | `DELETE /notifications/{id}` | `NotifierState` |
| `ProcessNotification` | a worker goroutine | `NotifierState` |
| `Promoter` | `scheduler.Run` + `duePromote` over either sorted set | `NotifierState` |
| `Notifier` | the composition: `Next`, `Fairness`, the pipeline's properties, the refinement mapping | the four handlers |
| `DeliveryContract` | abstract specification: what is promised for a stored notification | |
| `Requests` | what a request asks for; binding, rendering, validation as pure operators | |
| `Batch` | the write side of the REST API over the notifier: single creates, batches, templates, answers | `Notifier`, `Requests` |
| `Listing` | `GET /notifications`: a client that pages while rows come and change | |
| `Throttling` | the rate limiter and the retry set on one clock | |
| `EventStream` | status events from the workers to WebSocket clients | |
| `MCNotifier`, `MCBatch`, `MCListing`, `MCThrottling`, `MCEventStream` | instances for TLC | their module |
| `NotifierProofs`, `IdempotencyProofs`, `OutcomeProofs`, `BooksProofs`, `BatchProofs`, `ListingProofs`, `ThrottlingProofs`, `EventStreamProofs` | TLAPS theorems, section 4 | |

`Batch` composes with `Notifier`: its requests take the create steps, and
everything else the notifier does (`Backend`) goes on beside them, so every behaviour
of `BatchSpec` is one of `Notifier` by construction. `Throttling` opens what `Notifier` leaves open, when
the limiter says no and when a due time passes. `Listing` and `EventStream` stand
on their own: one only reads rows, the other is only published to, and neither
changes what a worker or a request does next.

### The pipeline: `Notifier`

One step is one remote call. Between two calls a handler is described by its
local variables: `cpc`, `outcome`, `answer` (create), `xpc`, `xid`, `xatt`
(cancel), `wpc`, `wid`, `watt` (worker), `ptodo`, `pheld` (promoter). The rows are
`status`, `attempts` and `audit` (how many `delivery_attempts` a notification
has). A Redis list is a multiplicity per id (`queue[n]`); an id is always pushed
with the same priority, so `PriorityOf` names its list, and `HeadOfLine` is the
key order of BRPOP. The order inside one list is abstracted: any id of the first
non-empty list may be popped. A sorted-set member is `absent`, `waiting` or
`due`; `Elapse` is the clock reaching its score; ZADD of a present member makes
it wait again. `removeByID` reads the set and removes in two commands; that is
one step here, because only the removal changes anything and its absence from
the snapshot and a later insertion commute (an id is added to the scheduled set
once, by its creator).

A create request *is* the id it generates, so `Notif` is the set of requests; a
request answered from its key never gets a row. What validation makes of the
content is a verdict that `Build` takes: any of the three in `Notifier`, the one
`Requests` computes in `Batch`. `Limit` lets the rate limiter answer either way,
`Send` lets the provider answer either way; `accepted` means that `Send` returned
no error. What the provider did with a request whose answer was lost is outside
the model.

**Failures.** `CreateAbort`, `CancelAbort`, `WorkerAbort` and `PromoterAbort` end
a handler between any two of its calls. They stand for a process that dies, a
worker that is stopped (its calls share the cancelled context), and a call that
fails where the code returns the error. A call that takes effect but whose reply
is lost is that call followed by the abort; for the last call of a create request,
after which there is nothing left to abort, `Finish` lets the answer be an error.
Where the code ignores an error and
goes on, `Ignored` lets the call take effect or not. Each failure uses one of
`MaxFaults`.

`sends`, `confirmed`, `cancelReq` are history: provider calls made, an accepted
answer seen, a cancel request that passed its check. No guard reads them.

Properties:

* `TypeOK` - types, and that a process has an item exactly while it is in its
  handler.
* `SingleToken` - a notification has one work item in one place: to be placed by
  its creator, in the list, in one sorted set, with one promoter or one worker.
  This is what makes the rest true: no two workers process the same notification.
* `LossesBounded` - no more notifications are lost (neither on their way, nor
  accepted, dead-lettered or asked to be cancelled) than failures have happened: a
  promoter that dies with one item loses that one and not its snapshot, a worker the
  item it popped, a failed dead letter or re-queueing its own item. Without failures
  nothing is lost.
* `SendsBounded` - without failures a scheduled notification is sent at most
  `MaxAttempts` times (at least once, whatever the setting), an immediate one at
  most `2 * MaxAttempts - 1` times. The README promises `MaxAttempts`; the
  difference is the creating request, whose last write resets `attempts` to 0
  after a worker may have counted (finding `delivered_overwritten`).
* `AttemptsMatchAudit`, `RowTellsOutcome` - the books of a scheduled
  notification: `attempts` counts the attempt rows, and once the item is gone the
  row is `delivered` iff the provider accepted and otherwise `failed` with exactly
  one dead letter.
* `SettledIsFinal` - once a row is final and no handler acts on an older read, no
  leftover item, retry, duplicate or cancel request starts to work on it again:
  its row does not change and it is not sent.
* `PromotedOnlyWhenDue` - with one promoter per set.
* `SameKeySameNotification` - requests with one key that succeed agree, also when
  the key expires in Redis: the UNIQUE constraint decides.
* `Contract` - the refinement of `DeliveryContract`: delivered once and never
  tried again; dead only after `MaxAttempts` tries and never tried again; dropped
  only with an excuse (a cancel request that passed its check, or a failure).
  `Phase` is the mapping; it reads the row, the history and `Live`.
* `EventuallyResolved`, `ScheduledSettles` - liveness, without failures.

### The API: `Requests` and `Batch`

A request is a record of what the checks can tell apart: channel, priority,
whether there is a recipient, the length of its content, its template and the
lengths of the values it supplies. `Bound` is `ShouldBindJSON` with the
`required` tags, which gin applies to a single request and, since the item type of
a batch has no `dive`, not to the items; `Verdict` is `Templates.Get`, `Render` and
`ValidateNotification` with the templates stored at that moment. Lengths are
abstract units, so the difference between bytes and characters does not appear.

`request` never changes. `bpc` is the next step of a batch request: the size check
(`BatchStart`), `Batches.Create`, which may fail (`BatchRow`), then the items.
`Turn` is the loop: an item takes its create steps when those before it ended
`ok`; `Ended` is what `CreateBatch.Execute` returns; `Code` is `writeError`.
`CreateCalls` are the actions of `CreateNotification` themselves, including the
abort, so a batch item can die anywhere and single requests, batches and their
repetitions race for keys. `StatusCounts` is `GET /batches/{id}`.

* `SuccessIsStored` - a 201 is about a stored notification, and a created batch
  has one per item, whoever claimed the keys and whenever they expire.
* `RefusedLeavesNothing` - a request refused for what it asks has no row, no work
  item and no claim on its key, so the corrected request is not taken for a
  duplicate of nothing.
* `BatchIsPrefix` - a failed batch leaves a prefix of its items, behind its row. (The
  design, section 6.1, says that a batch is inserted in a single transaction; the code
  stores and enqueues one item after the other, and a prefix is what is left of that.)
* `BatchAccounted` - the counts of a created batch fall short of its total
  exactly by the items that were answered with an older notification.
* `StoredFits` - what is stored fits its channel *after* rendering.

### Reading: `Listing`

A client asks with a filter, a limit and an offset, and goes on behind the rows it
got until a page is empty. `Count` and `Select` are the two statements of `List`;
between them and between pages rows are stamped (`Clock.Now()`), inserted some
calls later and so out of order, and change status. Rows with one time stamp come
in any order. `seen`, `steady`, `left` and `between` are history: rows received, rows
that matched from the first request on, how often a row ceased to match since then,
and how often between the two statements of the present request.

* `SkipsOnlyForLeavers` - paging to the end misses at most one steady row for each
  row that ceased to match meanwhile, whatever limit was asked for (0, above the
  cap and a negative offset included), if time stamps are distinct. With equal ones
  the ORDER BY promises nothing.
* `TotalIsReachable` - a page that is not full reaches the total of its own answer,
  short of it by at most the rows that ceased to match between the two statements
  (`between`). It is about every page, however many rows left before.
* `PagingAdvances` - a page starts further down than the one before and within the
  rows there are, whatever offset (a negative one too) and limit the client began with.
* `PagingEnds` - so paging comes to an end although rows are added behind it, of which
  there are finitely many (`Rows`); of a table that grows for ever nothing is said.

### The rate limiter: `Throttling`

`Notifier` lets the limiter answer either way; here are its counters: `Take` names
the window by the clock, `Incr` counts, `Expire` gives the new key its two
seconds or fails, `Decide` sends the item or reads the clock again for
`Retry.Schedule`. A second has `Fractions` instants, so that cutting times to
whole seconds, `Retry.Schedule` and the promoter, can matter. Workers and Redis
share one clock. One worker process is modelled, hence one promoter, and `Promote`
may be one step (several promoters: `Promoter`). A worker may pause anywhere.
Items come back and ask again, so a window is asked more often than there are items.

* `WindowLimit` - a window lets no more than `PerSec` through until two seconds
  after it began.
* `BurstBounded` - any one second lets through at most two windows and one late
  answer per worker: what a fixed window costs. The documentation promises the limit
  itself (`AtMostPerSecond`, run `rate_exceeded`).
* `RetriesMeetNewWindow` - a throttled item does not ask the window that refused
  it again, despite the truncation.
* `CountersExpire` - unless a call failed, every counter gets an expiry.

`RetriesMeetNewWindow` and the renewal of windows are what `Notifier` assumes of the
limiter in its fairness.

### The event stream: `EventStream`

Here the grain is finer: one step is one channel operation of a goroutine, because
the hub is shared memory. `Match` is the bridge taking a message and `Hub.Publish`
taking the read lock, `Offer` one non-blocking send, `Release` the unlock; between
them handlers may run, except for `Subscribe` and `Unsubscribe`, which need the
write lock and are one step each. Go ranges over a map in any order, and so does
`Offer`. `Client` is the other end of a connection: it reads, stalls (`WriteJSON`
blocks; it has no deadline) or leaves. An event may be lost anywhere before the
bridge, as Redis pub/sub allows. `got`, `owed` and `crowded` are history: what a client
received, what the hub saw for it, and which of that found its channel full. The handler's other
exits (the request's context, a closed channel) cannot happen: the connection is
hijacked and only the handler closes its channel.

* `NoSendOnClosed` - a channel `Hub.Publish` has still to reach is open. A send on
  a closed channel panics and would take the API process down.
* `StreamInOrder` - a connected client gets events of its own key only, each once,
  in publication order, and misses only those that found its channel full when the
  hub saw them, whatever it received or lost before.
* `PublishReturns`, `GoneIsForgotten` - a stuck client does not block the bridge,
  and a client that left leaks neither goroutine nor channel.

### Fairness

In `Notifier`, `Fairness` is weak fairness of each handler's next step, of each
promoter and of the clock: goroutines are scheduled, tickers tick, and calls
return. Two assumptions are strong. A queued id is dequeued if it can be again and
again: within a list Redis is FIFO and the lists above it drain because there are
finitely many notifications (the code gives no such guarantee under an endless
stream of higher priorities). An item that keeps asking the rate limiter is let
through: it asks a new window each time, and a window that nobody else fills has
room. Starting a cancel request and expiring a key need no fairness. Failures are
excluded from the liveness run (`MaxFaults = 0`): a popped item whose worker dies
is lost, and no fairness brings it back.

In `Listing` the client goes on and each of its requests is answered, be it with an
error (`WF(Paging)`); the rows owe nothing.

In `EventStream` the goroutines get to run (weak fairness of the bridge, the
handlers and the readers). A `select` picks at random among its ready cases, so a
handler whose connection has ended does not receive for ever; and Go's `RWMutex`
lets a waiting writer in before new readers, so `Subscribe` and `Unsubscribe` get
the lock (strong fairness of both). Clients and publishers owe nothing: a client
may stall for ever.

## 3. Runs

Passing runs (all of them check deadlock):

| Run | Instance | Checks |
|---|---|---|
| `pipeline` | 1 immediate + 1 scheduled, 2 workers, a promoter per set, 1 canceller, 2 attempts, 1 fault | `TypeOK`, `SingleToken`, `LossesBounded`, `SendsBounded`, `AttemptsMatchAudit`, `RowTellsOutcome`, `Contract`, `SettledIsFinal`, `PromotedOnlyWhenDue` |
| `scaled` | 2 immediate requests with one key, 2 workers, 2 promoters on the retry set, 1 canceller, 3 attempts, 2 faults | `SingleToken`, `Contract` |
| `liveness` | 1 immediate + 1 scheduled, 1 worker, a promoter per set, 1 canceller, 2 attempts | `EventuallyResolved`, `ScheduledSettles` |
| `batch` | a batch of 2 (one scheduled), the same again in part, an empty batch, a single request; 2 keys that expire, 1 template, 1 fault | `BatchTypeOK`, `SameKeySameNotification`, `SuccessIsStored`, `RefusedLeavesNothing`, `BatchIsPrefix`, `BatchAccounted`, `StoredFits` |
| `listing` | 3 rows of 2 channels, 3 time stamps, 2 status changes; 3 filters, limits 0, 1, above the cap and unparsable, offset -1 | `TypeOK`, `SkipsOnlyForLeavers`, `TotalIsReachable`, `PagingAdvances`, `PagingEnds` |
| `throttling` | 2 items, 2 workers, a limit of 1, 4 seconds of 2 instants, 1 fault | `TypeOK`, `WindowLimit`, `BurstBounded`, `RetriesMeetNewWindow`, `CountersExpire` |
| `stream` | 2 notifications, one of them in a batch; 1 client of the id and 1 of the batch; buffer of 1, 2 events | `TypeOK`, `NoSendOnClosed`, `StreamInOrder`, `PublishReturns`, `GoneIsForgotten` |

Violation runs, each a smallest instance in which the code does what its
documentation excludes (`findings` in `PROJECT.json` quotes the lines):

| Run | Property | What happens |
|---|---|---|
| `delivered_overwritten` | `DeliveredIsFinal` | create's last write turns `delivered` into `queued`, for good (and resets `attempts`) |
| `cancelled_then_sent` | `CancelledNotSent` | a worker marks the row, the cancel request commits, the worker sends |
| `duplicate_not_found` | `DuplicateReturnsOriginal` | key claimed before the row exists: the duplicate gets 404 |
| `promoted_early` | `PromotedOnlyWhenDue` | two retry promoters, a stale snapshot, a retry before its interval |
| `rate_exceeded` | `AtMostPerSecond` | two windows let their limit through within one second |

**Bounds.** Two notifications of different priority and origin are enough for one
to overtake, delay or be confused with the other; properties are per
notification, or per pair for keys. Two workers and two promoters of one set are
the smallest races; more are symmetric. Two attempts give a first and a last
failure, the three of `scaled` one in between. One fault anywhere covers every
single failure, `scaled` every pair of them (its two requests share a
key, so at most one of them is stored). The `batch` run has no workers: what
they do to a stored notification is the pipeline's, and `Batch` reads their
effect through `Exists` alone, which they never change. A batch of two has a
first, a last and a middle to fail at; the other batch and the single request
carry the key of its first item. Three rows are the smallest list in which a page
of one can skip a row that is neither first nor last. In `throttling` two items
are one more than a window takes, and four seconds let a window expire, an item
come back and an old window be asked late. For the event stream a buffer of one
and two events are enough to fill it, to skip a client and to overtake.

The bounds inside the modules are `MaxFaults`, and `MaxTime`, `MaxChanges`
(`Listing`), `LastSecond` (`Throttling`), `MaxEvents` (`EventStream`); attempts are
bounded by the code, cancel requests are unbounded in number (only their
concurrency is bounded by `Cancellers`). Every model has a state of rest (`Idle`,
`Rest`, `Ended`), a step that changes nothing, so that TLC's deadlock check reports
every other state without a step. Symmetry is used in safety runs only.

Every property of a passing run has a mutant in `PROJECT.json`: an operator next
to the definition it replaces, marked as mutant, that changes it the way a
plausible bug would. They are not used by the specification.

## 4. Proofs

The theorems hold for every value of the constants that satisfies the named
assumptions (`ConstantsAssumption`, `PlacesAssumption`, `BoundsAssumption`,
`BatchAssumption`, `LimitsAssumption`, `ThrottlingAssumption`, `StreamAssumption`): any set of
requests, keys, workers, promoters, cancellers, batches, items, rows, connections, any
attempt limit, and, unless the property says otherwise, any number of failures.
Each rests on an inductive invariant with one lemma per group of actions; `Apart`,
`Grounds` and the others say more than the property because it is not inductive by
itself. All of it was checked with TLC first.

**`NotifierProofs`**
* `TypeCorrect`: `TypeOK` is inductive as it stands because it says of each process
  that it has an item exactly while it is in its handler. It is split by owner of
  the variables, so each action only discharges the groups it writes (`TypeFrame`
  is the rest).
* `SingleTokenCorrect`: the invariant is `AllApart`, `SingleToken` with the places
  written out pairwise, so that the provers need no reasoning about the set
  `Place`. Each action moves the item from the one place its guard finds it in, so
  all others are known to be empty before and after. This holds for any number of
  promoters on one set - the check of the ZREM result carries it.
* `PromotedOnlyWhenDueCorrect`: under `OnePromoterPerSet`, the members of a snapshot
  stay due or are cancelled (`SnapshotFresh`). The hypothesis is the deployment
  with one worker process; `promoted_early` is the counterexample without it.

**`IdempotencyProofs`** - `SameKeyCorrect`. `KeysKept` says that a claimed key names
a request of that key, that the rows satisfy the UNIQUE constraint, and that a
request which succeeded, or is about to, has a stored answer of its key. Keys may
expire at any time.

**`OutcomeProofs`** - the refinement.
* `ContractCorrect`: `Spec => Contract`. The mapping reads the history (was it
  accepted, was a cancel accepted) while the handlers only read rows, so the
  invariant `Reasons` says why each thing a handler acts on is true of the
  history: a row that says `delivered` was accepted, one that says `cancelled` had a
  cancel request, the attempts in a row or read by a worker were sent, an accepted
  or dead-lettered item is nowhere but with the worker that is about to drop it.
  `ContractStep` then maps every step to a step of the contract or a stutter.
* `LossesBoundedCorrect`: the lost notifications are counted together with those that
  are about to be lost, held by a worker whose dead letter failed (`Sunk`), because the
  failure comes a step before the loss. Each step adds none of them, or one and a
  failure (`Paid`); the lemmas `CreateSpares`, `CancelSpares`, `ProcessSpares`,
  `MoveSpares` say which item a step can touch and serve the contract too. There may be
  infinitely many notifications: that the sunk ones are finitely many is part of the
  invariant.
* `SettledIsFinalCorrect`: a settled row is not worked on because `Load` returns for
  `delivered` and `cancelled`, and because the item of a `failed` row is gone
  (`FailedIsGone`) and does not come back (`NearShrinks`).

**`BooksProofs`** - the arithmetic without failures.
* `SendsBoundedCorrect`: `Spent` relates the sends to the attempts in the row, and
  to the ones its worker read, up to `Slack`, the one reset an immediate
  notification may suffer.
* `AttemptsMatchAuditCorrect`, `RowTellsOutcomeCorrect`: `Books` follows the row of a
  scheduled notification through each call of its worker.

**`BatchProofs`**
* The lemma `BatchImplements`, `BatchSpec => Spec`, only says how `Batch` is built; it
  carries the theorems above over to the API (`BatchSingleToken` is an instance).
* `SuccessIsStoredCorrect`, `BatchIsPrefixCorrect`: `Api` adds how requests and
  batches end (`Ending`) and that items begin in turn behind the batch row
  (`InTurn`) to `KeysKept`.
* `StoredFitsCorrect`: a request past `Build` fits (`Checked`); templates are only
  added.
* `RefusedLeavesNothingCorrect`: before `Build` and after a refusal there is no row
  and no claim (`Clean`); that no work item is left is `AllApart` at `Build`, where
  the item is with its creator, and `NearShrinks` afterwards.
* `BatchTypeCorrect`; `BatchAccountedCorrect`: an item of a created batch has a row of
  its own if and only if it is answered with itself: with a key, because two rows
  do not have one key; without, because such a request never fetches another
  (`OwnAnswer`). A row has one of six statuses (`StatusesCounted`), so the items are
  the disjoint union of what is counted, and there are as many as positions in the
  batch (`ItemsCounted`).

**`ListingProofs`** - `ListingTypeCorrect`; the three others are about what the SELECT
finds, so lemmas say first what a sorted query is (`SortedFacts`) and what a page of
it holds (`IsPage`, `PageFacts`), and `TableCases` that a change of the table either takes no
row from the matching ones (`Grows`) or one, which is counted (`Leaves`).
* `TotalIsReachableCorrect`: between the two statements the matching rows fall short of
  what was counted by at most the rows that left (`TotalInv`), and a page that is not
  full holds all of them behind the rows it skips.
* `PagingAdvancesCorrect`: a page that is not empty ends within the rows there are
  (`Within`), and no row is ever deleted (`StoredGrows`), so the next one starts
  further down and still within them.
* `SkipsOnlyForLeaversCorrect`: the rows the client will miss by going on at an
  offset are the steady, unseen ones with fewer rows ahead of them than that
  (`Late`). The invariant `SkipInv` bounds them by `left` at every step: a
  new row, wherever it comes in the order, only sends others further back
  (`LateShrinks`); a row that leaves brings at most one from behind the offset
  before it, because no two are the same number of rows behind the first
  (`LateByOne`, `OneAtEach`); the rows of a page are behind exactly the rows skipped
  (`Position`), so none of them becomes late. The hypothesis `FromTheTop` is that the
  client asks for the first page first: one that starts at a later offset skips the
  rows before it because it asked to.

**`ThrottlingProofs`** - `ThrottlingTypeCorrect`, `WindowLimitCorrect` (a key is not
given an expiry before its window has begun, so it counts every answer of its first
two seconds), `RetriesMeetNewWindowCorrect` (a due time is in a later second than the
window asked), `CountersExpireCorrect`.
* `BurstBoundedCorrect`: what a second lets through is split by the age of the
  window. Counts of a key that has not expired are not given twice, so the two
  windows of the second account for `2 * PerSec`; and of the answers of older
  windows a worker has one, because it named the window of its next answer after it
  got the last (`Burst`). `AdmissionIsNew` says that the history takes no answer
  for an earlier one, so the set counts what was let through.

**`EventStreamProofs`** - `StreamTypeCorrect`; `NoSendOnClosedCorrect`: the channels in
the hub are open (`OpenInv`). The step that matters is `Unsubscribe`: it closes a
channel, and holding the lock means that no publication is under way, so none is
left to reach. `StreamInOrderCorrect`: for each client in the hub, what arrived is
part of what is owed and in its order, and what is owed and did not arrive found the
channel full (`Ordering`). To stay so it needs that the events not yet matched are
later than those owed (`WireInv`), that the event being published is the last one owed
to those it has still to reach (`TodoInv`), that a channel which had room when the hub
saw an event still has it at the offer, since only the bridge fills it (`RoomInv`),
and what a handler holds at each of its stages (`StageInv`).

**Only model-checked:** all liveness (`EventuallyResolved`, `ScheduledSettles`,
`PagingEnds`, `PublishReturns`, `GoneIsForgotten`), which is out of the prover's
reach; for `PagingEnds` the measure that shrinks is proved (`PagingAdvancesCorrect`:
an offset grows with each page and stays within the finitely many rows), and only the
step from it to termination under fairness is left to TLC. Every invariant and action property of the passing runs is stated by a
theorem.

## 5. Not modelled, and why

* **Client libraries**: the Redis client retries commands on a network error, and a
  repeated LPUSH would put an id twice into its list; nothing in this repository
  sees or prevents that, and `SingleToken` assumes it away. Loss of data inside
  Redis or Postgres likewise.
* **The provider** beyond the result of `Send`: whether a request whose answer was
  lost was delivered.
* **Starvation** of low priorities under an endless stream of high ones (design
  6.2): every instance has finitely many notifications and the fairness of
  `Dequeue` assumes that the lists drain.
* **Data that no property is about**: the text of messages and templates, bytes
  versus characters of a length, JSON of bodies and members, the order inside one
  list, the limit and offset that a list answer echoes, and that the channel of a
  template is never compared with the channel of the request that uses it.
* **Stops of the API process**: for requests they are faults; for the event stream
  they end every part of it at once.
* **Code without state of its own**: health checks, routes and middleware, metrics
  (`Depth` and `Size` only feed gauges), logs, traces, connection set-up, parsing of
  the environment, and scripts.
* **Dead code**: `NotificationRepo.CreateBatch`, the transactional insert that
  nothing calls; the batches that are stored are those of `BatchIsPrefix`.
