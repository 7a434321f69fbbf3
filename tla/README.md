# Verification of the dispatch engine

TLA+ modules, TLC models and TLAPS proofs for the notification dispatch engine
in `src/`. The code is the reference: definitions are translated from it, and
`PROJECT.json` names the lines each one stands for.

## The system

One process runs an HTTP API and a set of background goroutines over three
services.

| Part | State | Operations | Talks to |
|---|---|---|---|
| Notification service (`internal/service/notification_service.go`) | one goroutine per request | `Create`, `CreateBatch`, `Cancel`, reads | table, queue |
| Worker service (`worker_service.go`) | `WORKER_CONCURRENCY` goroutines | `processMessage`: claim, wait, send, record, settle | table, queue, limiter, provider |
| Scheduler (`scheduler.go`) | snapshot of due rows | scan, publish, `MarkQueuedIfAccepted` | table, queue |
| Retry scanner (`retry_scanner.go`) | snapshot of due rows | scan, publish, `ClearNextRetryAt` | table, queue |
| Repositories (`internal/repository`) | tables `notifications`, `notification_attempts`, `batches` | one SQL statement each, no transactions | PostgreSQL |
| Queue (`internal/queue`) | durable queue per channel, dead-letter queues, one shared connection | publish, consume, ack, nack, reject, reconnect | RabbitMQ |
| Rate limiter (`internal/infra/redis/ratelimiter.go`) | counter per channel and second | `Allow`, `Wait` | Redis |
| Provider (`internal/provider`) | none | `Send`; errors are transient or permanent | HTTP |
| `cmd/api/main.go` | | start-up, signal handling, shutdown | all |

What makes it hard:

* The row and the message are in two systems, written one after the other with
  no transaction. Between any two calls another goroutine, or a crash, may act.
* `UpdateStatus` names only the row id. It overwrites whatever is there.
  `LockForSending`, `Cancel` and `MarkQueuedIfAccepted` are conditional.
* Delivery is at least once: a handler error requeues the message, and a lost
  AMQP channel redelivers a message whose handler is still running. Publishing
  has no confirms, so delivery can also be zero times.
* An error of a call does not say whether it took effect.
* `SENDING` has no owner and no lease. After a failure nobody takes it back.

What should be true of it: one sender at a time, at most `max_retries` calls,
an attempt log that matches the calls, final statuses and cancellations that
hold, nothing lost without a failure, a back-off between attempts, batch
results that are true, queues that run empty, consumers that end when told to,
and due notifications that settle. `PROJECT.json` lists the hazards line by line.

## Modules

Each component is a module with its own variables. The parts that share the
notification rows extend one another and `Dispatch` composes them;
`RetryTiming` adds a clock to that composition. `RateLimiter`, `Connection` and
`Consumer` stand alone: the rest sees only their results (`Wait` returns nil or
an error, `Publish` works or fails, a channel is lost, a message is delivered
again), and `Dispatch` allows all of these at any time. `BatchService` extends
the rows only, see below.

| Module | Models |
|---|---|
| `Failures` | the budget of failures, and what an error of a SQL statement can mean |
| `NotificationRepo` | the rows, one operator per repository method that writes them |
| `Broker` | RabbitMQ (external) and `RabbitMQPublisher.Publish` |
| `NotificationService` | `Create` call by call, `Cancel` |
| `WorkerService` | `processMessage` call by call, `handleDelivery`'s ack and nack, loss of the AMQP channel |
| `Scheduler`, `RetryScanner` | the two scan loops |
| `Dispatch` | all of them, time, crash and restart, fairness, and the properties |
| `Lifecycle` | the abstract specification of a row's status |
| `RetryTiming` | `Dispatch` with `computeRetryDelay` and a clock for `next_retry_at` |
| `BatchService` | `CreateBatch` call by call, the batch row |
| `Consumer` | `Consume`, `consumeOnce`, `handleDelivery`; the work queue and its dead-letter queue |
| `RateLimiter` | `Allow` and `Wait` for callers with clocks of their own, and the keys in Redis |
| `Connection` | the shared AMQP connection: `channel`, `reconnectWithBackoff`, `Close`, and the stages of `main`'s shutdown |
| `MCDispatch`, `MCTiming`, `MCBatch`, `MCConsumer`, `MCLimiter`, `MCConnection` | values of the constants for TLC |
| `InvariantProofs` | what each statement does to the types, and the inductive invariant; `TypeCorrect`, `SendIsExclusive` |
| `LifecycleProofs` | a worker's attempt number is current; `ImplementsLifecycle`, `LogIsInOrder` |
| `ClientProofs` | what a client relies on: `CancellationHolds`, `SentHasAttempt`, `KeyDeliversOnce`, `SendingHasOwner`, `NothingIsLostEarly` |
| `BudgetProofs` | what the provider sees: `BudgetIsKept`, `NothingSentTwice`, `OverwriteIsBounded` |
| `TimingProofs` | the back-off: `TimingImplementsDispatch`, `DelayDoubles`, `DelaysAreCapped` |
| `BatchProofs` | `CompletedMeansHandedOver`, `LossesAreReported`, `FailedItemsStayUnsent` |
| `ConsumerProofs` | `NothingEverVanishes`, `AlwaysOneLiveDelivery`, `NeverHeldAfterReturn`, `RedeliveryIsPaidFor` |
| `InfraProofs` | the connection: `DialsReplaceLosses`, `ConnectionsAreClosed`, `NilNeedsClose`; the limiter: `KeysKeepTheLimit`, `SecondsKeepTheLimit`, `RefusalIsJustified`, `KeysAreRemoved` |

Correspondence:

* A row is a notification id; each column that matters is a function of ids.
  `status[n] = "ABSENT"` before the insert. A timestamp is `null`, `future` or
  `due`, because the code only compares it with now.
* `creator[n]` is the program counter of the one `Create` call for row `n`,
  `pc[w]` that of worker `w`. A step is one call to an outside service plus the
  local code up to the next call.
* A failed statement (`Outcome`) may or may not have been applied, and the code
  sees an error in both cases.
* `ready[n]` counts the copies of `n`'s message in its queue, `unacked[w]` is
  what worker `w`'s consumer holds. `ChannelLost` returns the copy to the queue
  while the handler goes on. The AMQP channels share one connection, so a lost
  connection is a `ChannelLost`, and a failure, for every worker that holds one.
  `Crash` loses all goroutines, requeues everything unacknowledged and keeps the
  rows.
* `RateLimiter`: `call[c]` is "trying" between reading the clock and the answer
  of Redis. Time is counted in back-off steps. A key that expires disappears,
  and the next increment starts it again at 1.
* `Connection`: a connection is the number of its dial. `pc[t]` names the places
  in `channel` and `reconnectWithBackoff` between which other goroutines act;
  a critical section of `mu` is one step. `conn.Channel()` on nil is "panic".
  On a broken connection it fails, and on a live one it, or the topology, may.
  `stage` is how far `main` is: `stop()` cancels the context of the workers and
  scanners, an HTTP handler has the context of its request, which ends when the
  server is shut down, and only then is the connection closed.
* `Consumer`: `place[m]` is where the broker has a message, `delivery[c]` what
  consumer `c` has in its hands. After a lost channel the two differ, and the
  delivery is stale. `ConsumerStep` is a step of one goroutine of
  `WorkerService.Start`; the handler is `processMessage`, here only its result.
* `BatchService`: `batchPc` is the next call of `CreateBatch`. A chunk of
  `CreateInBatches` is one INSERT that commits by itself, since gorm runs with
  `SkipDefaultTransaction`. `due` is what `shouldEnqueueImmediately` finds at
  the one `now` of the loop, and `SkipItem` its `continue`. Workers, the
  scheduler, cancels and other creates appear in `Others` as what they do to a
  row and its message. They are allowed more than in `Dispatch` (a scan may be
  stale for ever, a worker writes any status after its claim), which keeps the
  instance small and only adds behaviours.
* `RetryTiming`: `remaining[n]` counts down to `next_retry_at`. `Dispatch`
  lets a retry fall due at any moment, so every behaviour here is one of
  `Dispatch`.
* `cancelAcked`, `sends`, `accepted`, `granted`, `created`, `strayed`, `losses`,
  `calls`, `handled` and `elapsed` are history variables. No action reads them.
* Operators introduced by a comment `Slip:` are plausible bugs. They are not
  part of the specification; each shows that some property notices it.

`Overwritten(n)` marks the rows on which `Create`'s own last `UpdateStatus`
replaced what somebody else had written. That update is unconditional and comes
after the publish, so it may put a row that was cancelled, claimed or even sent
back to `QUEUED`, or to `FAILED` when the publish failed. When it finds
`ACCEPTED`, as it usually does, or the status it writes, nothing is overwritten.
Most guarantees hold for every row but the overwritten ones, and are stated so.
A notification left to the scheduler is never overwritten.

## Runs

| Run | Instance | Shows |
|---|---|---|
| `faults` | 1 notification, 2 workers, 1 failure, 1 or 2 attempts | all invariants below, and the refinement |
| `timing` | 1 notification, 2 workers, 3 attempts, base delay 2, cap 3, jitter 0 or 1, no failure | `BackoffRespected` |
| `keys` | 2 notifications, 1 key, 1 worker, 1 failure | `OneDeliveryPerKey` |
| `deferred` | 1 scheduled notification, 1 worker, 3 attempts, 2 failures | `DeferredSettles` (liveness) |
| `drain` | 2 channels, 2 workers, 1 failure | `QueuesDrain` (liveness) |
| `limiter` | 2 callers, limit 2, a second of 2 ticks, skew of 1 tick, times 0 to 4, 1 failure | the limiter's invariants |
| `connection` | a worker and a handler, 2 failures, 5 dials | the connection's invariants, `ChannelAnswered` and `StopEndsWaiting` (liveness) |
| `batch` | 2 items in 2 chunks, 1 other create, 1 key, 2 failures | what a batch says about itself |
| `consumer` | 2 consumers, a good and a malformed message, 2 failures | the consumer's invariants, `QueueMovesOn` and `StopEndsConsume` (liveness) |
| `final`, `concurrent`, `retry_lost` | smallest instance that shows it | counterexamples, see Findings |

Invariants of `faults`:

* `ExclusiveSend`: one worker at a time, and the row stays `SENDING` meanwhile.
* `AttemptBudget`: at most `max_retries` provider calls, unless `Create`
  overwrote the row.
* `OverwriteCost`: an overwritten row costs at most two calls more: a second
  sender in parallel, and an increment counted late. Two do happen.
* `AttemptLogInOrder`: the log is numbered 1, 2, 3, ... and only the last entry
  is a success.
* `SentIsRecorded`: `SENT` implies a recorded success, overwritten or not.
* `AcceptedOnce`: after a 2xx answer no further call is answered 2xx, and the
  row is `SENDING` or `SENT`.
* `CancelHolds`: a confirmed cancel is final and nobody is sending.
* `SendingIsOwned`: a row that is `SENDING` loses its worker only in the step in
  which that worker's own call fails or the process dies. No redelivery, scan,
  overwrite or failure elsewhere takes it away.
* `NothingLostBeforeFirstSend`: without failures every notification is still in
  somebody's hands until the provider was called for it once, unless `Create`
  wrote `QUEUED` over its cancellation.
* `FollowsLifecycle`: refinement of `Lifecycle`.

Property of `deferred`: `DeferredSettles`. A notification that `Create` left to
the scheduler ends `SENT`, `FAILED` or `CANCELED`. There are two ways it may
not: a failure strands it (the code has no recovery), or, after a second
attempt, the retry scanner erases its next retry time (finding 3). No other
way exists, which is the point of the property.

Invariant of `keys`: `OneDeliveryPerKey`, the provider accepts one notification
per idempotency key, whatever answers are lost.

Invariants of `limiter`:

* `PerSecondLimit`: at most `limitPerSec` calls are let through for a second
  whose requests all reach Redis within it.
* `PerKeyLimit`: in general, at most that many per life of the key.
* `RefusedOnlyWhenFull`: nobody sleeps while the second has room; each failure
  may waste one call.
* `OldKeysVanish`: a key is gone by the end of the following second.

Invariants of `connection`:

* `DialsAreNeeded`: one dial per lost or closed connection.
* `LeaksOnlyAfterClose`: an open connection is `r.conn` before `Close` takes it,
  or is in the hands of somebody who will store or close it. The exception is a
  connection that was stored after `Close` took its predecessor: nobody closes
  that one.
* `NilOnlyAfterClose`: `conn.Channel()` meets nil only once `Close` has begun.
  It can then, in the short time before the process ends; and a goroutine may
  dial again after `Close`.

* `ChannelAnswered`: every call of `channel()` returns if the broker comes back
  to stay.
* `StopEndsWaiting`: once `main` is stopping, every call returns even if the
  broker stays away, also behind a handler that holds `reconnectMu` with a
  context that ends later.

Properties of `timing`:

* `BackoffRespected`: no call before the documented delay (`base * 2^(k-1)`, at
  most the cap) has passed since the k-th. `LockForSending` does not look at
  `next_retry_at`, so this rests on there being one message: it is stated for
  behaviours without a failure, and not for a scheduled notification that fell
  due while `Create` ran, which `Create` and the scheduler both publish.
* `TimingTypeOK`: a delay never exceeds the cap plus the jitter.

Properties of `batch`:

* `CompletedIsHandedOver`: `COMPLETED`, or an answer without warning, means that
  every row is in, and past `ACCEPTED` unless it is left to the scheduler.
* `LossIsReported`: without failures rows are left behind only when a duplicate
  key stops the inserts; the client then gets an error and the batch says
  `PARTIAL_FAILURE`. After a crash, or if that last update fails too, the batch
  stays `PROCESSING` with rows nobody publishes; the code has no recovery.
* `FailedItemsAreNotSent`: no worker claims an unscheduled item that the answer
  shows as `FAILED`. An item whose `UpdateStatus(QUEUED)` failed only counts as
  failed; it is shown as `ACCEPTED` and is sent. This rests on an error of
  `Publish` meaning that nothing was enqueued. `publisher.go:52` writes to a
  socket without confirms, so an error after the write cannot be excluded; the
  model of a batch does.

Properties of `consumer`:

* `NothingVanishes`: a message leaves the work queue only after the handler
  returned nil, or for the dead-letter queue because it is malformed.
* `RedeliveryNeedsFailure`: each entry of the handler beyond the first is paid
  for by a failure, until the program stops.
* `OneLiveDelivery`: of two consumers with the same message one has a stale
  delivery whose answer will not count.
* `NothingHeldAfterReturn`: a consumer that returned holds no message back.
* `QueueMovesOn`: every ready message is acknowledged or dead-lettered, unless
  the program stops.
* `StopEndsConsume`: every consumer returns once the context is cancelled.

`limiter`, `connection` and `consumer` do not check for deadlock: the model's
clock ends, a process that has panicked stops, and so does one that was told to.

Bounds. Notifications interact only through the scan limits, the workers and
idempotency keys, so one notification carries the races between goroutines and
two are used where keys matter. Two workers are the least for
concurrent senders. One failure is enough for each error path on its own, with
every interleaving of the other processes. Two attempts give one retry; three
give the retry that races an earlier retry's `ClearNextRetryAt`, and reach the
cap of the delay. Two chunks of one item give every way a batch can stop half
way; two failures give a failed update after a failed publish. In `consumer` two
failures give a second loss while a stale delivery is still being handled. Five
dials are more than two failures and `Close` can cause, so the bound is never
what stops a dial. The real limits (100 rows a scan or chunk, 5 retries, 16
workers) are parameters.

Fairness (`Fairness` in `Dispatch`): weak fairness for each `Create` call, each
worker, each scanner and time. The Go scheduler runs runnable goroutines, the
tickers repeat, RabbitMQ delivers to an idle consumer, the provider's HTTP
client has a timeout and a rate-limit window ends. New requests, cancels and
failures are never forced. In `Connection` every goroutine inside `channel` goes
on, and strong fairness for taking `reconnectMu` is what `sync.Mutex` gives (its
starvation mode). The same strong fairness covers the two `select`s with
`ctx.Done()` (`BackoffCancelled`, and `SeeStop` in `Consumer`): Go picks among
ready cases at random, so one that is ready again and again is taken. Once
`stop()` was called `main` goes on, because `ShutdownWithTimeout` is bounded.
Nothing makes the broker come back: `ChannelAnswered` speaks of the behaviours
in which it does. In `Consumer` the handler returns (its calls have timeouts or
contexts) and the broker delivers what is ready to an idle channel.

## Findings

1. `final`: `Create` writes `QUEUED` over a final status
   (`notification_service.go:108`). The lifecycle diagram in
   `docs/ARCHITECTURE.md` has no such edge. A confirmed cancel can be undone.
2. `concurrent`: the same write over `SENDING` lets a second worker claim the
   row. `docs/ARCHITECTURE.md:124` says `LockForSending` prevents this.
3. `retry_lost`: `ClearNextRetryAt` (`retry_scanner.go:106`) erases a retry time
   stored after the scan, and the notification stays `QUEUED` for ever.

Noted while modelling, without a run of their own:

* A second's limiter key lives one second after its last increment. A request
  stamped at the end of the second and delayed past that starts the count again,
  so the limit holds per life of a key (`PerKeyLimit`) and not for every second.
  Every `Allow` sets `EXPIRE`; `docs/ARCHITECTURE.md:178` says only the first.
* `README.md:157` of the repository says that per-channel dead-letter queues
  isolate failed deliveries. Only malformed messages get there: a notification
  that ends `FAILED` is acknowledged.
* `Consume` resets its back-off when `consumeOnce` returns nil, which it does
  only when the context is done. In practice the back-off only grows.
* After `stop()` a worker that is sending fails at `recordAttempt` first, so a
  shutdown leaves its row `SENDING` and never marks it `FAILED`.

## Proofs

The theorems hold for every number of notifications, workers, channels,
keys, items, goroutines, consumers and failures, from the named assumptions of
the modules (positive limits, `None` and `NoKey` outside their sets).

The dispatch engine:

* `Invariance`: the inductive invariant is `TypeOK /\ RowExists /\
  ExclusiveSend`. `ExclusiveSend` is nearly inductive: the workers' blind
  updates are harmless because a claimed row is `SENDING` and has one owner, and
  all other updates either avoid `SENDING` or are `Create`'s. `RowExists` (the
  row exists exactly when `Create` can write it) excludes an insert over a live
  row, and gives `TypeOK` its positive `max_retries`. `TypeCorrect` and
  `SendIsExclusive` follow.
* `AttemptNumberCurrent` (a claiming worker's attempt number is
  `attempt_count + 1`) is proved on top of it. The retry step of the refinement
  needs it.
* `ImplementsLifecycle`: every step is a `Lifecycle` step or a stutter, one
  lemma per component.
* `LogIsInOrder`: `LogInv` compares the log with `attempt_count`. They are equal
  while the row can be claimed and until the worker records its attempt; from
  there to the status update the log is one ahead. An entry that is a success
  is the last, because the row is then on its way to `SENT`.
* `CancellationHolds`: `CANCELED` has no way out in `Lifecycle` but the
  overwrite, and only a successful `Cancel` sets `cancelAcked`.
* `SentHasAttempt`: a worker past `recordAttempt` with a 2xx answer has a
  success in the log, the log only grows, and only such a worker writes `SENT`.
* `KeyDeliversOnce`: two existing rows never share a key, and only existing rows
  are sent.
* `SendingHasOwner`: a row becomes `SENDING` in the hands of its worker, and the
  worker leaves it at once or by a step that settles the row, unless that step
  fails. This holds for overwritten rows as well.
* `NothingIsLostEarly`: `HandInv` says, as long as nothing has
  failed, who has the row or the message of a notification. A row that is
  `SENDING` has its worker. One that was not tried yet and is `QUEUED`, or whose
  publisher has published and not finished, has a message in the queue or with a
  worker. One that is `ACCEPTED` has its `Create` still running, or a
  `scheduled_at` for the scheduler.
* `BudgetIsKept`: the invariant is that the calls counted in `sends` are at most
  `attempt_count` plus one, exact again once the row can be claimed, and that
  `attempt_count` of an existing row stays below `max_retries`. How rows move
  comes from the refinement, so only the workers' steps are examined one by one.
* `NothingSentTwice`: a row that was accepted is `SENDING` or `SENT`, and a
  worker that has a call ahead of it, or was refused, has a row that was not
  accepted.
* `OverwriteIsBounded`: a row that can be claimed has a turn, and so has a
  worker that claims it. Before the overwrite there is one turn at most. The
  overwrite adds one, and after it nothing does: a claim moves the row's turn to
  the worker, a retry moves it back, everything else ends it. `Cost` bounds the
  calls by `attempt_count` plus what two turns can add, and `attempt_count` by
  `max_retries` less the turns that may still end with a retry. Its induction is
  about which worker holds which turn, so `CostMoves` takes the move as an
  injection.
* `TimingImplementsDispatch`: a timed step is a step of `Dispatch` or leaves it
  alone, so the theorems above hold with the clock too.
* `DelayDoubles`, `DelaysAreCapped`: `computeRetryDelay` is a recursive
  function, so these need induction over the rounds of the loop. It is done with
  sets: the rounds where the claim fails would have a least element
  (`LeastElement`, from `WFMin` of the library), and the round before it gives
  the contradiction. In the same way the recursive definition is shown to define
  a function at all.

The components on their own:

* `BatchProofs`: `BatchInv` is the types and `RowsInv`, which says how far the
  inserts and the loop are and which rows are in. On it rest three invariants,
  one for each claim: the items behind the cursor are past `ACCEPTED` while none
  has failed (`HandedInv`), their messages are out while nothing has failed
  (`LossInv`), and an item reported `FAILED` has no message (`FailInv`). All
  that is used of the rest of the system is `OthersDo`: rows do not vanish or go
  back to `ACCEPTED`, and others publish only what is in and scheduled.
* Connection (`InfraProofs`): `LockInv` says what the holder of `reconnectMu`
  knows at each place (`r.conn` stays broken while it dials), `CloseInv` what
  `main` knows after it has taken `r.conn`. On them `DialInv` counts: every
  connection but one in use was lost or closed by `Close`. `NilInv` follows the
  nil from `Close` to the goroutines that have read it.
* `ConsumerInvariant`: a delivery is in step with the broker while its channel
  is open, and an acknowledgement in hand is deserved (the handler returned
  nil). `RedeliveryIsPaidFor` also counts (`Paid`): the failures so far pay for
  every entry of the handler but one, and for the entries that stale deliveries
  can still make. The number of those is bounded by an injection (`AtMost`), not
  by a cardinality, which keeps induction out of it.
* Limiter (`InfraProofs`), `KeysKeepTheLimit` and `SecondsKeepTheLimit`: the
  grants of a second are at most the key's counter in its present life, plus the
  limit for every earlier life; a key cannot expire before its second is over.
  They hold for every limit, skew, number of callers and length of time.
  `RefusalIsJustified` is the other direction: until the second is full its
  counter is at most the grants and the failures. `KeysAreRemoved` bounds the
  expiry time of a key by its second.

Every safety property of the passing runs has a theorem but `BackoffRespected`,
which is only model-checked. It compares the delay with `base * 2^(k-1)`, and no
prover here knows `2^k` for a variable `k`; `DelayDoubles` is the part of it that
does not need the power. All liveness is only model-checked as well: it needs
`ENABLED`, which is outside the prover's reach.

## Plan

1. A proof that without a failure there is one message for a notification at a
   time, and from it `BackoffRespected` with `computeRetryDelay` in place of the
   power.
2. A proof that `Others` of `BatchService` allows every step of `Dispatch`.
3. Several replicas: each with a connection, a scheduler and a retry scanner.

## Not modelled

* Field validation, HTTP parsing and formatting, configuration, logging and
  metrics: sequential, and without state shared with the rest. A refused request
  changes nothing.
* `List`, `GetByID` and `GetBatchSummary`: they only read. `List` orders by
  `created_at` alone, so paging over rows inserted together depends on
  PostgreSQL, not on this code.
* Several replicas of the process: the code allows them, the models have one
  (`RateLimiter` excepted, whose callers have clocks of their own).
* Message priorities: the order of ready messages is left open, which includes
  every order they can produce.
* Closing Redis and PostgreSQL at the end of the shutdown: to a running worker
  these are failing calls, which `Dispatch` has.
