# SimpleMailer in TLA+

SimpleMailer is a self-hosted transactional mail service: an HTTP API (Next.js, `apps/dashboard`)
writes messages to PostgreSQL and publishes their ids to RabbitMQ; worker processes (`apps/worker`)
consume the ids, hand the messages to SMTP and report what became of them; a reconciler in every
worker repairs what failures leave behind, and dispatchers report every transition to webhooks. This
directory models these parts, the SDK that calls the API, the control plane beside it and the pages that
show what happens; it checks them with TLC on small instances and proves with TLAPS, for every instance, each
safety invariant that holds there. Liveness is left to TLC.

Paths below are relative to the repository (`worker` and `dashboard` stand in `apps/`, `sdk` and `cli` in
`packages/`), module names to this directory.

## Inventory

| Part | State it keeps | Operations | What is hard |
|---|---|---|---|
| **Acceptance, V1 API** (`dashboard/lib/v1-messages.ts`, `v1-send-jobs.ts`, `app/v1/messages/route.ts`) | `Message` row, content artifacts, idempotency key and digest | `acceptInlineMessage`, `publishMessageRecord` | the row is committed, published and marked QUEUED in three steps, each of which can fail or come late; two requests with one key |
| **Queue** (`worker/src/queue.ts`, `dashboard/lib/queue.ts`) | main, retry and dead-letter queue, unacked copies | `publishMain`, `publishRetry`, `publishDeadLetter`, topology | a confirm that times out says nothing; duplicates; a retry's TTL; FIFO expiry |
| **Consumer, V3** (`worker/src/consumer.ts: handleImmutableMessage`, `db.ts`, `mail.ts`) | lease columns of `Message` (`status`, `processingOwner`, `processingLeaseExpiresAt`, `deliveryAttemptStartedAt`) | load, claim, start, send, store, retry, dead-letter | leases that expire under a slow handler; SMTP acknowledged and then a crash; results that meet a row another process moved |
| **Reconciler** (`worker/src/reconciler.ts`, `db.ts`) | the same columns | recover leases, release stale claims, claim due rows, republish | iterations overlap (`setInterval` of an async callback) and run in every worker |
| **Worker process** (`worker/src/index.ts`) | connection, channel, drain | connect loop, shutdown | handlers outlive the connection that gave them their copy |
| **Circuit breaker** (`worker/src/circuit-breaker.ts`) | per account and host: state, window, probes, successes | `canAttempt`, `recordSuccess`, `recordRetryableFailure` | results of attempts that began in another state; probes that are never given back |
| **Webhook dispatch** (`worker/src/webhooks.ts`, `packages/database/webhooks.ts`, `dashboard/lib/webhooks.ts`) | `WebhookDelivery` (status, owner, lease, attempts), `WebhookEndpoint` (status, failures) | claim, post, record, auto-disable, update, replay | a slow post outlives its lease; one rejected delivery ends the iteration of all; a delivery nobody ends |
| **Bulk send, V2 jobs** (`dashboard/app/api/send/bulk`, `lib/bulk-send.ts`, `worker: handleMessage, updateLogStatus`) | `Log` rows, `BulkSendBatch` | create batch, pace, claim, settle, complete the batch | last items that settle together; recovery that completes no batch; pacing after downtime |
| **Idempotency, schedule and rate limit of the accepting routes** (`lib/v1-messages.ts`, `app/api/send`, `app/api/send/bulk`) | idempotency keys and digests; `Account.bulkNextAvailableAt`; the token bucket of `lib/rate-limit.ts` | lookup, commit, second lookup after a lost race, answer | two requests with one key; a batch scheduled beside another; a restart that forgets the bucket |
| **SDK** (`packages/sdk/src/transport.ts`, `sync.ts`, `cli/src/index.ts`) | none | retries with one idempotency key; plan and apply of a sync | a retry after a lost response; a plan read while others write; a sync that stops half-way |
| **Templates** (`dashboard/app/api/template`) | a row and an object in S3 or a file | create, patch, delete | two stores without a common transaction |
| **Control plane** (`lib/project-templates.ts`, `project-senders.ts`, `project-api-keys.ts`, `webhooks.ts`) | versions and the deployed one; senders; keys; an endpoint's two secrets | put, activate, upsert, create, revoke, rotate | a read and a commit with other requests between them |
| **Configuration** (`worker/src/config.ts`, `api/account`, `api/bucket`) | accounts, buckets, templates | `seedFromConfigYaml` of every starting worker; create and delete by an operator | several workers that find nothing and create the same |
| **Heartbeat, health** (`worker/src/health.ts`) | `WorkerHeartbeat` row, failure counters | register, send with retries, deregister | a heartbeat in flight while the worker deregisters |
| **Pages** (`app/templates`, `app/send/bulk`, `app/logs`) | React state, requests in flight | edit, poll, filter, refresh | answers that come in another order, or for another question |
| Metrics, logs, secrets; the session cookie and its proxy; CLI arguments; deployment | | | I/O, formatting, cryptography: not modelled |

The parts meet in five places. The API and every process of a worker share the `Message` row, and
only its guarded `updateMany`s arbitrate between them. The API, the reconciler and the consumer
publish ids; RabbitMQ gives each copy to one handler and takes it back when the channel dies. The
consumer asks the circuit breaker of its own process. Every transition of a row writes a webhook event
in the same transaction, which the dispatchers of all workers deliver. Everything a worker does hangs from
one process, with one connection and one shutdown.

What must hold of each part:

* delivery: one SMTP exchange per message at a time; an acknowledged message is never sent again and
  never reported failed; what is unknown is reported as `DELIVERY_UNCERTAIN`; a terminal status is final;
* queue and reconciler: an accepted message is settled in the end; a row the reconciler does not read
  has a copy on its way;
* breaker: it opens after the threshold, admits at most its limit of probes, and closes again when the
  server is healthy;
* webhooks: at least one post per delivery to an active endpoint, at most the configured attempts, and
  an end to every delivery; a disabled endpoint stays disabled until its owner says otherwise;
* batches: complete exactly when all their items are settled; no faster than asked;
* acceptance: one row per call and one body per key; a replay returns the first row, a conflict stores nothing;
* templates: what is stored for a template was written for it;
* control plane: a project keeps a key; a sync that ended well has deployed its manifest; a delivery is signed
  with a secret its endpoint knows;
* worker process: it ends when told to, cuts no handler short, leaves no heartbeat behind, and works again
  when its surroundings do;
* configuration: a start without errors finds all its entries;
* pages: they arrive at what is true, and save only what they loaded.

The hazards, each at its line, are in `PROJECT.json`.

## Plan

1. `MessageLifecycle` (what a client is promised) and `MailDelivery` (acceptance, broker, consumer,
   reconciler, processes), with the proofs. **Done.**
2. `CircuitBreaker`: one key, handlers that interleave, with its proofs. **Done.**
3. `WebhookContract` (what a receiver is promised) and `WebhookDispatch` (deliveries, endpoints,
   dispatchers), with the proofs. **Done.**
4. `BulkSend`: the Log rows of a batch, on top of `MailDelivery`, with proofs on top of its proofs. **Done.**
5. `AcceptanceContract` (what a caller is promised of a key) and `Acceptance` (three routes, the SDK's
   retries, the limiter, the schedule of batches), with the proofs. **Done.**
6. `ControlPlane`: keys, senders, managed templates, secrets, sync, with the proofs. **Done.**
7. `WorkerLifecycle`: one process from registration to exit, with its proofs. **Done.**
8. `Configuration` and `Dashboard`: seeding beside an operator; template storage and three pages,
   with proofs for seeding, storage and editor. **Done.**
9. Left: the FIFO order of the retry queue; the cached channel of the dashboard's queue client; the pages
   that show what they load once.

Which module uses which: `BulkSend` EXTENDS `MailDelivery`, and both implement `MessageLifecycle` through
the same mapping (`BulkSendProofs` cites the lemmas of `MailDeliveryProofs`); `Dashboard` EXTENDS `Configuration`; `WebhookDispatch` and `Acceptance` implement their
contracts. The other modules meet the rest of the system in free choices: the breaker's verdict and the SMTP
answer in `MailDelivery`, the batch that completes in `Dashboard`, the work of a handler in
`WorkerLifecycle`.

Theorems worth proving next: what the liveness properties rest on and is not temporal, such as that an
accepted message is at any time settled, carried by a copy, in the hands of its publisher, or of a kind the
reconciler looks for.

## MailDelivery

One action is one awaited call: a database transaction, a publish, an SMTP exchange. Between two of
them the event loop may run anything else, so the interleavings of the model are those of several
Node processes.

| State | Code |
|---|---|
| `status`, `owner`, `lease`, `started` | `Message.status`, `processingOwner`, `processingLeaseExpiresAt` (none, live, expired), `deliveryAttemptStartedAt` set |
| `broker` | the copies of messages RabbitMQ holds, each with identity, place (main queue, retry queue, unacked) and `attempt` |
| `dlq` | messages with a copy in `mailer.dead` |
| `pc`, `work`, `held`, `err` | where each running `handleImmutableMessage` is, its queue message, the copy it can still ack, the error it caught |
| `api` | where `publishMessageRecord` is for each message |
| `tick`, `todo`, `cur` | where each running reconciler iteration is, what it claimed and has not published, which message it is at |
| `up` | worker processes that run; a process that exits is replaced by one with a new id, which is one more member of `Workers` |
| `accepted` | history: messages the SMTP server acknowledged to a handler |

| Actions | Code |
|---|---|
| `Accept`, `ApiPublish`, `ApiMarkQueued` | `acceptInlineMessage`, `publishMessageRecord` |
| `Deliver`, `Load`, `DeadLetterMalformed`, `Claim`, `Prepare`, `Start`, `SmtpAccepted`, `SmtpFailed`, `StoreSent`, `MarkFailed`, `PublishRetry`, `PublishRetryFailed`, `StoreRetrying`, `PublishDeadLetter`, `StoreDead`, `AckDone` | `startConsumer`, `handleImmutableMessage`, and the functions of `db.ts` it calls |
| `Recover`, `ReleaseStale`, `ClaimDue`, `Republish`, `RepublishFailed`, `TickMarkQueued`, `ReleaseClaim`, `TickThrows` | one iteration of `startEnqueueReconciler` |
| `RetryDue` | the TTL of the retry queue |
| `LeaseExpires` | the clock passing `processingLeaseExpiresAt` |
| `Crash`, `Disconnect` | a process killed; an AMQP connection lost |

`Ack` and `Nack` are helpers, not actions: acking with a channel that has been closed throws, the
nack of the callback's `catch` throws again, and the rejection ends the process (`Exit`).

Abstractions. Time is order: a lease is live or expired, a retry is due or not. `Faults` names what a
run injects: `db` (a call throws, having committed or not), `broker` (a publish is not confirmed, having
arrived or not), `crash`, `disconnect`, `slow` (a call outlasts a lease or a reconciler threshold) and
`early` (a retry comes due before its publisher stored RETRYING). Without `slow` every call in progress
finishes within its deadline: two minutes of lease, ten seconds before `claimDueMessages` looks at a row,
a minute before a claim counts as stale. The circuit breaker's verdict and the SMTP server's answer are
free choices. The 50-row limit of a claim is above every instance. `SKIP LOCKED` is not visible: a
transaction is one step.

`MessageLifecycle` is what a client may rely on, without queues, leases or workers: a message is open,
claimed, handed to SMTP, acknowledged, settled. `Life` in `MailDelivery` is the refinement mapping, and
`ImplementsLifecycle` says that every step is a step of it or invisible.

### Runs

The instances are in `MCMailDelivery` with one message, two workers and the copies interchangeable
(`safety` uses the symmetry, `liveness` does not, and the code never compares copies).

| Run | Instance | Shows |
|---|---|---|
| `safety` | a handler each, one reconciler, 2 copies, 1 retry; `db broker crash slow early` | type, `LeaseMatchesStatus`, `SmtpExclusive`, `NeverResent`, `AcceptedIsAccounted`, `OutcomeIsBacked`, the refinement |
| `liveness` | a handler and a reconciler each, 4 copies; `crash disconnect` | `NotStranded`, `EventuallySettled`; deadlock is checked |

`CHECK_DEADLOCK FALSE` in `safety`: its only reconciler may die with its worker, and a message nobody
looks after is then really stuck. One retry reaches the bound `MaxRetries` from both sides; two copies are a
message and its duplicate, at once or one after another, in any queue; two handlers are the holder of a lease
and a contender. `liveness` has room for four copies, because a full broker would stop the publishers, which
is not a failure the code has.

The instances leave out what the code is known to lose. Each of these can be seen by changing a
configuration, and each is a weakness of the code rather than of the model:

* two handlers in one worker with `slow`: `SmtpExclusive` fails. The lease token is the worker id, so two
  handlers of one process cannot tell their leases apart. All that follows about one exchange at a time is
  therefore stated for `SoleHandler`, one handler to a worker id, which is the default (`prefetchCount` 1);
* `early`: `NotStranded` fails. The retry is published before RETRYING is stored; a copy that is faster is
  acked as unclaimable and the row then waits for nothing;
* `db`: `NotStranded` fails. A database error while loading a message is taken for a malformed message: the
  copy goes to the dead letters and the row stays QUEUED;
* `slow` with `crash`: `NotStranded` fails. The QUEUED mark is guarded by the status alone and can hide a row
  that was recovered meanwhile from the reconciler.

With `disconnect`, which `liveness` injects, a handler that finishes after its connection was lost ends the
process, and a new one takes its place.

### Fairness

`FairSpec` assumes weak fairness of every awaited call (database, broker and SMTP calls have timeouts,
so each ends in a result or an error), of the broker delivering what is ready, of leases and retry
delays running out, and strong fairness of an iteration's publish being confirmed: the reconciler that
gets to publish again and again succeeds once. Nothing is assumed of clients and of failures, except that they spare
one worker in good health (`Spared`): a deployment that loses every worker delivers nothing.
`EventuallySettled` holds without `slow`, `early` and `db`, because the weaknesses above are exactly the
ways in which those lose a message.

### Proofs

| About | Theorems |
|---|---|
| type | `TypeCorrect`: `Spec => []TypeOK` |
| rows | `LeaseCorrect`, `OutcomeCorrect`, `TerminalStays` |
| one delivery | `DeliveryCorrect`, and from it `Exclusive`, `SentOnce`, `Accounted`, all under `SoleHandler` |
| refinement | `Refinement`: `SoleHandler /\ Spec => ImplementsLifecycle` |
| no loss | `NoneStranded`: `Timely /\ Spec => []NotStranded` |

All are in `MailDeliveryProofs`. They hold for any sets of messages, workers, handlers, iterations and copies, any `MaxRetries` and any
faults, from `ConstantsAssumption` (every handler and iteration runs in one worker; NULL is not a
message, worker or copy). TLC evaluates it in every run.

The argument. `LeaseMatchesStatus` is inductive once it is known what each action does to a row (a row is
left with no owner exactly when it leaves PROCESSING); with it, the guard of `updateMessageStatus`, which
names the owner only, is as good as one that names the status too. `OutcomeIsBacked` needs what a handler
knows at two points (`sent`: SMTP acknowledged; `buried`: the dead letter is out). `SmtpExclusive`
is not inductive: two handlers at `start` could both pass. `DeliveryInv` adds what each handler
knows of its row (`HandlerInv`): inside SMTP it still owns a row that shows the attempt, or recovery has
already settled the row as uncertain; before and after SMTP, if it still owns the row, the row shows no
attempt or nobody acknowledged it. That is why a claim never takes over an attempt, why a failed
attempt may be reset, and why recovery may choose by `deliveryAttemptStartedAt` alone. A step of one
handler keeps what another one knows (`OthersKnow`) because their owner tokens differ: the one place where
`SoleHandler` enters. The refinement follows the same cases: each row move is one move of the
abstract message (`MoveRow`), and one recovery settles a set of them (`RefineRecover`).

`NotStranded` is not inductive either, because the copy it speaks of may die with its handler. `CarriedInv`
is. A row that is QUEUED or RETRYING, or that is about to be marked QUEUED, has a copy in a queue or one that
a handler can still give back (`CarriedRow`); a copy that a handler holds is of the message it works on, and the retry it has
published waits in its queue until RETRYING is stored (`CarriedHandler`); and no lease expires on a row whose
publisher is still at work. The theorem assumes `Timely`, that is, none of `slow`, `early` and
`db`; it covers unconfirmed publishes, crashes and lost connections in any number. `Timely` excludes just
what TLC shows to break it: `early` alone, `db` alone, and `slow` together with `crash`.

Model-checked only: `EventuallySettled`, because liveness under fairness is beyond the prover.

## CircuitBreaker

One key of the breaker's map, with the handlers of one process. The three methods are synchronous, so
each is one step; what lies between `canAttempt` and the result is not, so results of one phase of the
circuit may arrive in another. `MailDelivery` takes the breaker's verdict as a free choice and does not
depend on this module.

| State | Code |
|---|---|
| `state`, `failures`, `probes`, `successes` | `CircuitState` (`failuresInWindow`, `halfOpenProbes`, `consecutiveSuccesses`) |
| `windowAge`, `openAge` | `Date.now() - windowStartMs`, `Date.now() - openedAtMs`; an age stops where the comparison with its limit no longer changes |
| `job` | each handler: idle, sending, or refused with the refusal not yet recorded |
| `quiet`, `well` | time since the last message of the account; whether server and database are in order |
| `probing`, `losses`, `wins` | history: probes in progress, results recorded in a row |

`Ask` is `canAttempt`, `CountSuccess` and `CountFailure`/`Reopen` the two `record` methods, and `Succeed`,
`FailRetryable`, `RecordRefusal`, `FailUnrecorded` the ways through `handleImmutableMessage` that call
them or do not. `failures` is counted up to its threshold, the histories up to what they are compared with.
A tick is long against the database update before a refusal is recorded.

| Run | Instance | Shows |
|---|---|---|
| `breaker` | three handlers, threshold 3, 2 probes, 2 successes | `CountersAreBacked`, `ProbesBounded`, `OpensOnEvidence`, `ClosesOnEvidence`, `ClosesAgain` |
| `breaker_default` | one handler, 2 probes, 3 successes, as in the defaults' proportion | violates `ClosesAgain` |

One handler is the default prefetch, three let two late results meet a third phase. The thresholds keep the
order of the defaults (an open phase shorter than the window, a threshold above the probes) and are otherwise
as small as both sides of each comparison allow. Fairness: time passes, messages keep coming, and an attempt
ends (every call has a timeout).

The finding: a half-open phase never gives a probe back, so with the default limits (2 probes against 3
successes) no circuit ever closes. `ClosesAgain` is stated for a calm account: from some time on the server
is well, and a message comes only when none is in progress and `Lull` has passed since the last one
(`Calm`). `Lull` is the open phase in both runs. A busier account keeps its circuit open even with 2
successes, because the breaker's own refusals are recorded as failures of the server.

`CircuitBreakerProofs` shows the safety properties for every number of handlers and all limits.
`CountersAreBacked` carries the argument: a closed circuit has counted no more failures than came in since
the last success, a half-open one no more successes than came in since the last failure, and the other
states remember no success, which is what a late failure in the open state relies on. `ClosesAgain` is
liveness and model-checked only.

## WebhookDispatch

The rows of deliveries and endpoints, and in every worker one iteration of `startWebhookDispatcher` at a
time with a concurrent call of `deliver` for each delivery it claimed.

| State | Code |
|---|---|
| `status`, `owner`, `lease`, `due`, `attempts` | `WebhookDelivery.status`, `processingOwner`, `leaseExpiresAt`, whether `nextAttemptAt` has passed, `attemptCount` |
| `endpoint`, `failures` | `WebhookEndpoint.status`, `consecutiveFailures` |
| `at`, `by` | where the call of `deliver` for an attempt (a delivery and the number its claim gave it) is, and the worker that makes it |
| `waits` | the calls the running iteration of a worker waits for; empty when `running` is null |
| `answered`, `losses`, `blamed` | history: deliveries answered with 2xx; the endpoint's own recorded failures; endpoints with a success that could not be recorded |

| Actions | Code |
|---|---|
| `Create`, `Update` | `recordMessageWebhookEvent`, `testWebhookEndpoint`, `replayWebhookEvent`; `updateWebhookEndpoint` |
| `Dispatch` | `run`: `claimDeliveries` and the start of every `deliver` |
| `Answer`, `RecordSuccess`, `RecordFailure` | the exchange and the two transactions, with the `catch` that turns a failed `recordSuccess` into a `recordFailure` |
| `BecomeDue`, `LeaseExpires`, `Crash` | the clock; the end of a process |

An event with several subscribers is several `Create`s. `Faults` names what a run injects, as in
`MailDelivery`; without `slow` a lease (30 s) outlasts the post it covers (10 s). `secret` lets a worker
fail to decrypt a delivery's secret: the call rejects before its `try`, and `Promise.all` with it.
`MaxClaims` bounds the claims of a delivery. It is `MaxAttempts` in `webhook_safety`, where the last
attempt is recorded or lost, and one more in `webhook_liveness`, where one crash has to be made good.

`WebhookContract` is what the receiver may rely on: delivered means answered, given up means tried
`MaxAttempts` times, both final. `Outcome` is the refinement mapping.

| Run | Instance | Shows |
|---|---|---|
| `webhook_safety` | 2 workers, 2 deliveries, one endpoint; `db secret crash slow` | `LeaseMatchesStatus`, `ActiveIsHealthy`, `DisabledOnEvidence`, `ResultsByHolder`, the contract |
| `webhook_liveness` | 2 workers, a delivery to each of two endpoints; `crash` | `EveryDeliveryEnds` |

Two deliveries are a delivery and its sibling in an iteration; two workers are the holder of a lease and
the one that takes it over. Fairness: the interval fires, a request ends within its timeout, backoffs and
leases run out. `EveryDeliveryEnds` speaks of endpoints that stay active from some time on: a paused
one is not posted to.

`WebhookProofs` shows, for every set of deliveries, endpoints and workers and all limits:
`DispatchCorrect` (`DispatchInv`, inductive: `CallsAreClaimed` ties each call to a claim, which makes its
attempt number a lower bound of the row's) and from it `RowsCorrect`, `ActiveCorrect` and `ContractKept`,
all under all faults. Two more need a strengthening of their own. `DisabledCorrect`: for an endpoint not
in `blamed`, `failures` is at most `losses` (`Evidence`); an endpoint is blamed when it answered with 2xx
and `recordSuccess` threw, because the `catch` around it then records a failure of the endpoint.
`ResultsCorrect`: a call its iteration waits for, whose worker owns the row, is the row's latest attempt
(`Attended`), because a worker does not claim while it waits. It says nothing of calls nobody waits for:
when one `deliver` rejects early, `Promise.all` ends the iteration, the others go on, and since the lease
token is the worker's id they can record over a later claim of the same worker.

Exhaustion is tested only when a failure is recorded, so a delivery whose secret cannot be decrypted is
claimed again and again, beyond any limit. `EveryDeliveryEnds` therefore holds without `secret`, and is
checked with `crash` only: database errors and slow posts are left to the safety run. `EveryDeliveryEnds` is
liveness and model-checked only.

## BulkSend

A batch, its Log rows, the V2 half of the consumer and the Log half of the reconciler. A Log row is claimed,
leased, delivered and recovered by the same guarded updates as a Message row, so the module EXTENDS
`MailDelivery`, reads its `Msgs` as Log rows, and reuses its actions; it adds what differs.

| State | Code |
|---|---|
| `stage` | what a handler awaits besides `pc`: `findLogById`, `compileTemplate`, the count of the batch, its completion |
| `due` | `Log.scheduledFor` is past |
| `batch` | no row, open, or `BulkSendBatch.completedAt` set |
| `lost` | history: batches one of whose counts a fault has prevented |

| Actions | Code |
|---|---|
| `PostBatch`, `BecomeDue` | `POST /api/send/bulk` after its validation, and the clock |
| `Validate`, `FindLog`, `ClaimLog`, `GetCredentials`, `CompileTemplate`, `StartDelivery`, `SendMail`, `StoreFinal`, `CountItems`, `CompleteBatch`, `ReadFails`, `AckJob`, `MarkAttemptFailed`, `RetryOrBury` | `handleMessage`, and `updateLogStatus` with its count |
| `RecoverUncertain`, `RequeueExpired`, `ReleaseStale`, `ClaimDueLogs`, `Republish`, `SettleClaim` | the Log half of an iteration; recovery takes two statements here, and a claim at most `Chunk` rows |
| `Heal` | `GET /api/send/bulk/{id}`, which completes a batch whose rows are all settled |

The run `bulk` has two items of one batch, two workers with a handler each, one reconciler, `Chunk` 1 so
that two iterations share the batch, three copies, crashes, and reads that fail (`ReadFaults`; the database
faults of the row updates are `safety`'s subject). `CHECK_DEADLOCK FALSE` for the reason given there.
Two items are the least with a last one and another; two handlers settle them at the same time.
`CompletedIsSettled`: no batch is complete while a row is open, now or later. `OpenIsAttended`: a
settled batch is open only while a handler is on its way to count it, or a loss accounts for it; such a batch
is completed by the next reader and by nobody else. `ImplementsLifecycle`: each row keeps what
`MessageLifecycle` promises of a message. Two paths the model takes from the code deserve a reader's attention: an object
store that cannot be read for a moment ends a deliverable mail as DEAD, because such an error is neither
retryable nor permanent, and a `validateAccount` that throws dead-letters the job while its row stays.

`BulkSendProofs` proves all three, for any messages, batches, workers and faults. Most steps of a V2 job are steps of
`MailDelivery` on its row (`BulkStep`), so `TypeOK` and `BasicInv` carry over once the few that are not are
looked at (`NewStep`: a failed compile, a copy given back, the rows of a new batch, claims and recoveries of some of the rows).
`BulkInv` adds what a handler has seen (`StageInv`: one that is about to complete a batch has
counted it settled), that rows come with their batch (`BatchFirst`), and the two properties; a settled row
stays settled, so a count is never out of date. `BulkCorrect` is this invariant, `Completed` and `OpenAttended`
follow, and `BulkRefinement` holds under `SoleHandler` for the reason it does in `MailDelivery`.
`BulkAssumption` says that every batch has an item, since a request whose recipients are all rejected
is answered before the transaction (`route.ts:185`), and that batches are finite.

## Acceptance

`POST /api/send`, `POST /api/send/bulk` and `POST /v1/messages`, the SDK that repeats a request, the
limiter and the schedule. The routes share no table, so a behaviour is about one of them (`route`).

| State | Code |
|---|---|
| `call`, `try`, `got` | what an application asks for, the attempt it waits for, how it ended |
| `pc`, `reply`, `saw`, `now` | a request: the query it awaits, its answer, whether it saw its artifacts, the clock it read |
| `rows`, `old` | stored rows; keys of rows written before there were digests |
| `start`, `nextFree` | `scheduledFor` of a batch's first item; `Account.bulkNextAvailableAt` |
| `level`, `lastRefill` | the bucket of `rate-limit.ts`, in parts of a token |
| `admitted`, `restarts` | history |

`Begin`, `Receive`, `GiveUp` are the caller (`FetchTransport`): an attempt that timed out goes on at the
server beside the next one. `Limit`, `Lookup`, `Find`, `Insert`, `Reread`, `Publish`, `Note`, `Created`,
`Fail` are the steps of a request, one query each. `Insert` may lose on the unique key, or, on the V1
route, on an artifact another message stored since; the V1 route takes both for the first. `Restart` ends the
API process with its requests and its buckets.

`AcceptanceContract` is what a caller may rely on: a key names one row for good, an acceptance names the row
of the key with the caller's body, a conflict is a row with another body, and a request that failed may still have stored
its row. `Promise` in `Acceptance` is the mapping.

The run `acceptance`: two calls of two attempts each, one key or none, two bodies, all three routes, batches of
two items two ticks apart, a bucket of one token that refills in two ticks (so that a fraction is seen), two
ticks, one restart, `db` and `publish` errors. Two requests are what a race needs; two calls with two attempts
are a race between strangers and one of a caller with itself. `CHECK_DEADLOCK FALSE`: calls are finite. Properties:
`OneRowPerCall`, `ConflictLeavesNothing`, `BatchesArePaced`, `WithinRate`, `ImplementsContract`.
`WithinRate` counts a new burst for each restart, because the bucket is in memory.

`AcceptanceProofs` proves all five, for any calls, keys, bodies, attempts, delays, capacities and faults, from
one invariant (`AcceptanceCorrect`: `AcceptanceInv`). The attempts of a call are sent one
after the other, and only a call that may be repeated has a second (`CallerInv`); a request stores its row before it
reports it, and answers once (`RequestInv`); the unique index lets in one row per key (`KeyInv`); a conflict names another body
(`ConflictInv`); the schedule of the account ends after every batch it has (`PaceInv`); and what was
admitted and what is left was granted (`RateInv`, in parts of a token, so that the refill's rounding is
part of it). `Refinement` takes each step of a request to a step of the contract or to a stutter.

## ControlPlane

The `/v1` routes of a project and `simplemailer sync`. A request authenticates, reads and commits in separate
statements at READ COMMITTED. `area` picks what a behaviour is about: keys, the catalog (one sender, one
managed template), or the secrets of an endpoint.

| State | Code |
|---|---|
| `key` | `ApiKey.revokedAt`, and whether it was created |
| `sender`, `versions`, `active` | the `Sender` row; digests of `ManagedTemplateVersion`; `activeVersionId` |
| `current`, `previous`, `deliveries` | the endpoint's secrets, and those that test and replay deliveries carry |
| `actor`, `op`, `pc`, `seen` | a request: key, operation, what it awaits, what it read |
| `todo`, `manifest`, `outcome` | a sync: operations left, target, end |
| `quiet`, `crossed` | history: nobody else wrote since a sync began; a row changed between a read and its commit |

`KeyRoutes`, `SenderRoutes`, `TemplateRoutes` and `WebhookRoutes` are the handlers behind
`requireProjectScope`; `BeginSync`, `ListSenders`, `Diff` and `Respond` are `planMailerSync` and
`applyMailerSync`, which stop at the first failure.

The run `control_plane`: two clients, three keys, one account, two sender values, two digests, three
rotations, a transaction that fails with or without effect. Three keys are an actor, a target and one left; three
rotations make `previous` be replaced twice; a client that syncs meets one that writes. `KeysRemain`: no
sequence of revocations takes the last key, except two keys that revoke each other at once (`crossed`): the
actor is not looked at again in the transaction. `SyncConverges`: a sync that ended without an error and ran
alone has deployed its manifest, whatever an earlier one left half-done. The credential is no part of what the
API lists, so a change of it alone is never applied, and `Deployed` does not ask for it. `SnapshotIsKnown`: a
delivery signed with the newest secret or the one before verifies, unless two rotations crossed, when a secret
that was issued is lost without ever being previous.

`ControlPlaneProofs` proves `ControlPlaneCorrect` (`Inv`, inductive: a revocation about to commit is not aimed at
its own key, a request has read a secret that was issued, the previous secret is the one before the current unless
requests crossed, and deliveries carry issued secrets) and from it `KeysStay` and `SecretsKnown`, for all sets of clients and keys.
`SyncsConverge` proves `SyncConverges` from `SyncInv`: as long as nobody else wrote since a sync began, whatever
of its manifest is not deployed yet is among the operations it still has to do (`Syncing`). The plan puts it
there (`PlanOps`) and only an operation that was carried out takes it away.

## WorkerLifecycle

One worker process: `main` of `index.ts`, its consumer, the webhook dispatcher and the heartbeat loop.

| State | Code |
|---|---|
| `pc`, `shuttingDown` | where `main` is; the shutdown promise |
| `connection`, `consuming`, `inFlight`, `orphaned` | the AMQP connection, the consumer, handlers of this channel and of one that is gone |
| `dispatching` | an iteration of the dispatcher |
| `beat`, `timer`, `attempt`, `failures`, `age`, `call`, `stopped` | the heartbeat loop and its upsert |
| `row` | the `WorkerHeartbeat` row |
| `brokerUp`, `dbUp` | the surroundings |
| `given`, `late` | history: handlers were left to themselves; a heartbeat was in flight at `stop`, or the delete failed |

`Register` to `Exit` are `main` in its order, `Signal` is SIGTERM or SIGINT at any moment, `StopConsumer`,
`Cancelled`, `Finish`, `DrainTimeout` are `consumer.stop` (30 s), `Beat`, `Land`, `Succeed`, `Fail`, `Tick`
the heartbeat with its retries, `LoseConnection` and `CancelConsumer` what the broker does. A process that
crashed is restarted by compose (`restart: on-failure`).

The run `worker_lifecycle`: prefetch 2 (one handler may finish while another hangs), an interval of 2 ticks,
2 retries with pauses of 1 and 2, a failure threshold of 2, stale after 6 (three intervals). Fairness: `main`
goes on, timers fire, a database that is up answers, an iteration of the dispatcher ends because its posts time
out. Handlers may hang, and nothing is assumed of signals and surroundings. `GoneUnlessLate`, `DrainedExit`,
`ShutsDown` and `WorksAgain` hold. `WorksAgain` excepts a consumer the broker cancelled: the callback ignores
the null message (`consumer.ts:118`), so the worker stays ready and consumes nothing until its
connection is lost. Three more observations: a signal in the pause between two connections waits for its
end; a heartbeat on its way at `stop` may write its row again, a ghost that is shown until it is stale;
and the code closes AMQP before it deregisters, where `PLAN.md:91` has the opposite order. The reconciler is not
in this module: `stop` only clears its interval, and `MailDelivery` lets a process die at any step of an iteration.

`WorkerLifecycleProofs` proves `WorkerCorrect` (`Inv`: once `main` is past `dispatcher` the heartbeat
loop is stopped and has no upsert on its way that `late` does not name; after deregistration the row is gone
or `late`; handlers without a channel are named by `given`), `RowGone` and `Drained`, for all
constants. `ShutsDown` and `WorksAgain` are liveness and model-checked only.

## Dashboard and Configuration

`area` picks one of five things that share nothing but the templates.

*templates*: create, patch and delete of a template whose content is an S3 object or a file (`storage`) and whose
rest is a row. `objects` maps a filename to the template its content was written for. `StoreContent`, `InsertRow`,
`Remove` are POST with its rollback; `FindRow`, `WriteContent`, `UpdateRow` PATCH; `DeleteRow` DELETE. `calls`
are storage calls that outlived `withTimeout` and still land (`Land`). `RowsKeepContent` says that a row's file
holds its own content unless requests overlapped on that file (`clash`).

*editor*: the edit dialog of `templates/page.tsx`, whose loads neither closing nor opening another template
stops (`Open`, `Close`, `Loaded`, `Save`). `EditorKeepsContent` says that the dialog saves into a template only what it
loaded from it, unless a load failed or answered for another template (`slip`). Both do happen: a failed
load leaves the empty text, which Save writes (`page.tsx:164`), and a late content is put into whatever is open
(`page.tsx:163`).

*batch*: the page after a bulk send. `Effect` is the React effect with its interval and its first poll; it runs again when
the page of items or `completedAt` changes. `CompletionShown`: with a connection, the completion is shown for
good, although an older answer may come after it. What is not promised: after completion a change of page
loads nothing (`bulk/page.tsx:235`), and a late answer of another page of items may stay.

*logs*: the logs page with filters, a debounced recipient, auto-refresh. `LogsConverge`: with auto-refresh on and
the filters left alone, what is shown is what they ask for. Without auto-refresh, which is the default, a debounced fetch
with the status of its time (`Debounced`) may stay.

*configuration* is `Configuration.tla`: every starting worker adds the accounts, buckets and templates of
`config.yaml` (`StartSeeding`, `FindEntry`, `FindBucket`, `CreateEntry`, `SkipEntry`), looking each up before it
creates it, while an operator creates and deletes (`PostAccount`, `DeleteAccount`, ...). Unique names arbitrate, and an
error ends an entry, not the start. `StartedIsSeeded`: a start none of whose calls failed finds every entry
until the operator deletes one. Seeding never updates an entry, and adds a deleted one again at the next start.

| Run | Instance | Shows |
|---|---|---|
| `dashboard` | 2 clients, 2 names, 2 rows, 2 answers at a time; 2 workers, one operator, an account, a bucket, a template in it and a local one; `db storage late` | `StartedIsSeeded`, `RowsKeepContent`, `EditorKeepsContent`, `CompletionShown`, `LogsConverge` |
| `template_create` | one client, no fault | violates `ContentStays` |

Two rows and two names are a template and the one that collides with it; two answers are what can overtake each
other; two workers are two that find nothing. Fairness: intervals and timeouts fire and requests are answered or
fail; users do as they like. `CHECK_DEADLOCK FALSE`: a user may have nothing left to do within the bounds.

The finding of `template_create`: POST writes the content before the row. For S3 nothing checks whether the
object exists, so a POST with a name that is taken replaces the object of the template that has it; the insert
then fails on the unique name, and the rollback deletes the object.

`DashboardProofs` proves `Seeded`, `TemplatesKeepContent` and `SavesKeepContent`, for any clients, names,
workers and entries. `ConfigInv`: a worker that nothing has spoiled has seen every entry it passed in the database.
`Seeded` assumes `BucketsListed`, that the bucket of each template is an entry of `config.yaml` too: a template that
names another one is left out by `addTemplate` (`config.ts:199`). `ContentInv`: a request that holds a
filename is the only one for its template, and its object is its own unless another
request met it there (`TemplatesInv`); the dialog and the saves on their way hold what was loaded from their
template unless a load slipped (`EditorInv`). `CompletionShown` and `LogsConverge` are liveness and
model-checked only.

## Proofs at a glance

| Module | Theorems | For |
|---|---|---|
| `MailDeliveryProofs` | 10 | any messages, workers, handlers, copies, retries and faults; `TypeCorrect`, `LeaseCorrect`, `OutcomeCorrect` and `TerminalStays` for any number of handlers per worker; `NoneStranded` under `Timely`, the others under `SoleHandler` |
| `BulkSendProofs` | 4 | any messages and batches besides; `BulkRefinement` under `SoleHandler` |
| `CircuitBreakerProofs` | 5 | any handlers and limits |
| `WebhookProofs` | 6 | any deliveries, endpoints, workers and limits, all faults |
| `AcceptanceProofs` | 6 | any calls, keys, bodies, limits and faults |
| `ControlPlaneProofs` | 4 | any clients, keys, accounts, values, digests, faults |
| `WorkerLifecycleProofs` | 3 | any prefetch, interval, retries, thresholds |
| `DashboardProofs` | 3 | any clients, names, workers and entries; `Seeded` under `BucketsListed` |

Three hypotheses appear. `SoleHandler` is the default prefetch and the one condition under which a worker id
is a lease token; `Timely` is what the reconciler's thresholds take for granted; `BucketsListed` is a
`config.yaml` that is complete. Each has behaviours of every kind the theorem is about, and the runs
`safety`, `liveness`, `bulk` and `dashboard` are instances of them.

Every invariant and every refinement of a passing run has a theorem. Out of the prover's reach, and so
model-checked only, is liveness, which needs fairness and `ENABLED`: `EventuallySettled`, `ClosesAgain`,
`EveryDeliveryEnds`, `CompletionShown`, `LogsConverge`, `ShutsDown`, `WorksAgain`. Where a recursive definition would be
needed (what a plan of operations contains, what a seeding has passed), the modules use sequences and positions, and
the lemmas about them (`HasConcat`, `SeedOrderSeq`) need no induction.

## Not modelled

* **Order of the retry queue.** Retries come due in any order. The code gives each message an expiration of
  its own in one FIFO queue, where a long delay holds back what is behind it; which delays grow is a matter
  of real time.
* **The queue client of the dashboard** (`lib/queue.ts:22-42`) keeps the promise of its channel. When
  connecting fails before a close handler is registered, the rejected promise stays, and every publish of
  that process fails until it is restarted; when a confirm is late, the channel is dropped and its connection
  left open. `MailDelivery` lets any publish of the API fail, which includes both, and the reconciler makes
  up for them.
* **Attempts across recoveries.** Lease recovery publishes with attempt 0, so `MaxRetries` bounds the attempts of
  a copy and not of a message. No document of the repository promises more.
* **Real time** beyond order: the length of backoffs, the pause between connections, the 50 rows of a claim in
  `MailDelivery`, the pace of a backlog after a downtime (every item is due, and one iteration publishes up
  to 50 without the delay asked for).
* **A loss that is read together with the answer to consume** (`index.ts`): both events in one read of the
  socket, before anything listens. And `channel.close` is taken to end.
* **Data**: contents of messages, the formats of jobs and events, validation and parsing, digests (equal or
  not), secrets (numbered), metrics, logs, the session cookie and its proxy, the API's documents
  (`legacy-contract.ts`, `contracts.ts`), CLI arguments, manifests of the deployment. They keep no state the
  rest depends on.
* **Details of modelled parts**: the limit of 25 deliveries per claim, the choice of endpoints by event type,
  `getOpenCircuits`, the pruning of idle buckets, pages that load once and show what they got.
