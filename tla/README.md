# OrbitStream backend: TLA+ models and proofs

OrbitStream is a NestJS service that lets merchants take payments on the
Stellar network: a merchant creates a checkout session, a customer pays with
the session's memo, the service sees the payment on the ledger, marks the
session paid and tells the merchant by webhook. This directory models the parts
of it in which several actors share state, checks them with TLC and proves what
matters most with TLAPS. Paths below are relative to the repository; the code is
under `src/`.

`PROJECT.json` lists the components, the runs, the lines of code each definition
translates, the findings, the hazards and the theorems.

## 1. Inventory

| Part | State | Operations | Hard behaviour | What makes it correct |
| --- | --- | --- | --- | --- |
| Checkout sessions, `checkout/checkout.service.ts` | table `checkout_sessions` | create, read (expires an overdue session), cancel | two statements per request: the status read is stale when written | only a pending session is cancelled; a closed session stays closed |
| Payment confirmation, `payments/payment-detector.service.ts` `processPayment` | the same table, table `payments` | claim (transaction), finalize (transaction), dispatch the event | several instances and two payments for one session at once; a crash between claim, finalize and event | a paid session has a real payment, one payment per session, the merchant is told |
| Payment recovery, `payments/payment-recovery.service.ts` | the same tables | cron job of four passes | overlapping runs, races with a detector that is slow and not dead, failing Horizon calls | nothing stays in `processing`; no session is reopened once closed |
| Payment polling, `payments/payment-detector.service.ts`, `payments/payment-cursor.service.ts`, `stellar/stellar.service.ts` | per process: cursor, page, flush counter; Redis: lock, cursor, checkpoint list | start and restore, elect a leader, fetch a page, process, checkpoint, flush by compare-and-swap, shut down | crash in the middle of a page, lock that runs out, expiring keys, two leaders | no operation is skipped; each is processed in the end |
| Webhook queue, `webhook/webhook-queue.service.ts`, `webhook.service.ts`, `webhook-delivery.service.ts` | PostgreSQL: delivery rows and dead letters; Redis: sequence counters, job hashes, session zsets, the schedule; per process: in-flight sets | enqueue, tick, process, retry, cleanup, dead letter, recovery sweep | four writes in two stores without a transaction, snapshots that age, restart, two instances | in order per session, one at a time, every event delivered or dead-lettered |
| Wallet login, `auth/auth.service.ts` | Redis: nonce and failure counter per wallet; per process: circuit breaker | request a challenge, verify it, count failures | overlapping verifications with a slow request to Horizon in the middle, retries | a token rests on a challenge and a signature; the counter counts what it should and runs out |
| Rate limiter, `api/middleware/rate-limit.service.ts` | Redis: a zset per identity; per process: a window in memory | check and record a request | late, repeated and abandoned scripts, switching between the two windows | no more than the limit in any window, and no less |
| Merchants and API keys, `merchants/merchants.service.ts`, `merchants.controller.ts`, `audit/audit.service.ts` | tables `merchants`, `api_keys`, `audit_logs` | register, update the profile, set the webhook, create and revoke keys, authenticate by key; an audit entry for most of them | check and write in separate statements, guards that read before the handler does, audit entries that may be lost | one account per wallet and email; only the owner revokes, for good; the audit log agrees with the keys |
| Guards, `auth/roles.guard.ts`, `resource-ownership.guard.ts`, `api-key.guard.ts` | none of their own | look up the role, the owner, the key | what they read is stale when the handler writes | what a merchant changes it had the role and the right to change |
| CORS origins cache, `middleware/cors-origins-cache.service.ts`, `dynamic-cors.middleware.ts` | Redis: an entry per merchant and one for all, with times to live; column `cors_origins` | refresh on a timer, rewrite after a change, decide a request and fill the entry for all | snapshots of the table written over newer ones, failing calls, expiry | no decision rests on origins older than a bound |
| Webhook endpoints API, payment links | tables | CRUD | none: single statements | - |
| JWT secret rotation, configuration, clients, metrics, health, headers | none of their own | stateless | none | - |

How they interact. The detector's loop calls `processPayment` for each operation
of a page. `processPayment`, the recovery job and the checkout API share the
session table and nothing else; the first two call
`WebhookService.dispatchWebhook`, which calls `enqueue` of the queue. The queue's
timer calls `process`, which posts to the merchant. Rate limiter, CORS middleware,
login and guards stand in front of the API. All instances share PostgreSQL and
Redis.

## 2. Modules

| Module | Models | Runs with | Proofs |
| --- | --- | --- | --- |
| `CheckoutPromise` | abstract: what a checkout promises its merchant | implemented by the next two | in `SessionLifecycleProofs` and `SessionQueueProofs` |
| `SessionLifecycle` | checkout sessions, `processPayment`, the recovery job | `MCSessionLifecycle` | `SessionLifecycleProofs` |
| `SessionQueue` | `SessionLifecycle` and `WebhookQueue`, joined by `dispatchWebhook` | `MCSessionQueue` | `SessionQueueProofs` |
| `PaymentPolling` | the polling loop, lock, cursor, checkpoints | `MCPaymentPolling` | `PaymentPollingProofs` |
| `WebhookQueue` | the webhook queue | `MCWebhookQueue` | `WebhookQueueProofs` |
| `AuthChallenge` | wallet login and its circuit breaker | `MCAuthChallenge` | `AuthChallengeProofs` |
| `RateLimiter` | the sliding window in Redis and in memory | `MCRateLimiter` | `RateLimiterProofs` |
| `MerchantAccounts` | merchants, API keys, audit log, and the guards in front of them | `MCMerchantAccounts` | `MerchantAccountsProofs` |
| `CorsCache` | the CORS entries in Redis and everyone who writes them | `MCCorsCache` | `CorsCacheProofs` |

In every module an action is what the code does between two awaits: one
statement or transaction of PostgreSQL, one command or script of Redis, one HTTP
request, together with the synchronous code up to the next await. What a handler
has read stays in its own record (`det`, `rec`, `req`, `inst`, `enq`, `tick`,
`proc`, `recov`, `call`, `set`, `refresh`, `read`) until it is used, so that everything
another actor does in between is explored. Failing calls and crashes are actions with a bound
(`MaxFaults`, `MaxOutages`, `MaxLost`). A definition
headed "Variant" is a plausible mistake in the definition after it; no behaviour
uses it, and `PROJECT.json` names under "mutants" the property that notices it.

### CheckoutPromise

The promise has three variables: the `view` of a session that the API shows
("none", "open" for pending and processing, or how it was closed), the payments
`recorded` and the payments the merchant has been `told` of. It says that a closed
session is never open again, that a payment goes on record and closes its session
as paid in one step, that 'paid' and the merchant's knowledge rest on a recorded
payment, and that records stay. It has neither claims nor recovery runs nor a
queue: whatever those do must look like one of its four actions or like nothing.

`SessionLifecycle!KeepsPromise` takes `status` for `view` and the events handed to
the queue for `told`; `SessionQueue!KeepsPromise` takes what the merchant's
endpoint has acknowledged.

### SessionLifecycle

State: `status`, `age` (since `created_at`) and `since` (since
`status_changed_at`, while in `processing`) of each session, both saturating just
beyond the deadline they are compared with; the `ledger`; the `payments` rows;
the events `announced` to the queue; `det`, `rec` and `req`, the local variables
of detectors, recovery runs and HTTP requests.

| Code | Actions |
| --- | --- |
| `createSession`, `getSession`, `cancelSession` | `CreateSession`, `GetSession`, `CancelSession`, then `WriteRequest` or `FailRequest` |
| `claimSession` | `ClaimSession` |
| rest of `processPayment` | `Finalize`, `DispatchWebhook`; `FailDetector` at any await |
| `recoverStuckProcessing`, `reconcileStuckSession` | `StartRecovery`, `FindConfirmingPayment`, `NoConfirmingPayment`, `RevertToPending`, `Reconcile`, `NotifyReconciled` |
| `recoverPendingWithPayments` | `StartOrphans` |
| `recoverStuckPending` | `StartStale`, `ReadStale`, `WriteStale` |
| `recoverPaidWithoutPayments` (a count), errors | `FinishRecovery`, `FailRow`, `AbortRecovery` |

The loop of `recoverPendingWithPayments` has no action. It works on pending
sessions that have a payment row, and starting from empty tables there are none:
every transaction that inserts a payment row closes its session, and no statement
reopens one. `RecordedIsClosed` states this and
`RecordedStaysClosed` proves it, so the model loses no behaviour.

An operation `Confirms` a session when its memo names the session, the amount is
equal and the asset code is, unless the session is priced in XLM: then any asset will do.
Issuers are never compared. `claimSession` and `findConfirmingPayment` follow the same
rule, which `PaymentsAreReal` states as it is; that it is not what the tests of the
repository say is shown by `SessionAnyAsset`. A payment beyond the latest 50 of the account,
which `findConfirmingPayment` does not see, is one of the faults of `NoConfirmingPayment`,
though no call fails.

`processPayment` may be given any operation of the ledger at any time and again:
this is what `PaymentPolling` justifies (at least once) and more than it allows.

`takenOver` is a history: the sessions whose claim a recovery run has given back or
completed. While the run and a detector it believes dead both work on a session, two
payments and two events are possible, and the properties that exclude them except
these sessions, and no others.

### SessionQueue

The composition has the variables of both modules and two of its own: `hooked`, the
sessions whose merchant has a webhook, and `event`, who called `dispatchWebhook` for
a delivery id and about which payment. The steps of `SessionLifecycle` that hand over
an event in one step, `DispatchWebhook` and `NotifyReconciled`, become what they are
in the code: the caller waits (`Calling`) while `Dispatch`, `EnqueueStep` and
`Dispatched` run `enqueue`, or `FailDispatch` throws in it. `Home` places a handler
in a process, and `Crash` of a process stops its handlers and its worker of the
queue in one step. Checkout requests, retries and backoff, exceptions in the worker,
requeued dead letters and the 48-hour time to live are in the component modules only.

### PaymentPolling

State: `tip` of the ledger, the set `processed`, the Redis keys `lock`, `stored`
(cursor) and `checkpoint`, and the loop of each instance. Operations are their
paging tokens. `Start` and `RestoreCursor` are `restoreCursor`; `RenewLock`,
`ExtendLock`, `AcquireLock` the election; `Fetch` the page of Horizon; `Process`,
`AppendCheckpoint` and `UpdateCursor` the body of the loop; `Destroy`,
`ReleaseLock`, `DeleteLock`, `Exit` and `Crash` its ends. `LockExpires` is the
time to live of a lock whose holder renews it no more (`LoopIsOver`), `LockOutlived` the
case that a loop which goes on takes longer than `LOCK_TTL_S`, `KeyExpires` the time to
live of the cursor.

A call of the loop may return, throw or never be answered. In the body an exception
abandons the page (`Throw`). In the election it is outside the `try` and ends the loop
(`FailElection`): `startPolling` is not awaited and `main.ts` installs no handler of
rejections, so that Node (20 or later, `README.md:45`) ends the process; the action also
allows a process that lives on without its loop. Neither `axios.get` in
`getPaymentsPage` nor the Redis client has a timeout, so that a call may also be waited
for forever (`Hang`); the loop is then "stuck", and only a crash brings it back.

### WebhookQueue

State: the rows (`rows`, `dead`), the Redis keys (`seqs`, `jobs`, `waiting`,
`scheduled`), the local state of each call of `enqueue` (`enq`), of each tick
(`tick`), of each `process` (`proc`, whose non-idle entries are the in-memory set
`processing`) and of each sweep (`recov`), and two histories (`acked`, `tries`).
Time is abstracted: a job in `scheduled` is "due" or "later", and `Elapse` turns
the second into the first. `Enqueue` (from `dispatchWebhook`) or `Requeue` (from
`requeueDeadLetter`), `InsertRow`, `WriteJob`, `JoinSession`,
`Schedule` are the statements of `enqueue`, `MarkRetried` the last one of
`requeueDeadLetter`; `TickStart`, `ReadJob`, `DropDue`,
`CheckHead`, `Dispatch` those of `tick`; `Deliver`, `RecordDelivery`,
`DeadLetter`, `Unschedule`, `LeaveSession`, `DeleteJob`, `RewriteJob`,
`Reschedule` those of `process`; `CheckJob`, `ReviveJob`, `ReviveOrder`,
`ReviveSchedule`, `FinishSweep` those of `recoverPending`. `Lapse` is an outage of all
instances that outlives `WEBHOOK_KEY_TTL_S`: every key but `scheduled` is gone.

### AuthChallenge

State: `owner` of every challenge issued, the keys `challenge` and `attempts` of
each wallet with the time they run out, the `breaker` of the process, and each
call of `verifyChallenge`. A transaction is the number of the challenge it was
built from and the key that signed it. `Begin` reads the counter, `ReadNonce` the
nonce (and checks the transaction, synchronously; a transaction whose operation has no
value throws a TypeError, which is not counted), `SignersAnswer`,
`NotFoundAnswer`, `OutageAnswer` (5xx and timeouts) and `ErrorAnswer` (other 4xx) are the
answers `fetchAccountSignersWithResilience` tells apart, `DeleteNonce` the success,
`CountFailure` and `ExpireCounter` the two Redis calls of a refusal. `UnreachableAnswer`
does what `ErrorAnswer` does, as in the code, for connections that fail and for 429; the
history `refused` remembers which of the two it was ("horizon" or "caller").

### RateLimiter

State: the `zset` of one identity under one rule and the time its key `expires`,
the `memory` window (its requests, each with its time) and `ready` client of each
instance, and each `check()` call (`req`). `Check` decides from memory when the client is not ready, else
`CheckRedis` runs the Lua script. `Resend` is a script that ran and whose reply
was lost (ioredis sends unfulfilled commands again), `GiveUp` the rejection after
`maxRetriesPerRequest`.

### MerchantAccounts

State: the tables `merchants`, `apiKeys` and `auditLogs`, and each HTTP request
(`req`). A request to a dashboard route passes `Begin` (the JWT strategy's lookup of
the merchant), `CheckRole`, for a revocation `CheckOwner`, and `FindByWallet` in the
controller, each a query of its own, before `UpdateProfile`, `SetWebhook`,
`GenerateApiKey` or `RevokeApiKey` writes; `LogAudit` is the audit entry, `SkipAudit`
its failure, which `AuditService.log` swallows. `Register` and `InsertMerchant` are the
two statements of a registration. `Authenticate` and `Serve` are a request with an API
key. `ChangeRole` is an operator: no route changes a role. The history `revoked` holds the
keys whose revocation has been answered.

### CorsCache

State: `table` (the column `cors_origins`), `cache` (the entries, with the time they
have left), and the snapshots held by each `setCorsOrigins` (`set`), each
`refreshCache` (`refresh`) and each request in the middleware (`read`). `since` is the
time since a merchant's origins last changed, `age` that of a snapshot; a handler
writes within `MaxDelay` of its read. `WriteNext` is one command of the refresh's
pipeline, between which commands of others may come.

## 3. Runs

The value of every constant is in the `.cfg` file. Symmetry is used in the runs
that check no liveness property. Deadlock is checked in `CorsEntries`; the other
models have bounds (sessions, operations, requests, ticks) at which they may rightly
stop.

### Runs that pass

| Run | Instance | Shows |
| --- | --- | --- |
| `SessionRaces` | one session, two payments that the checks accept, one of them in another asset, and one that they refuse, two detectors, two overlapping recovery runs, one request, one fault | `KeepsPromise`: the handlers implement `CheckoutPromise`. `PaymentsAreReal`: a payment row stands for an operation of the ledger that named the session and paid the asked amount, with the asked asset code unless the session is priced in XLM. `OnePaymentPerSession`: unless a recovery run took the session over. `SettledIsFinal`: a final status is left only by a handler that read the session before |
| `SessionQueue` | one session with or without a webhook, one payment, a detector and a recovery run in a process with a worker of the queue, two delivery ids, one fault (a failing handler, a failing `enqueue`, a crash of the process), with fairness | `KeepsPromise`: the endpoint acknowledges recorded payments only. `OneEventPerSession`: unless a recovery run took the session over. `ProcessingResolved`: no session stays in `processing`. `HeardUnlessFault`: nothing but a fault keeps the payment from the endpoint and from the dead letters |
| `PollingShared` | two instances, three operations in pages of two, two faults (crash, shutdown, exception in the body or in the election, call never answered, lock outlived, expired key), with fairness | `NothingSkipped`, `StoredOnlyAdvances`, `OneLeader` (before the first fault), `EveryOperationProcessed` (unless every instance is stuck) |
| `QueueFaults` | two deliveries of one session in calls that may overlap, the second possibly the retry of the first one's dead letter, two attempts each, one fault: a crash, an exception, or a crash followed by a 48-hour outage | `OneInFlight`: one job of a session at a time. `InOrder`: no delivery before those whose `enqueue` had returned. `DeliveredIsAcked`: rows say 'delivered' for acknowledged events only. `SweepLeavesNoBareRow`. Before the fault `SessionHoldsUnfinished`, `AttemptsCounted` and `RequeuedIsOver` |
| `RateWindow` | four requests, two instances, limit 2 (fallback 1), a window of three ticks, scripts up to one tick late, one lost reply, one outage | `AtMostLimit`, `BlockedOnlyWhenFull`; neither window outgrows its limit (in `TypeOK`) |
| `AuthCalls` | one wallet, two challenges, three verifications, two at a time, one failed attempt allowed, one retry, one fault | `TokensAreProven`, `NotReplayed`, `AttemptsBounded`, `BreakerNeedsFailures`; `OnlyRefusalsCount`: no 5xx, timeout or open breaker is held against a wallet |
| `MerchantRaces` | two merchants, wallets, emails and keys, four requests of which two overlap, roles that change at any time, one fault | `UniqueAccounts`; `RevokedByOwner` and `RevocationIsFinal`; `WritersHaveTheRole` (unless it was taken away after the guard); `AuditAgrees` |
| `CorsEntries` | two merchants, one origin, an update, a refresh and a request that may overlap, entries that live for two ticks, snapshots up to one tick old, one fault | `CacheIsRecent`, `DecisionsAreRecent`: what is cached or decided was true within the time to live and the delay of the slowest handler |

`AtMostLimit` deserves a remark. "Concurrent requests cannot race past the limit"
is true of the script, but the script drops entries by the clock that its request
read: a later request that overtakes an earlier one drops entries that the
earlier one should have counted. What holds is the limit for a window shortened
by the greatest delay of a script, and that is what the property says.

### Runs that end in a counterexample

Each shows that the code does not do what a comment, document or test of the
repository says; `PROJECT.json` quotes it under "findings".

| Run | What happens |
| --- | --- |
| `SessionLostEvent` | `payment.confirmed` is lost when something fails after the commit of `paid`: no pass of the recovery job looks for a paid session without an event |
| `SessionAnyAsset` | a session that asks for one XLM is paid by one unit of another asset, since the asset code is not compared for such a session; nor is the issuer for any (`Ops <- MCOtherIssuer` with the session `s2`) |
| `PollingFlush` | from the second flush on the compare-and-swap expects the cursor before the last operation, finds that of the last flush and fails; `StoredOnlyAdvances` and `NothingSkipped` hold all the same |
| `QueueHalfEnqueued` | after a crash between the job hash and the schedule, the sweep takes the hash for a living job; nothing sends the event until the hash's 48 hours have run out and another restart finds the row bare |

### Statements that do not hold

The MC modules end with statements that a reader might expect of the code and
that have counterexamples. No run lists them.

| Statement | What happens |
| --- | --- |
| `CancelOnlyPending` | `cancelSession` reads pending, a detector claims the session, and the update by id cancels it |
| `OnePaymentPerSession` and `OneEventPerSession` for sessions taken over | a claim that takes longer than `STALE_MINUTES` is given back, when Horizon fails, and taken by a second payment while the first detector is still to finalize; or it is completed, and both dispatch the event |
| `ExpiresAtDeadline` | the recovery job (`payment-recovery.service.ts:211`) expires a pending session five minutes after its creation (`STALE_MINUTES`), although its time to live (`expires_at`, which `getSession` honours; `.env.example:55`: "session TTL in minutes; defaults to 30") is thirty |
| `LockTouchedByHolder` | the lock changes hands between the GET and the EXPIRE or DEL of `renewLock` and `releaseLock` |
| `NowSkipsHistory` | the cursor "now" is sent as no cursor, and the first page is the account's oldest |
| `ProcessedAtLast` | every instance waits for a call that is never answered |
| `StrictOrder` | of two overlapping enqueue calls the later number is in Redis first and is delivered first |
| `SweepRevivesUnfinished` | the sweep's rows age: a delivery concluded meanwhile has no hash and is revived |
| `BackoffRespected` | the tick's list of due jobs ages: a job rescheduled meanwhile is dispatched at once |
| `DeadIsNotAttempted` | an exception between the dead letter and the cleanup leaves the job due; it is sent again at every tick, since its second dead letter violates a unique column and throws before the cleanup |
| `InOrder` after a 48-hour outage | the sequence counter of the session starts again, and a new event may get the number of an old one before the sweep raises it |
| `OneInFlight` with two instances | `processing` and `inflightSessions` are sets of one process |
| `OneTokenPerChallenge` | two verifications that overlap both read the nonce before either deletes it |
| `OutagesAreNotCharged` | Horizon refuses the connection, cannot be resolved or answers 429: the error is rethrown (`auth.service.ts:113`), becomes an `UnauthorizedException` (line 290) and is counted (line 194) as a failed attempt of the wallet, whose signature was good; only 5xx and timeouts become "Horizon API is unreachable" (503, line 109) |
| `CounterRunsOut` | a crash or an exception between INCR and EXPIRE leaves a counter that no later call gives a time to live |
| `ViewersOnlyRead` | a role is taken away between the guard's query and the handler's write |
| `KeysAreAudited` | the key is in the table and its audit entry fails, or the instance stops before it |
| `EntryFollowsTable` | a refresh that read the table before the change writes the entry after `invalidateMerchantCache` has |
| `DecisionsFollowTable` | `setCorsOrigins` rewrites the merchant's entry, and requests are decided by the entry for all merchants, which stays until it runs out or is refreshed |

### Bounds

Two is the number that matters in most places: two handlers that overlap, two
payments for one session, two events of one session, two instances. A third
is used where it could undo what two agree on: a third operation for the second
page and the second flush in `PollingShared`, a third call in `AuthCalls` that
begins when two have reached the limit, and more requests than both limits
together in `RateWindow`, and four requests in `MerchantRaces`, two to register and
two to make and revoke a key. `QueueFaults` and `SessionQueue` have one fault, as a
second one only repeats what the first has left; `SessionQueue` has one payment, as
the second payment of a session is refused before it comes near the queue
(`SessionRaces`). The
parameters of the code (`PERSIST_EVERY`, `MAX_ATTEMPTS`, the page size, the
limit, the retries and threshold of the breaker) are constants of the modules and
are set to 1 or 2 so that every boundary is crossed. Ages saturate one past the
largest deadline, which no handler can tell from greater ages. One fault enters
every recovery path; `PollingShared` has two, for a recovery that fails itself.

### Fairness

`SessionLifecycle.Fairness`: time passes, the cron job keeps running
(`@Cron` every five minutes) and a `processPayment` call that was not
interrupted goes on. Nothing is assumed of customers, of HTTP requests, or of a
detector starting.

`PaymentPolling.Fairness`: a process that is down is started again, which is the
business of whatever runs the service; the lock runs out in Redis when nobody renews
it; and a loop goes on when its call is answered. That a call is answered is nowhere
guaranteed, as `axios.get` and ioredis are used without timeouts. The call that is not
takes the step `Hang`, a fault, and fairness asks nothing of the loop from there on: the
other instance has to take over, and `EveryOperationProcessed` says that it does, unless
it is stuck as well.

`SessionQueue.Fairness`: that of `SessionLifecycle`; and the timer of the queue fires
(`setInterval`), calls return or fail, and a process that is down is started again. The
request to the merchant has a timeout (`DELIVERY_TIMEOUT_MS`). A detector or a recovery run whose
call is never answered leaves the tables as one that has failed there (`FailDetector`,
`AbortRecovery`) and is not a step of its own; the cron job starts its next run beside it.
A worker of the queue whose call to PostgreSQL or Redis is never answered holds its slot
for good, and the liveness properties do not speak of it.

Faults are bounded, because nothing is promised of a
service all of whose calls fail.

## 4. Proofs

The theorems hold for every value of the constants that satisfies the named
assumptions of the modules: any number of sessions, payments, detectors, recovery
runs, requests, instances, wallets and calls, and any page size, interval or bound.

`SessionLifecycleProofs`. `TypeOK` alone is not inductive: the recovery job
inserts a payment from a row of an earlier query, so one has to know that such a
row names a transaction of the ledger, and `paid` is written by handlers that
looked for the payment in an earlier statement. `WorkersHoldEvidence` says what
each handler knows at each place: a claimed row is backed by a matching operation
of the ledger, a row about to be marked paid has a payment row, and so on.
`Inv`, the conjunction of `TypeOK`, `WorkersHoldEvidence`, `PaidHasPayment`,
`RecordedIsClosed`, `AnnouncedIsRecorded` and `PaymentsAreReal`, is inductive because the ledger and
the payments table only grow (`Growth`). Theorems: `Typing`, `PaidIsBacked`,
`RecordedStaysClosed`, `EventsAreBacked`, `PaymentsAreBacked`. `StatusWrites` lists every statement that
changes a status; from it follow the action properties `ClosedStaysClosed`
(`NotReopened`) and `SettledForever` (`SettledIsFinal`). `Exclusive` (`OnePaymentPerSession`)
uses a second invariant, `ClaimInv`: a session that was not taken over has one
claimant at most, none once it has a payment, and is in `processing` or closed while
there is one. `Implementation` is the refinement: every initial state maps to an initial
state of `CheckoutPromise` and every step to one of its actions or to a stutter
(`PromiseStep`); a handler that writes `paid` is a `Confirm` or a `Close` because of what
`WorkersHoldEvidence` says it holds, and no other write reopens a session because of
`NotReopened`.

`PaymentPollingProofs`. `Inv`, the conjunction of `TypeOK`, `LoopsAreInPage` and
`NothingSkipped`, is inductive: a loop moves its cursor by one, only after the
operation after it has been processed, and Redis receives cursors from loops
only. Theorems: `Typing`, `AtLeastOnce` (`NothingSkipped`), and
`CursorAdvances` (`StoredOnlyAdvances`), the compare-and-swap's own promise.
`LeaderIsUnique` (`OneLeader`) needs an invariant of its own, `LeaderInv`, about the
time before the first fault: no instance is shutting down, and whoever has found
itself leader has a loop that goes on and holds the lock until it looks at the lock again,
so two of them would hold the same lock.

`AuthChallengeProofs`. `NotReplayed` rests on two facts about the nonces in
Redis: none of them has been exchanged (`NoncesAreFresh`), because whoever gets a
token deletes its wallet's nonce before, and each belongs to its wallet
(`TypeOK`). `CallInv` says what a call knows at each place: past the nonce check it
carries a challenge of its wallet that was not exchanged when it began.
Theorems: `Typing`, `ProvenTokens` (`TokensAreProven`), `NoLaterUse`
(`NotReplayed`). The counters need a second invariant, `CountersInv`. Its parts:
`ParallelInv`, a wallet's attempts and its calls that may still be counted (`Pending`)
are together fewer than `MaxAttempts + MaxParallel`, since each of those calls took one
of `MaxParallel` places while the counter was below the limit; `RefusalInv`, every attempt
in a counter stands for a call of its own that was refused; `BreakerInv`, every failure in
the breaker stands for a call that used up its requests to Horizon. The bounds in
`FewMoreAttempts` (`AttemptsBounded`), `RefusalsOnly` (`OnlyRefusalsCount`) and
`OpenForAReason` (`BreakerNeedsFailures`) are then cardinalities of sets of calls.

`RateLimiterProofs`. The script's three steps (drop what is old, count, add) keep the
window of the present below the limit, but the property is about every window of the
past, and Redis may have forgotten an entry that such a window counts: the invariant says
that an allowed request is in the set (or in the memory of the instance that allowed it)
as long as its window is open, and that windows which have closed were within the limit
when they were written. `Requests` may be infinite; that the windows are finite is
proved. Theorems: `Typing`, `LimitHolds` (`AtMostLimit`), `NoFalseRefusal`
(`BlockedOnlyWhenFull`).

`WebhookQueueProofs`. Three invariants, one on top of the other. `Base` holds for any
number of instances: it types the keys, the rows and every handler, and follows an id
from `enqueue` on: what is in a job, in the schedule or in a handler's hands has its row,
and a row says 'delivered' only after the merchant has answered. Theorems: `Typing`,
`DeliveredWasAcked` (`DeliveredIsAcked`). `Single` needs one instance (`OneWorker`),
as the sets `processing` and `inflightSessions` do in the code: a job in `process` is the
only one of its session, everything enqueued before it is over, and it keeps its hash and
its place in the session's zset until the cleanup comes to them; an unfinished delivery
that has joined its session is still there; a number is larger than those drawn before
it; and while the sweep runs, what has no hash is still ahead of it. Theorems:
`OneJobPerSession` (`OneInFlight`), `SentInOrder` (`InOrder`), `SweepRevivesJobs`
(`SweepLeavesNoBareRow`).
`CalmInv` is about the time before the first crash, exception or lapse: keys, rows and
handlers agree about each delivery at each step of `enqueue`, `tick` and `process`.
Theorems: `SessionIsCleanedUp` (`SessionHoldsUnfinished`), `RequestsAreCounted`
(`AttemptsCounted`), `RetriedLetterIsOver` (`RequeuedIsOver`).

`MerchantAccountsProofs`. `ReqInv` says what a request knows behind each guard: its
merchant holds the token's wallet; the merchant has the role, or an operator has taken it
away since (`raced`); a key about to be revoked belongs to the merchant with that wallet.
Together with `UniqueAccounts` this makes the merchant the guard found and the merchant
the controller finds one and the same. `NoteTrue` is what an entry says, and is stable as
keys keep their owner and stay revoked (`Grown`); `AuditComplete` says that a key without
an entry has a request about to write it. The conjunction is inductive. Theorems:
`Typing`, `Unique`, `AuditIsTrue`, `OnlyOwnersRevoke`, `OnlyWritersWrite`,
`RevokedForGood`: every property its run checks.

`CorsCacheProofs`. That an entry is recent is not inductive, as entries come from
snapshots. `Recent(m, origins, n)` says that origins were the merchant's n ticks ago at
the latest; the invariant says it of each snapshot with its age for n, and of each entry
with `EntryAge`, the delay and the time the entry has been there. A tick adds one to
all of them, a change of the table makes every origin list recent, and a write turns an
age into an `EntryAge` that is no less. A snapshot of every merchant's origins is one of
their union (`UnionRecent`). Theorems: `Typing`, `EntriesAreRecent`, `RecentDecisions`.

`SessionQueueProofs`. The composition instantiates its components with substitutions, and
the prover does not make the theorems of a module available through such an instance, so
the module restates what it needs of them. `Inv` has three parts. `SessionInv` is about the
handlers: what a detector or a recovery run holds (`DetInv`, `RecInv`), that a claim nobody
has taken over is of a session that is not open and has no payment (`ClaimInv`), and that
two detectors share a session only if it was taken over (`ApartInv`). `QueueInv` is about
the queue: rows, schedule, passes, sweeps and workers deal with deliveries some caller has
enqueued (`Known`) and with no others. `EventInv` joins the two: each such delivery
announces a payment on record and runs in its caller's process (`EventOf`), and a detector
about to announce its payment finds no event of the session but the one it is waiting for
(`AnnounceInv`). The first two parts are kept without looking at each other
(`SessionStays`, `QueueStays`); the third needs both, and that a call of `enqueue` ends
with the detector's answer, its exception or its crash, never silently (`CallEnds`). `Write`
lists what a step may do to statuses and payments, and from it follow both the invariance
and the refinement. Theorems: `OneEvent` (`OneEventPerSession`), `EndToEnd`
(`KeepsPromise`; the merchant is told of a payment in the step in which its endpoint
answers, and in no other), and `QueueBehaves`: the composition takes only steps of
`WebhookQueue`, so that what `WebhookQueueProofs` says of that specification, under its
assumptions on the constants and with `MaxAttempts = 1`, is true here as well. The same cannot be said of `SessionLifecycle`, as
a crash here stops several handlers in one step.

With TLC only: the liveness properties (`ProcessingResolved`, `HeardUnlessFault`,
`EveryOperationProcessed`), which need fairness and ENABLED. Every safety and action
property of the passing runs is a theorem.

## 5. Not modelled

- The scaling of amounts to integers in `amount-utils.ts` and the patterns of
  `originMatches` are pure functions of strings. An operation of the model carries a memo,
  an amount, an asset code and an issuer, and `Confirms` looks at the first three as the
  code does.
- Webhook queue: the priorities (the one event that is dispatched,
  `payment.confirmed`, has one priority), signatures (a revived job is signed with the
  row's `created_at` instead of the time of the original `enqueue`), and the branch of a
  merchant without a webhook URL at delivery time (a URL can be changed but never
  removed).
- The intervals between polls and ticks: they change when a step happens, not
  which steps may follow each other. Clocks of several instances agree.
- Login: the time bounds of a transaction, which end no earlier than its nonce;
  the parsing of the envelope; several instances, each with a breaker of its own. A
  verification of an old challenge deletes the nonce of a newer one (`DeleteNonce`): the
  step is modelled, and nothing in the repository says what should become of it.
- Rate limiter: which rule and identity a request has; the numbers in the
  response headers. One definition, `InWindow`, is the window of the Lua script and of
  the memory: both drop entries at `now - window` or older.
- Merchants: queries that only read (`getProfile`, `listApiKeys`, `getCorsOrigins`); the
  owners of sessions and merchants in `ResourceOwnershipGuard`, which no route declares.
- CORS: `getMerchantOrigins` and `invalidateAllCache` have no caller. With Redis down
  the middleware answers with no origins although it could read the table (`FailFill`);
  it does so on purpose, and no property judges it.
- JWT secret rotation: a token is verified with the current and then with the previous
  configured secret; nothing is stored, and a rotation is a redeployment.
- Configuration, database and Redis clients, metrics, health, security headers, payment
  links, CRUD of webhook endpoints: stateless, or single statements that nothing else
  depends on.

## 6. Plan

1. An abstract specification of a delivery, pending and then delivered or dead,
   implemented by `WebhookQueue` until the first fault.
2. Pure operators with reference definitions: the backoff table and jitter, the
   classification of HTTP answers, amount comparison, patterns of origins.
