# Coop AI: a TLA+ development

Coop AI is an editor extension and a backend. The extension (chat, inline
completion, edits, context gathering) talks over HTTP to the backend, which
keeps organizations, users and indexed repositories in Postgres and does its
long work (indexing, dependency graphs, knowledge-gap scans) as *jobs*. This
directory models the parts whose correctness depends on the order in which
things happen. Paths are those of the repository, with `src/` for its root as
in `PROJECT.json`.

## 1. Inventory

| Component | State | Operations | Interacts with |
|---|---|---|---|
| Job queue `src/src/jobs/jobQueue.ts` | the `jobs` table (or a map in memory) | createJob, cancelJob, claimNext, updateProgress, completeJob, failJob, requeue | backends; events to the API's streams |
| Worker pool `workerPool.ts` | `running`, `activeJobs`, `stopped`, poll timer; per run a timeout and perhaps a backoff timer | start, stop, drain, runJob, handleFailure | job queue, executors |
| Backends `backends/*.ts` | table rows, rate-limit counters, results | save, get, update, claimNext, counters, both reclaim functions | Postgres |
| Rate limits, reuse `rateLimit.ts`, `jobReuse.ts` | counters per user, job type and window | canSubmitJob, recordSubmission, findReusableCompletedJob | createJob |
| Worker process `workerEntry.ts`, `jobRuntime.ts` | up, stopping or gone; reclaim timer | startJobRuntime, stopJobRuntime, shutdown | pool, reclaim |
| Jobs API `jobsApi.ts` | open event streams | submit, status, cancel, stream | job queue |
| Scheduler `scheduler.ts` | cron tasks | nightly batch, purge of results | job queue, org repositories |
| Org repositories `server/queueOrgRepoIndex.ts`, `orgStore.ts`, `indexedRepoQuota.ts` | `org_repos` rows with lastJobId and index status | queue, supersede, record the outcome of an index job | job queue, executors |
| Embedding limiter `indexing/embeddingRateLimiter.ts` | Postgres advisory locks | withEmbeddingConcurrencyLimit | index jobs |
| Graph cache `cache/graphCache*.ts`, `indexing/purgeOrgRepoIndex.ts` | per process: graphs in memory, pending writes; `graph_snapshots` rows | upsert, debounced flush, load, evict, purge | index jobs, graph and organization APIs |
| Stripe webhook `server/billing/billingApi.ts` | `stripe_webhook_events` rows, billing columns | claim, handle, complete, fail an event | Stripe's redelivery |
| Checkout `server/billing/{fulfillCheckout,provisionOrg}.ts` | organizations, users, memberships, invitations | fulfil a paid session | webhook and success page |
| Chat session `chat/CoopChatSession.ts`, `chatTurn.ts`, `chatThreadStore.ts` | thread in view, its messages, the store of threads, the running turn of each | send, stop, switch, new chat, clear, finish a turn | language model, editor, web view |
| Authentication `server/auth/*` | users, refresh tokens, rate-limit buckets | login, refresh, revoke | every API |
| Token pool `api/tokenPool.ts` | tokens with remaining counts | select, update | code hosts |
| Inline completion `autocomplete/` | pending request, caches, throttle | provide, cancel, accept | editor, backend |
| Edit sessions `edit/patchSession.ts` | the pending patch | propose, apply, discard | chat, editor |
| Agent, prompts, context, engines, web view, admin, website | turns, panels, text | – | – |

**What is hard.** (1) Nothing in the job queue is atomic but the claim
transaction: every other change of a row is a read, an `await`, and a write
of the *whole* row as it was read. (2) Jobs run in several processes: the API
process has a pool of its own beside the worker. (3) A run that timed out
goes on. (4) A retry is a timer that holds a copy of the row. (5) Crashes
leave rows `running`; a starting worker requeues all of them. (6) Rate limits
are checked before and counted after the job is inserted. Outside the jobs the
same kinds recur: check-then-act on `org_repos`, refresh tokens and quotas;
webhook events claimed by a process that may die; a paid session fulfilled by two
requests at once, one statement at a time; chat turns that go on while the user
moves between threads; a debounced write racing a delete; session-level locks
through a connection pool. `PROJECT.json` lists
each as a hazard at its line with the properties that cover it.

**What makes a component correct.** Queue and pool: one run at a time executes
a job, ended jobs stay ended, every submitted job ends, retries are counted,
rows stay usable, slots are neither lost nor doubled, cancellation hits queued
jobs only. Rate limits: no window is exceeded (but for overlap), a denied
client may return when it was told. Org repositories: one active index job per
repository, and the recorded status is that of the latest job. Embedding
limiter: at most N holders, and every lock is released. Graph cache: a changed
graph reaches the table, and a purged one does not come back. Webhook: each event
takes effect once, and a failed one can be delivered again. Checkout: what is
acknowledged is served, once. Chat: an answer lands in its own thread or nowhere,
and no message is lost. Refresh tokens: one session per token.

## 2. Plan

| Order | Module | What | State |
|---|---|---|---|
| 1 | `JobQueue` | queue, pools, cancellation, recovery | done |
| 2 | `JobLifecycle` | abstract life cycle of a job, implemented by `JobQueue` | done |
| 3 | `JobQueueProofs`, `JobQueuePoolProofs`, `JobQueueQuietProofs` | every deployment: types, rows, slots and controllers; quiet ones: ownership of rows, recovery, life cycle | done |
| 4 | `JobRateLimit`, `JobRateLimitProofs` | limits, windows, reuse | done |
| 5 | `StripeWebhook`, `StripeWebhookProofs` | claim, handling, completion and release under redelivery, failure and crash | done |
| 6 | `Checkout`, `CheckoutProofs` | fulfilment by webhook and success page | done |
| 7 | `ChatTurns`, `ChatTurnsProofs` | submissions, turns, threads | done |
| 8 | `GraphSnapshots`, `GraphSnapshotsProofs` | debounce, flush, load, purge in two processes | done |
| 9 | `OrgRepoIndex` | index requests, superseding, outcome of index jobs; composed with `JobLifecycle` | next |
| 10 | `AuthTokens`, `Completion` | refresh rotation, coalescing of completions | if room is left |

`Checkout` is composed with `StripeWebhook` by assumption and guarantee: that
one webhook request at a time works on the event of a session, which it assumes,
is `OneHandler`, proved there for any deliveries.

Every safety property that a passing run checks is a theorem (section 10).
Proofs to come: those of the modules still to be written; and how the theorems of
the quiet queue fare when one of the conditions of `Quiet` is weakened.

## 3. The job queue: `JobQueue.tla`

### State

| Variable | Code |
|---|---|
| `rows` | table `jobs`: `status`, `retry_count` and `started_at` (`claim`: the number of the claim that set it, 0 for NULL) |
| `createdAt` | `created_at`, as an order |
| `stamp`, `aged` | names for `started_at` values; which of them are older than `maxJobDurationMs` |
| `proc` | a process: up, `pool.stop()` called, gone |
| `running`, `active` | `WorkerPool.running`, `WorkerPool.activeJobs` |
| `selecting`, `picking` | `drain()` loops awaiting the select, the update, of `claimNext` |
| `tasks` | runs of jobs: where `runJob` waits, where the body waits, the row each of them read and will write, the error in hand, whether its signal is aborted |
| `cancels` | `cancelJob` calls between read and write |
| `budget` | what is left of the bound on faults and user events |

A step of the model is what the code does between two awaits. A read and the
write it leads to are therefore two actions, and the row read in the first is
carried in the task. `runJob` is a race: `pc` follows `runJob` itself, `body`
follows `executeWithProgress`, which goes on after a timeout.

### Actions

| Action | Code |
|---|---|
| `Create` | createJob past its checks: the INSERT |
| `CancelRead`, `CancelWrite` | cancelJob, by a user or (force) to supersede an index job |
| `Poll`, `ClaimNone` | a `drain()` starts; `claimNext` returns nothing |
| `ClaimLocked` | the claim transaction, FOR UPDATE SKIP LOCKED |
| `SelectUnlocked`, `ClaimUnlocked` | `claimNextInMemory`; or `claimNextWithoutLock` after an error of the transaction |
| `Report`, `ReportRead`, `ReportWrite`, `ReportFails` | `report()` and `updateProgress` |
| `Throw`, `Timeout` | the body throws; the timeout wins the race and aborts |
| `CompleteRead`, `CompleteWrite`, `StoreResult`, `CompleteFails` | completeJob, and an error in it, which `runJob` takes for a failure of the job |
| `HandleFailure`, `FailRead`, `FailWrite`, `Requeue` | retry or failJob; the backoff timer |
| `Stop`, `Down`, `Start` | SIGTERM; exit or crash; start with `reclaimOrphanedRunningJobs` |
| `Age`, `ReclaimStale` | time passes; `reclaimStaleRunningJobs` |

In memory every await is a microtask, so timers, requests and signals wait
until none is pending (`Macrotask`); several chains of microtasks still
interleave. With Postgres anything interleaves.

### What is left out

Progress, results, error texts, parameters, statistics and events. "completed"
stands for completed and partial (one call writes both). An error of a query in
`failJob`, `handleFailure` or `requeue` is caught by nobody. Without a
`SENTRY_DSN` the unhandled rejection ends the process, which is `Down`; with one,
the integration that `sentrySink.ts` installs only reports it, the process goes on,
its slot is freed, and the row stays "running" until `reclaimStaleRunningJobs`
finds it old. That second outcome is not modelled. A claim transaction that commits while its connection breaks,
and a SKIP LOCKED select that sees no row because another claim holds it, are
not modelled: the second only delays a claim. A row's `created_at` values are
taken to differ.

### Life cycle: `JobLifecycle.tla`

The promise: a job waits; a worker takes it if nobody executes it; an
execution ends; its outcome is recorded or the job returns to the queue; an
ended job never changes. `JobQueue` implements it in quiet deployments with
`status` the row's and `busy` the jobs with a body that has not ended.

## 4. Rate limits: `JobRateLimit.tla`

One user and one limited job type, since counters are separate. Time is a
count of ticks; hours and days are windows of it. A request is the sequence of
awaits of `createJob`: two counts, the decision, the insert, the counting of
the submission (in Postgres one statement for the hour and one for the day,
with the clock read before the first). `limits` holds the latest
`job_rate_limits` row per window type, which is all the code reads; `entry` is
the memory backend's `RateLimitEntry`. `bypass` is `bypassRateLimit`, which
skips the check but is counted. The reuse of a finished job is its age test.
`accepted` is history, the set of jobs that passed the check with the tick of
each, so that the jobs of any stretch of time can be counted.

Between the insert of a job and the counting of it a statement may fail or the
process may end (`Fail`, in Postgres): `createJob` throws, the job stays
enqueued, and the rows not yet written do not count it, both or that of the day
only. The end of a process with a memory backend (`Restart`) takes the counters
and the jobs. `job` is the accepted job a request has yet to count,
`uncounted` the accepted jobs that a window's counter has missed or lost, and
`faults` the bound's counter.
The process clock, in whose time zone Postgres' hours are cut, is taken to be
UTC.

## 5. Stripe events: `StripeWebhook.tla`

One organization with a subscription, and the events Stripe sends about it. A
step is one statement on the database; between two statements anything else may
happen, and a statement may fail before or after it took effect.

| Variable | Code |
|---|---|
| `rows` | `stripe_webhook_events.status`, "none" without a row |
| `pc`, `ev`, `clampBy` | the requests in flight: next statement, event, and the plan `updateOrganizationBilling` read to clamp the seats |
| `org` | plan, usage tier, purchased inventory, seats, billing status, and the tiers of its users |
| `acked` | events answered with a 2xx |
| `applied`, `undone`, `overlap`, `faults` | history: completed handler runs, lost completions, interleaved handlers, faults |

| Action | Code |
|---|---|
| `Deliver` | `handleStripeWebhook` up to the claim; also a repetition or a duplicate |
| `Claim`, `Answer` | the INSERT, the UPDATE of a failed row, the SELECT of `claimStripeWebhookEvent`, and the answer to a duplicate, an event in progress, or an error |
| `Work` | the statements of `handleSubscriptionChange` and `handleInvoicePaymentFailed` |
| `Complete`, `Release` | `completeStripeWebhookEvent`, `failStripeWebhookEvent` |
| `StatementFails`, `Crash` | an error of any of these statements, with its `catch`; the end of the process |

Left out: signature checks, events without an id, the search for the
organization (it exists and is linked), prices and quantities but for the
difference the clamp makes, and events of other types, which have no statement
between claim and completion.

## 6. Checkout: `Checkout.tla`

One paid session. The webhook request that holds the claim on its event and the
requests of the success page run the same code,
`fulfillPaidCheckoutSession`; the page asks first whether an organization is
ready. `orgs` holds the two organizations the session can concern: `home`, the
one the payer has (unless a newcomer), and `made`, the one the code creates, each
with its plan, its link to the Stripe customer, the payer's user row and
membership. `pc` and `org` are each request's next statement and the organization
it provisions. `situation` is who pays: a newcomer, a user of a free organization,
one who upgrades that organization by name, one whose organization pays already.

| Action | Code |
|---|---|
| `Deliver`, `Ask` | `handleCheckoutCompleted`; `handleCheckoutStatus` |
| `Lookup` | the queries `findReadyCheckoutOrg`, `findOrganizationByStripeCustomerId`, `findFreeOrgForCheckoutAdmin`, `findOrgUserByEmail`, `findActiveUserByEmail`, and the branch each decides |
| `Write`, `Reject` | the statements of `linkPaidCheckoutToExistingOrg`, `materializeCheckoutOrg` (with its fallback to the winner), `ensureCheckoutAdmin`; what the unique indexes on `stripe_customer_id` and on (organization, address) refuse |
| `Email`, `Finish` | `sendCheckoutEmail`, whose errors are logged only; the answer |
| `StatementFails`, `Crash` | an error, which releases the event or answers 502; the end of the process, which leaves the event in progress |

Queries of one `Lookup` that read a single organization by its id are one step
with the query that found it.

Left out: a session without a customer or an address
(`CheckoutFulfillmentIncompleteError`, `fulfillCheckout.ts:61-70`) and an upgrade
whose organization is gone (`provisionOrg.ts:46-48`), for which every delivery
fails before it writes anything and Stripe is never told otherwise; and two
payers: one whose user is deactivated, and one whose free organization is linked to
another customer (`provisionOrg.ts:139-145`), who is provisioned as a newcomer is.

## 7. Chat turns: `ChatTurns.tla`

JavaScript runs one callback at a time, so a step is what happens between two
awaits. A submission goes through `phase`: planning (the awaits of
`handleChatSend` before the turn), gathering context, writing (the model
answers), grounding (the await of `finishTurnAssistantMessage`), and an end.

| Variable | Code |
|---|---|
| `active`, `chat` | the thread in view and `chatHistory` |
| `store` | the messages of each thread in `ChatThreadStore` |
| `run`, `hist` | `ThreadRunManager.runs` and `ChatTurn.history` |
| `home`, `stale` | `submissionThreadId`; submissions whose cancellation generation has passed |
| `direct`, `cut`, `spoiled` | history: submissions answered without a turn, turns the user ended, threads in whose store a turn that does not run has put its own history, until it is overwritten again |

| Action | Code |
|---|---|
| `Send`, `Drop`, `Begin` | `handleChatSend` up to its first await; a submission overtaken, blocked or failed; the question shown and stored and `ThreadRunManager.begin` |
| `AskDirectly`, `Reply` | the pull-request and clarification replies, which begin no turn |
| `Gathered`, `Written`, `GiveUp`, `Fail` | the checks after the awaits; the returns and errors that leave the turn registered; `markError` |
| `Finish`, `StaleFinish` | `finishTurnAssistantMessage`, and what `continueChatAfterContext` stores after it |
| `StoreUsage` | `persistTurnThread` for the cost of a model call (`recordOwnedInference`, `onFailureUsage`, `onPartialUsage`), at any time after the turn began, also when it has been cut or is over |
| `Stop`, `Switch`, `Clear` | `handleStreamCancel`; `switchThread` and `newChat`; `clearChat` |

A thread without messages stands for a new chat. Submissions are numbered in
the order they are sent, and a message is its submission, its role and whether
it was cancelled.

## 8. Graph snapshots: `GraphSnapshots.tla`

The graphs of one organization in the processes that cache them and in the
table. A graph is the number of the change that made it.

| Variable | Code |
|---|---|
| `stored` | `graph_snapshots.payload` |
| `cached`, `pending` | `GraphCache.entries`, `PersistingGraphCache.pendingPersist` |
| `flushes` | calls of `flush()` that await a write: the write, and the rest of the batch |
| `loads`, `purges` | calls of `ensureLoaded` and of `purgeOrgRepoIndex` between two awaits |
| `saved`, `lost`, `purgedAt`, `raced` | history, see the module |

| Action | Code |
|---|---|
| `Change` | `setGraph`, `upsertRepository` by an index job, and `schedulePersist` |
| `Evict` | `getEntry` and `evictExpired` past the TTL, `evictLru` |
| `Flush`, `Write`, `WriteFails` | the timer; `persistRepo`'s INSERT in the database and the loop of `flush` after it; its error |
| `AskRow`, `ReadRow`, `Load` | `ensureLoaded` before, in and after its query |
| `PurgeRow`, `DeleteGraph`, `DeleteRow`, `DeleteRowFails` | the DELETE of `purgeOrgRepoIndex`; `deleteGraph`; the second DELETE, which nobody awaits, and its error, which a process that reports unhandled rejections to Sentry survives |
| `Restart` | SIGTERM or a crash; neither flushes |

Queries go through a connection pool, so a query sent later may be run first.

## 9. Runs

| Run | Question | Bounds |
|---|---|---|
| `queue_faults` | is any slot or controller lost, doubled or over-committed? | 2 jobs, 1 worker, 2 slots, 2 loops, 2 claims per job, either backend, one fault or user event |
| `queue_overlap` | can interleaved full-row writes make a row unusable? | 1 job, API and worker, 2 claims, two different faults |
| `queue_quiet` | mutual exclusion, recovery, retries, life cycle, termination | 2 jobs of different priority, 1 worker, 2 slots, 2 loops, 1 retry, one crash and one shutdown |
| `rate_limit` | limits under overlap and over time | 2 requests, 1 per hour, 2 per day, a day of 2 hours of 2 ticks, 6 ticks, 4 jobs, either backend, one failed statement or restart |
| `stripe_webhook` | is each event handled by one request, once, and in the end? | a renewal, a failed payment, a cancellation; 2 requests; 2 faults |
| `checkout` | who is served, when the webhook and the page work on one session? | the webhook and 2 page requests, 4 situations, 2 faults |
| `chat_turns` | where do answers land, what is lost, and is a turn that is left alone answered? | 3 threads, 2 messages |
| `graph_snapshots` | do changes reach the table, and purged graphs stay away? | API and worker, both indexing, 2 repositories, 2 changes, 1 fault |
| `queue_cancel`, `queue_startup`, `rate_limit_retry`, `checkout_replay` | disagreements between code and text, below | small |

*Why the bounds are enough.* Two jobs are what priority and overshoot need;
one job run by two processes is what overlapping writes need, since jobs share
nothing but slots. One retry reaches both branches of `shouldRetry`. `MaxClaims`
is needed because under faults a late write can reset the retry count, and a
job can be claimed without end; in `queue_quiet` it is 4 and never in the way,
since `ClaimsAccounted` bounds the claims by one, the retry, the crash and the
shutdown. `Budget` bounds faults; its entry `any` bounds their sum. In
`rate_limit` six ticks hold a change of hour within a day and a change of day, and
the four jobs are the two of a day, the one that overlap adds and the one that
a fault leaves uncounted, so that either limit is reached and passed.
Two webhook requests are what overlap needs, since a third of the same event
only meets the row; three events hold one of each handler, and two faults a lost
completion followed by a lost release. In `checkout` two faults break the first
attempt and its retry. In `chat_turns` two messages are one
of a turn and one asked meanwhile, in its thread or another, and a third thread
is there to move to; the safety properties are proved for any number of both
(section 10). In `graph_snapshots` two
changes let one arrive while the other is being written, in the same or another
process, and two repositories are what a batch needs. One load per process, and
one purge at a time, is in flight, where the code allows several; this bound is
in the guards of `AskRow` and `PurgeRow`, since purges and loads of the same
repository are elements of a set. A second load or purge has the same reads and
writes as the first, and each property speaks of one repository.

*Deadlock* is checked in `queue_quiet` and in every run of sections 5 to 8. The
other runs stop at their bounds (`MaxClaims`, `LastTick`, `MaxJobs`), and only
there is it off.

*Fairness* (`FairSpec`). Weakly fair: the pool of each process (its poll timer
and its loops), the restart of a process that is down (the platform restarts
workers after a crash, `restart: unless-stopped` in docker-compose and
`restartPolicyType` in `railway.worker.toml`; a shutdown is the replacement of a
deployment by the next) and the exit after a shutdown, and, per job, each read, write or timer that is pending. Strongly
fair: an executor's way to its last report, because it may report progress any
number of times on the way; this says that executors return. Faults, users,
failures of jobs and the passing of time are not fair. `JobsEnd` also needs a
bounded number of crashes, which `Budget` gives.

In `StripeWebhook` a request goes on (weak) unless its process dies, and Stripe
redelivers an event without a 2xx (strong, because a delivery needs a free
request and others come and go). In `Checkout` the webhook is delivered and requests
go on; the page need not be opened. In `ChatTurns` every await of a
submission ends (weak). That is an assumption on the language model, the code
hosts and the network, which must answer or fail every request in the end; the code
does not see to it. `scheduleResponseDeadline` does nothing, by intent
(`config/responseDeadline.ts`), `streamChat` sets no timeout, and an await that
hangs ends when the user presses Stop. Nothing is assumed of the user, nor of
`StoreUsage`. In `GraphSnapshots` the debounce timer fires and the
database runs some write of each process; changes, loads, purges and evictions
are not fair.

### What the runs show

In every deployment, whatever fails: slots are counted right on every path
(`SlotsCounted`); the pool can exceed `concurrency`, because `drain()` tests
before an await and counts after it, but by at most the loops in flight less
one (`OvershootBounded`); no controller outlives its run
(`NoLeakedController`); every row is one the queue can work with (`RowsGood`),
because every snapshot that will be written is (`SnapshotsGood`).

In a quiet deployment (Postgres, one worker, no database error, no timeout, no
cancellation; crashes, shutdowns and failures of jobs allowed) the queue does
what one expects of it: `MutualExclusion`, `RunsOwnTheirRow`, `NoStrandedJob`,
`ClaimsAccounted`, `EndedStaysEnded`, `JobsEnd`, `ImplementsLifecycle`. Each
condition of `Quiet` is needed; TLC finds `RunsOwnTheirRow` violated, and most
of the others, when any one of them is dropped. A cancellation or superseding, a
timeout and a database error meet the full-row writes of a run that goes on; a
starting worker takes the jobs of a second process for orphans; and in memory
the select and the update of `claimNextInMemory` are two microtasks, so that two
claim loops in flight may take the same job (the model lets pending microtasks,
and bodies that end without I/O, go in any order and does not count them).

Rate limits hold up to overlap and lost counts (`DailyLimit`, `HourlyLimit`): with
Postgres, n requests in flight may exceed a limit by n - 1; in memory by none. Beyond
that they are exceeded by the jobs that are not counted: each request that failed
between the insert of its job and that of its count leaves one, and a restart of
the memory backend forgets all. Nothing repairs such a count, and without the exception
TLC finds both limits violated in both backends.

Stripe events: one request at a time handles an event (`OneHandler`), what is
acknowledged was done (`AckMeansApplied`), and a handler runs again only if its
completion was lost (`AppliedOnce`), which is harmless to the organization, since
the handlers assign. Only a fault strands an event in progress
(`OrphansAreFaults`), and every other one is acknowledged in the end
(`EventsEnd`); a stranded one stays so, as nothing reclaims it. When the events of an
organization are handled one after the other, its columns agree whatever fails
and is retried (`SettledOrgIsWhole`); when two handlers interleave they need not,
since the claim is per event and not per organization.

Checkout: what Stripe is told is served, is (`AckedIsServed`); one invitation is
sent (`OneInvite`) and mails concern the linked organization (`MailedIsLinked`);
the customer is linked only to a pro organization (`LinkedIsPro`), which the
retry relies on; the payer is served in the end, unless a crash strands the event
or an error falls between the two inserts of `createUser` (`PayersAreServed`). The
success page answers "ready" as soon as the organization is pro and linked, which
may be before its administrator exists.

Chat: answers of turns come to their thread and their question (`AnswersAtHome`),
turns that were cut are silent (`CutIsSilent`), a turn left alone is answered
though the user went elsewhere (`TurnsAreAnswered`), unless an error or an
exhausted quota ends it. No message is lost (`NothingIsLost`) but by clearing, and
but where a turn that was cut or is over stores its own history for its cost
(`spoiled`): the user stops a turn, moves to another thread, and the model call
that was aborted reports what it had used; the thread then lacks what came since,
the stopped message first of all. Without the exception TLC finds this in six
states. The direct
replies follow the view and are not covered by these properties.

Graphs: a changed graph is pending or being written until it is stored or given
up (`ChangesAreKept`), and it gets there (`ChangesAreStored`). Given up means, in
this code: a failed write and the batch behind it, a process that ends, an entry
evicted or purged, a graph that a late load overwrites. A purged graph stays
away from the table and from the purging process (`PurgedStaysGone`), unless an older one was on its way at that
moment, in any process, or was loaded again before the second DELETE, or that DELETE
failed: without the exception TLC finds it violated.

### Where code and text disagree

- `queue_cancel`: a user's cancellation that reads a queued job and writes it
  after a worker claimed it cancels a running job, whose body runs on;
  `jobsApi.ts:241` says that a running job cannot be cancelled.
- `queue_startup`: "any `running` row is orphaned" (`postgresBackend.ts:385`)
  is wrong while the API process runs a pool (`JOBS_WORKERS`, on by default).
- `rate_limit_retry`: with Postgres the latest counter row is compared with
  the limit whatever hour or day it is of; a user who reached the limit stays
  denied, also after `retryAfterMs` (`docs/job-queue.md:101`).
- `checkout_replay`: the plan of a free organization is set before the customer is
  linked to it; the other request of the session finds neither a linked nor a
  free organization and makes a second one, which is linked. The payer's own stays
  pro without a subscription. `provisionOrg.test.ts:211` says that a replay "keeps
  one org and one admin".

## 10. Proofs

Each holds for all values of the constants that satisfy the assumptions of the
module: any number of jobs, processes, requests, events, threads and repositories,
any limits and any bounds on faults. With them, every invariant and every action
property of a passing run, and the refinement, is a theorem. The strengthenings
named below were checked with TLC on the configuration of the run first.

`JobQueueProofs.tla` (finitely many jobs, natural bounds, at least one slot and
one loop):

- `TypeCorrect`: `Spec => []TypeOK`. One lemma per action; `TypeOK` is
  inductive as it stands, and is used by the others.
- `OvershootIsBounded`: `Spec => []OvershootBounded`. Inductive together with
  the types: a claim turns a loop into a run, which leaves their sum, and a loop
  starts or goes on only when a slot is free at that moment and fewer than
  `MaxDrains` loops are in flight.
- `RowsAreGood`, `SnapshotsAreGood`: `Spec => []RowsGood` and
  `Spec => []SnapshotsGood`. Neither is inductive alone: a write puts a snapshot
  of an earlier row in the table. Together they are, because a snapshot
  is taken of a good row and every change the code makes to it in between keeps
  it good; the retry bound needs that the backoff timer holds a row that may
  still be retried, which `HandleFailure` tested.

`JobQueuePoolProofs.tla` (as above):

- `SlotsAreCounted`: `Spec => []SlotsCounted`. The code counts, the property
  takes the cardinality of a set of runs; what a step adds to one it must add to
  the other. That needs `OneRunPerClaim` (a run is told from every other by its
  job and claim, and `stamp` has not reached a later claim's number), for
  otherwise two runs could become the same element of the set, and `DownIsIdle`
  (a process that is down has neither runs nor loops), for the counter starts
  from 0 at a start.
- `ControllersHaveRuns`: `Spec => []NoLeakedController`.
- `RunsAreBounded`: what `OvershootBounded` says of the counter holds of the runs
  themselves, by `SlotsAreCounted`.

`JobQueueQuietProofs.tla`, under the hypothesis `Quiet` (section 9):

- `JobsRunAlone`, `RunsOwnRows`: `[]MutualExclusion` and `[]RunsOwnTheirRow`. The
  invariant `QuietInv` says that a job has one run, and that the run is *in
  step*: the row is "running" under its claim, and what it has read or is about
  to write was computed from what the row holds now. Nothing else writes the row
  in a quiet deployment, and the requeue of a start finds no run of the process,
  since a process that was down has none.
- `EndedJobsStay`: `EndedStaysEnded`, an action property. A write of a run in
  step hits a row that is "running".
- `NoJobIsStranded`: `[]NoStrandedJob`, if there is a worker (without one no
  start reclaims anything, and the theorem would be false).
- `ClaimsAreAccounted`: `[]ClaimsAccounted`. Not inductive: what a waiting job has
  used, and what a start is going to add by requeueing, must be told apart.
  `Accounted` does it with `Owed`, which is 1 from the crash or shutdown of
  the worker to its next start.
- `LifecycleIsImplemented`: `Spec => ImplementsLifecycle`, the refinement of
  `JobLifecycle`. Initial states map to initial states; each action of the queue
  is one of the life cycle or leaves `status` and `busy` as they are.

`JobRateLimitProofs.tla` (finitely many requests, a day of whole hours, positive
limits: `RATE_LIMITS` of `rateLimit.ts` has no other):

- `RateLimitTypes`: `Spec => []TypeOK`.
- `DaysAreLimited`, `HoursAreLimited`: `[]DailyLimit` and `[]HourlyLimit`. For
  each window `WindowSound` says two things: the jobs accepted in it, but those in
  `uncounted`, are at most
  those counted and those whose submission is still to be counted; and together
  with the requests that have passed the check they stay within the limit and
  the overlap. A request that passes saw a count below the limit, and those that
  are to be counted or have passed are among the requests in flight, of which
  memory has one (`OneAtATime`). The count that is read is never below what has
  been counted in the present window: Postgres may read the row of an earlier one,
  but only while the present one has no row, and no row is of a later one
  (`ClocksSound`). When a window begins, nothing is accepted in it yet. A request that
  fails takes the job it owes a count for out of both sides, which needs that no
  two requests owe it for the same job (`JobsSound`). Windows are remainders of a division; the lemmas
  `WindowFacts` and `NextWindow` say that they follow each other without gap.
- `RetriesSucceedInMemory`: `[]MemoryRetryAfterHonoured`. A denial outlasts the
  window it was given in, or the count of that window is back at 0
  (`DenialSound`).

`StripeWebhookProofs.tla` (any events, requests and kinds):

- `WebhookTypes`: `Spec => []TypeOK`.
- `EventHasOneHandler`, `AcknowledgedWasApplied`, `HandlersRunOnce`:
  `Spec => []OneHandler`, `[]AckMeansApplied`, `[]AppliedOnce`. One invariant,
  `IInv`, carries all three. That one request handles an event rests on
  `ClaimHeld`: while a request handles an event its row is "processing" (or
  "completed", when only the answer of its completion was lost), because the only
  statements that leave that status are the completion and the release of the
  handler itself. So a claim, which needs a row that is absent or failed,
  meets no handler. `RunsCounted` ties the completed runs of a handler to the
  completion that is still to come, to the row, and to those that were lost.
- `OrphansComeFromFaults`: `OrphansAreFaults`, an action property: every step
  that gives up a claim without a fault has written the row first.
- `SettledMeansWhole`: `[]SettledOrgIsWhole`. Between the statements of a handler
  the organization is not whole. `WholeInv` follows the one handler there is
  through them (`PartWay`), and says of an organization that is not whole that
  some event is unfinished, which a settled one has not.

`CheckoutProofs.tla` (any number of success-page requests and faults):

- `CheckoutTypes`, `LinkedOrgIsPro`, `AckedPayerIsServed`, `PayerIsInvitedOnce`,
  `MailsAreLinked`: the type invariant and the four invariants of the run, from
  one inductive invariant. `RequestSound` says, for each statement a request may
  be about to issue, what it has established so far. It survives the
  other requests because the columns only grow (`OrgsGrow`: no statement unlinks
  an organization, takes its plan or removes a user), and `OrgsSound` says what
  the unique indexes guarantee.

`ChatTurnsProofs.tla` (any threads, any number of messages):

- `ChatTypes`: `Spec => []TypeOK`.
- `CutTurnsAreSilent`: `[]CutIsSilent`. Not inductive: the answer might be in a
  history that is stored later. `SaidInTurn` looks in every place a message can
  come from (the view, the store, the history of every turn) and says that none
  holds the answer of a submission that has not ended or was cut.
- `TurnsStayAtHome`: `[]AnswersAtHome`. `Placed` says the same of the view, the
  store and the histories: their messages are of that thread and follow their
  questions.
- `TurnsAreKept`: `NothingIsLost`, an action property. The history of a thread's
  turn overwrites what the thread has, so it must have all of it (`Mirrored`);
  where a turn that does not run has stored its own, the store need not, and the
  property excepts the thread until it is stored again from the view or by a turn
  that runs, which `Mirrored` shows to repair it.

`GraphSnapshotsProofs.tla` (any processes, repositories and bounds):

- `GraphTypes`: `Spec => []TypeOK`.
- `ChangesStayKept`: `Spec => []ChangesAreKept`. A load puts a graph in memory
  that is not pending; the strengthening `Stored` says that whatever the table
  and the loads hold some write has stored, so nothing is owed for it.
- `PurgedRepositoriesStayGone`: `Spec => []PurgedStaysGone`. `Gone` lists the
  places an older graph could come back from: the memory of the process, that of
  another which has the repository to write, a write, a load, and, until the
  second DELETE, the table. The proof showed that the exception had been stated too
  narrowly: with a second process that answers the APIs and indexes as well, that
  one may have asked for the row when it changes its graph itself; the row then
  takes the place of the change and is written back to the table. A load by any
  process counts as on the way, therefore.

*Only model-checked*, being out of the prover's reach (temporal reasoning under
fairness, ENABLED): the liveness properties `JobsEnd`, `EventsEnd`,
`PayersAreServed`, `TurnsAreAnswered` and `ChangesAreStored`. The runs that
expect a violation show by a counterexample that something does not hold.

## 11. Not modelled

See the components of `PROJECT.json`. Executors, engines, prompts, the agent's
tools and the user interface, which are most of the repository's lines, are
transformation, I/O or presentation: their behaviour is text and remote data,
with no state whose order a model could check. Monitoring decides nothing. The
embedding limiter takes and releases session locks through a pool, so nothing it
promises holds of the code as it is; it is listed as a hazard. Indexing
requests, refresh tokens, inline completion and pending patches are in the plan.

## 12. Checking

In this directory: `tlc -workers 2 -config JobQueueQuiet.cfg JobQueueMC` (any
`.cfg`, with the `MC` module of its prefix, or the module itself when it has none)
and `tlapm JobQueueProofs.tla` (likewise the other `Proofs` modules). The
operators that a comment calls a mutant are alternatives to the definition that follows
them; put in its place, each violates a property of a run, which shows that the
property depends on the code.
