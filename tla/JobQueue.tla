------------------------------ MODULE JobQueue ------------------------------
(***************************************************************************)
(* The job queue of the backend: the jobs table, the processes that run a  *)
(* WorkerPool over it, the runs of the jobs they claim, cancellations, and *)
(* the recovery of jobs whose process died.                                *)
(*                                                                         *)
(* Code: src/src/jobs/jobQueue.ts, workerPool.ts, jobRuntime.ts and        *)
(* backends/{postgresBackend,memoryBackend}.ts.  One step of the model is  *)
(* what happens between two awaits: a read of a row and the write of the   *)
(* row computed from it are two steps, because every write of JobQueue is  *)
(* a full-row write of an earlier read (backend.update).                   *)
(*                                                                         *)
(* Abstractions.  A row keeps the columns that decide what happens to a    *)
(* job: status, retry_count and started_at; started_at is the number of    *)
(* the claim that set it (0 is NULL).  "completed" stands for completed    *)
(* and partial, which are written by the same call.  Progress, results,    *)
(* error texts, parameters and monitoring are left out.                    *)
(***************************************************************************)
EXTENDS Integers, FiniteSets

CONSTANTS
  Jobs,         \* the job ids that createJob may use
  Procs,        \* processes that run a WorkerPool
  Workers,      \* those started by workerEntry.ts: they also reclaim jobs
  Priority,     \* Jobs -> weight; the smallest is claimed first
  Concurrency,  \* WorkerPoolConfig.concurrency
  MaxRetries,   \* RetryPolicy.maxRetries
  MaxDrains,    \* bound: drain() loops in flight at once in one process
  MaxClaims,    \* bound: how often a job is claimed
  Backends,     \* the values of JOBS_BACKEND considered
  Budget        \* bound: how often each event of Events may happen

\* "any" bounds their total.
Events == {"crash", "stop", "dbError", "age", "cancel", "supersede", "any"}

ASSUME JobsAssumption == IsFiniteSet(Jobs)
ASSUME ProcsAssumption == Workers \subseteq Procs
ASSUME PriorityAssumption == Priority \in [Jobs -> Nat]
ASSUME PoolAssumption ==
  /\ Concurrency \in Nat \ {0}
  /\ MaxDrains \in Nat \ {0}
  /\ MaxRetries \in Nat
  /\ MaxClaims \in Nat
ASSUME BackendsAssumption == Backends \subseteq {"postgres", "memory"}
ASSUME BudgetAssumption == Budget \in [Events -> Nat]

VARIABLES
  backend,    \* "postgres" or "memory"
  rows,       \* the jobs table
  createdAt,  \* created_at of each job: its place in the order of creation
  stamp,      \* per job, the number of claims so far; names started_at values
  aged,       \* per job, the last claim older than maxJobDurationMs
  proc,       \* per process: "up", "stopped" (pool.stop() was called), "down"
  running,    \* per process, WorkerPool.running
  active,     \* per process, WorkerPool.activeJobs: the run registered per job
  selecting,  \* per process, drain() loops awaiting the select of claimNext
  picking,    \* per process, drain() loops awaiting the update of claimNext
  tasks,      \* the runs of jobs that have not ended (and claims being written)
  cancels,    \* cancelJob calls that have read the row and not yet written it
  budget      \* what is left of Budget

queueVars == <<rows, createdAt, stamp, aged>>
poolVars == <<running, active, selecting, picking>>
vars == <<backend, rows, createdAt, stamp, aged, proc, running, active,
          selecting, picking, tasks, cancels, budget>>

Statuses == {"absent", "queued", "running", "completed", "failed", "cancelled"}
Terminal == {"completed", "failed", "cancelled"}

Row == [status : Statuses, retry : Nat, claim : Nat]

\* No row, and no snapshot of one.
NoRow == [status |-> "absent", retry |-> 0, claim |-> 0]

\* Where runJob and what it calls is waiting.
\*   claim          the update of a claim that was selected without a lock
\*   run            the Promise.race of the body and the timeout
\*   cget cput      completeJob: the read, the write
\*   store          completeJob: results.store
\*   hget           handleFailure: getJob
\*   fget fput      failJob: the read, the write
\*   backoff        runJob has ended, the timer that will requeue is pending
\*   end            nothing left
Pcs == {"claim", "run", "cget", "cput", "store", "hget", "fget", "fput",
        "backoff", "end"}

\* Where the body (executeWithProgress) is: computing, in the read or in the
\* write of updateProgress, over.
BodyPcs == {"exec", "get", "put", "end"}

Errors == {"none", "transient", "permanent"}

Task == [job : Jobs, n : Nat, proc : Procs, pc : Pcs, row : Row,
         body : BodyPcs, seen : Row, final : BOOLEAN, err : Errors,
         aborted : BOOLEAN]

Cancel == [job : Jobs, row : Row, force : BOOLEAN]

----------------------------------------------------------------------------
(* Helpers *)

Spend(e) ==
  /\ budget[e] > 0
  /\ budget["any"] > 0
  /\ budget' = [budget EXCEPT ![e] = @ - 1, !["any"] = @ - 1]

\* A microtask is pending: some await of a promise that needs no I/O once the
\* backend is in memory.
Pending ==
  \/ \E p \in Procs : selecting[p] > 0
  \/ \E t \in tasks : t.pc \notin {"run", "backoff", "end"}
                    \/ t.body \in {"get", "put"}
  \/ cancels # {}

\* Node starts a timer callback, a request or a signal handler only when no
\* microtask is pending; queries to postgres leave room for them.
Macrotask == backend = "memory" => ~Pending

\* claimNext's ORDER BY: priority weight, then created_at.
Before(i, j) ==
  \/ Priority[i] < Priority[j]
  \/ Priority[i] = Priority[j] /\ createdAt[i] < createdAt[j]

\* The row that SELECT ... LIMIT 1 returns.
NextQueued(j) ==
  /\ rows[j].status = "queued"
  /\ \A i \in Jobs \ {j} : rows[i].status = "queued" => Before(j, i)

NoneQueued == \A j \in Jobs : rows[j].status # "queued"

\* UPDATE jobs SET status = 'running', started_at = now.
Claimed(row, n) == [row EXCEPT !.status = "running", !.claim = n]

\* Mutant of Reclaimed: started_at is not cleared.
ReclaimedKeepsStart(row) == [row EXCEPT !.status = "queued"]

\* The UPDATE of both reclaim functions.
Reclaimed(row) == [row EXCEPT !.status = "queued", !.claim = 0]

\* Mutant of Requeued: the retry is not counted.
RequeuedUncounted(row) == [row EXCEPT !.status = "queued", !.claim = 0]

\* The row that requeue writes.
Requeued(row) ==
  [row EXCEPT !.status = "queued", !.claim = 0, !.retry = @ + 1]

\* runJob has just been called: its body runs up to the read of the first
\* report, "Initializing".
NewRun(j, n, p) ==
  [job |-> j, n |-> n, proc |-> p, pc |-> "run", row |-> NoRow,
   body |-> "get", seen |-> NoRow, final |-> FALSE, err |-> "none",
   aborted |-> FALSE]

\* Task t becomes u; a task with nothing left is gone.
Becomes(t, u) ==
  tasks' = (tasks \ {t}) \cup
           (IF u.pc = "end" /\ u.body = "end" THEN {} ELSE {u})

\* The test of drain()'s loop, with r jobs counted as running.
HasSlot(r) == r < Concurrency

\* Whether a new drain() passes its first tests (and the bound on loops).
MayDrain(p, r) ==
  /\ proc[p] = "up"
  /\ HasSlot(r)
  /\ selecting[p] + picking[p] < MaxDrains

\* Mutant of FreeSlot: the slot is not given back.
FreeSlotKeepsCount(p, j) ==
  /\ active' = [active EXCEPT ![p][j] = 0]
  /\ UNCHANGED <<running, selecting, picking>>

\* Mutant of FreeSlot: the controller stays in activeJobs.
FreeSlotKeepsController(p, j) ==
  /\ running' = [running EXCEPT ![p] = @ - 1]
  /\ selecting' = [selecting EXCEPT
                     ![p] = IF MayDrain(p, running[p] - 1) THEN @ + 1 ELSE @]
  /\ UNCHANGED <<active, picking>>

\* runJob settles: it leaves activeJobs, and its finally callback gives the
\* slot back and starts a drain().
FreeSlot(p, j) ==
  /\ active' = [active EXCEPT ![p][j] = 0]
  /\ running' = [running EXCEPT ![p] = @ - 1]
  /\ selecting' = [selecting EXCEPT
                     ![p] = IF MayDrain(p, running[p] - 1) THEN @ + 1 ELSE @]
  /\ UNCHANGED picking

----------------------------------------------------------------------------
(* Submission and cancellation *)

\* createJob, past its rate limit and reuse checks: the INSERT.  A memory
\* queue exists only while its process does.
Create(j) ==
  /\ Macrotask
  /\ rows[j].status = "absent"
  /\ backend = "memory" => \E p \in Procs : proc[p] # "down"
  /\ rows' = [rows EXCEPT ![j].status = "queued"]
  /\ createdAt' = [createdAt EXCEPT
                     ![j] = 1 + Cardinality({i \in Jobs : createdAt[i] > 0})]
  /\ UNCHANGED <<backend, stamp, aged, proc, running, active, selecting,
                 picking, tasks, cancels, budget>>

\* cancelJob up to its write: DELETE /api/jobs/:id without force, the
\* superseding of an index job with it.
CancelRead(j, force) ==
  /\ Macrotask
  /\ Spend(IF force THEN "supersede" ELSE "cancel")
  /\ \/ rows[j].status = "queued"
     \/ force /\ rows[j].status = "running"
  /\ cancels' = cancels \cup {[job |-> j, force |-> force,
                               row |-> [rows[j] EXCEPT !.status = "cancelled"]]}
  /\ UNCHANGED <<backend, rows, createdAt, stamp, aged, proc, running, active,
                 selecting, picking, tasks>>

\* The full-row write of cancelJob, whatever the row has become.
CancelWrite(c) ==
  /\ cancels' = cancels \ {c}
  /\ rows' = [rows EXCEPT ![c.job] = c.row]
  /\ UNCHANGED <<backend, createdAt, stamp, aged, proc, running, active,
                 selecting, picking, tasks, budget>>

----------------------------------------------------------------------------
(* WorkerPool.drain and claimNext *)

\* The poll timer, or start(), calls drain().
Poll(p) ==
  /\ Macrotask
  /\ MayDrain(p, running[p])
  /\ selecting' = [selecting EXCEPT ![p] = @ + 1]
  /\ UNCHANGED <<backend, queueVars, proc, running, active, picking, tasks,
                 cancels, budget>>

\* Mutant of ClaimNone: a loop can end that is not in flight.
ClaimNoneUnasked(p) ==
  /\ NoneQueued
  /\ selecting' = [selecting EXCEPT ![p] = @ - 1]
  /\ UNCHANGED <<backend, queueVars, proc, running, active, picking, tasks,
                 cancels, budget>>

\* claimNext returns undefined: the loop ends.
ClaimNone(p) ==
  /\ selecting[p] > 0
  /\ NoneQueued
  /\ selecting' = [selecting EXCEPT ![p] = @ - 1]
  /\ UNCHANGED <<backend, queueVars, proc, running, active, picking, tasks,
                 cancels, budget>>

\* Mutant of RunClaim: the loop goes on although the slots are used up.
RunClaimGreedy(p, j, n, s) ==
  /\ running' = [running EXCEPT ![p] = @ + 1]
  /\ active' = [active EXCEPT ![p][j] = n]
  /\ selecting' = [selecting EXCEPT
                     ![p] = IF HasSlot(running[p]) THEN s + 1 ELSE s]

\* drain() has the claim n of job j: it counts it, calls runJob and tests its
\* loop condition again; s is selecting[p] without this loop.
RunClaim(p, j, n, s) ==
  /\ running' = [running EXCEPT ![p] = @ + 1]
  /\ active' = [active EXCEPT ![p][j] = n]
  /\ selecting' = [selecting EXCEPT
                     ![p] = IF HasSlot(running[p] + 1) THEN s + 1 ELSE s]

\* Mutant of ClaimLocked: the transaction does not mark the row.
ClaimLockedUnmarked(p) ==
  /\ backend = "postgres"
  /\ selecting[p] > 0
  /\ \E j \in Jobs :
       LET n == stamp[j] + 1 IN
       /\ NextQueued(j)
       /\ n <= MaxClaims
       /\ stamp' = [stamp EXCEPT ![j] = n]
       /\ tasks' = tasks \cup {NewRun(j, n, p)}
       /\ RunClaim(p, j, n, selecting[p] - 1)
  /\ UNCHANGED <<backend, rows, createdAt, aged, proc, picking, cancels,
                 budget>>

\* The claim transaction of the postgres backend (FOR UPDATE SKIP LOCKED).
ClaimLocked(p) ==
  /\ backend = "postgres"
  /\ selecting[p] > 0
  /\ \E j \in Jobs :
       LET n == stamp[j] + 1 IN
       /\ NextQueued(j)
       /\ n <= MaxClaims
       /\ rows' = [rows EXCEPT ![j] = Claimed(@, n)]
       /\ stamp' = [stamp EXCEPT ![j] = n]
       /\ tasks' = tasks \cup {NewRun(j, n, p)}
       /\ RunClaim(p, j, n, selecting[p] - 1)
  /\ UNCHANGED <<backend, createdAt, aged, proc, picking, cancels, budget>>

\* A select without a lock: claimNextInMemory, or claimNextWithoutLock after
\* an error of the claim transaction.
SelectUnlocked(p) ==
  /\ selecting[p] > 0
  /\ \/ backend = "memory" /\ UNCHANGED budget
     \/ backend = "postgres" /\ Spend("dbError")
  /\ \E j \in Jobs :
       LET n == stamp[j] + 1 IN
       /\ NextQueued(j)
       /\ n <= MaxClaims
       /\ stamp' = [stamp EXCEPT ![j] = n]
       /\ tasks' = tasks \cup {[NewRun(j, n, p) EXCEPT
                                  !.pc = "claim", !.body = "end",
                                  !.row = Claimed(rows[j], n)]}
  /\ selecting' = [selecting EXCEPT ![p] = @ - 1]
  /\ picking' = [picking EXCEPT ![p] = @ + 1]
  /\ UNCHANGED <<backend, rows, createdAt, aged, proc, running, active,
                 cancels>>

\* The update of a claim selected without a lock: the memory backend writes
\* the whole row, the postgres fallback only a row still queued; both return
\* the job whether or not the row was theirs to claim.
ClaimUnlocked(t) ==
  /\ t.pc = "claim"
  /\ rows' = IF backend = "memory"
               THEN [rows EXCEPT ![t.job] = t.row]
             ELSE IF rows[t.job].status = "queued"
               THEN [rows EXCEPT ![t.job] = Claimed(@, t.n)]
             ELSE rows
  /\ tasks' = (tasks \ {t}) \cup {NewRun(t.job, t.n, t.proc)}
  /\ picking' = [picking EXCEPT ![t.proc] = @ - 1]
  /\ RunClaim(t.proc, t.job, t.n, selecting[t.proc])
  /\ UNCHANGED <<backend, createdAt, stamp, aged, proc, cancels, budget>>

----------------------------------------------------------------------------
(* The body of a run: executeWithProgress and updateProgress *)

\* The body returns: the race is won unless the timeout has already won it.
Returned(t) ==
  [t EXCEPT !.body = "end", !.seen = NoRow, !.final = FALSE,
            !.pc = IF t.pc = "run" THEN "cget" ELSE t.pc]

\* The body throws an error of class e.
Thrown(t, e) ==
  [t EXCEPT !.body = "end", !.seen = NoRow, !.final = FALSE,
            !.pc = IF t.pc # "run" THEN t.pc
                   ELSE IF e = "cancelled" THEN "fget" ELSE "hget",
            !.err = IF t.pc = "run" /\ e # "cancelled" THEN e ELSE t.err]

\* updateProgress has returned; after the last report so does the body.
Reported(t) ==
  IF t.final THEN Returned(t) ELSE [t EXCEPT !.body = "exec", !.seen = NoRow]

\* report(): an aborted body throws JobCancelledError, another one reads the
\* row.  final is the report "Finalizing".
Report(t, final) ==
  /\ t.body = "exec"
  /\ IF t.aborted THEN Becomes(t, Thrown(t, "cancelled"))
     ELSE Becomes(t, [t EXCEPT !.body = "get", !.final = final])
  /\ UNCHANGED <<backend, queueVars, proc, poolVars, cancels, budget>>

\* The read of updateProgress: nothing more happens unless the row is running.
ReportRead(t) ==
  /\ t.body = "get"
  /\ IF rows[t.job].status = "running"
       THEN Becomes(t, [t EXCEPT !.body = "put", !.seen = rows[t.job]])
       ELSE Becomes(t, Reported(t))
  /\ UNCHANGED <<backend, queueVars, proc, poolVars, cancels, budget>>

\* The full-row write of updateProgress.
ReportWrite(t) ==
  /\ t.body = "put"
  /\ rows' = [rows EXCEPT ![t.job] = t.seen]
  /\ Becomes(t, Reported(t))
  /\ UNCHANGED <<backend, createdAt, stamp, aged, proc, poolVars, cancels,
                 budget>>

\* A query of updateProgress throws, and the body with it.  A write whose
\* connection breaks may have been applied.
ReportFails(t, e) ==
  /\ backend = "postgres"
  /\ t.body \in {"get", "put"}
  /\ Spend("dbError")
  /\ \/ UNCHANGED rows
     \/ t.body = "put" /\ rows' = [rows EXCEPT ![t.job] = t.seen]
  /\ Becomes(t, Thrown(t, e))
  /\ UNCHANGED <<backend, createdAt, stamp, aged, proc, poolVars, cancels>>

\* executeJob throws.
Throw(t, e) ==
  /\ t.body = "exec"
  /\ Becomes(t, Thrown(t, e))
  /\ UNCHANGED <<backend, queueVars, proc, poolVars, cancels, budget>>

\* The timer of runJob fires before the body ends: the run fails, its signal
\* is aborted, and the body goes on until its next report.
Timeout(t) ==
  /\ Macrotask
  /\ t.pc = "run"
  /\ t.n <= aged[t.job]
  /\ Becomes(t, [t EXCEPT !.pc = "hget", !.err = "transient",
                          !.aborted = TRUE])
  /\ UNCHANGED <<backend, queueVars, proc, poolVars, cancels, budget>>

----------------------------------------------------------------------------
(* The end of a run: completeJob, handleFailure, failJob, requeue *)

CompleteRead(t) ==
  /\ t.pc = "cget"
  /\ Becomes(t, [t EXCEPT !.pc = "cput",
                          !.row = [rows[t.job] EXCEPT !.status = "completed"]])
  /\ UNCHANGED <<backend, queueVars, proc, poolVars, cancels, budget>>

CompleteWrite(t) ==
  /\ t.pc = "cput"
  /\ rows' = [rows EXCEPT ![t.job] = t.row]
  /\ Becomes(t, [t EXCEPT !.pc = "store", !.row = NoRow])
  /\ UNCHANGED <<backend, createdAt, stamp, aged, proc, poolVars, cancels,
                 budget>>

\* results.store succeeds and runJob ends.
StoreResult(t) ==
  /\ t.pc = "store"
  /\ Becomes(t, [t EXCEPT !.pc = "end"])
  /\ FreeSlot(t.proc, t.job)
  /\ UNCHANGED <<backend, queueVars, proc, cancels, budget>>

\* A query of completeJob throws: the catch of runJob takes it for a failure
\* of the job.  A write whose connection breaks may have been applied.
CompleteFails(t, e) ==
  /\ backend = "postgres"
  /\ t.pc \in {"cget", "cput", "store"}
  /\ Spend("dbError")
  /\ \/ UNCHANGED rows
     \/ t.pc = "cput" /\ rows' = [rows EXCEPT ![t.job] = t.row]
  /\ Becomes(t, [t EXCEPT !.pc = "hget", !.row = NoRow, !.err = e])
  /\ UNCHANGED <<backend, createdAt, stamp, aged, proc, poolVars, cancels>>

\* Mutant of HandleFailure: one retry too many.
HandleFailureOffByOne(t) ==
  /\ t.pc = "hget"
  /\ IF t.err = "transient" /\ rows[t.job].retry <= MaxRetries
       THEN /\ Becomes(t, [t EXCEPT !.pc = "backoff", !.row = rows[t.job],
                                    !.err = "none"])
            /\ FreeSlot(t.proc, t.job)
       ELSE /\ Becomes(t, [t EXCEPT !.pc = "fget", !.err = "none"])
            /\ UNCHANGED poolVars
  /\ UNCHANGED <<backend, queueVars, proc, cancels, budget>>

\* handleFailure decides on the row it reads: a retry ends runJob and leaves
\* a timer that holds the row, anything else goes on to failJob.
HandleFailure(t) ==
  /\ t.pc = "hget"
  /\ IF t.err = "transient" /\ rows[t.job].retry < MaxRetries
       THEN /\ Becomes(t, [t EXCEPT !.pc = "backoff", !.row = rows[t.job],
                                    !.err = "none"])
            /\ FreeSlot(t.proc, t.job)
       ELSE /\ Becomes(t, [t EXCEPT !.pc = "fget", !.err = "none"])
            /\ UNCHANGED poolVars
  /\ UNCHANGED <<backend, queueVars, proc, cancels, budget>>

FailRead(t) ==
  /\ t.pc = "fget"
  /\ Becomes(t, [t EXCEPT !.pc = "fput",
                          !.row = [rows[t.job] EXCEPT !.status = "failed"]])
  /\ UNCHANGED <<backend, queueVars, proc, poolVars, cancels, budget>>

FailWrite(t) ==
  /\ t.pc = "fput"
  /\ rows' = [rows EXCEPT ![t.job] = t.row]
  /\ Becomes(t, [t EXCEPT !.pc = "end", !.row = NoRow])
  /\ FreeSlot(t.proc, t.job)
  /\ UNCHANGED <<backend, createdAt, stamp, aged, proc, cancels, budget>>

\* The backoff timer fires: requeue writes the row handleFailure read, with
\* no look at what the row has become.
Requeue(t) ==
  /\ Macrotask
  /\ t.pc = "backoff"
  /\ rows' = [rows EXCEPT ![t.job] = Requeued(t.row)]
  /\ Becomes(t, [t EXCEPT !.pc = "end", !.row = NoRow])
  /\ UNCHANGED <<backend, createdAt, stamp, aged, proc, poolVars, cancels,
                 budget>>

----------------------------------------------------------------------------
(* Time, shutdown, crash, recovery *)

\* The claims of j made so far become older than maxJobDurationMs.
Age(j) ==
  /\ stamp[j] > aged[j]
  /\ Spend("age")
  /\ aged' = [aged EXCEPT ![j] = stamp[j]]
  /\ UNCHANGED <<backend, rows, createdAt, stamp, proc, poolVars, tasks,
                 cancels>>

\* SIGTERM: stopJobRuntime.  pool.stop() aborts the runs it knows of and
\* drain() will not start again; loops in flight go on.
Stop(p) ==
  /\ Macrotask
  /\ proc[p] = "up"
  /\ Spend("stop")
  /\ proc' = [proc EXCEPT ![p] = "stopped"]
  /\ active' = [active EXCEPT ![p] = [j \in Jobs |-> 0]]
  /\ tasks' = {IF t.proc = p /\ t.n = active[p][t.job]
                 THEN [t EXCEPT !.aborted = TRUE] ELSE t : t \in tasks}
  /\ UNCHANGED <<backend, queueVars, running, selecting, picking, cancels>>

\* The process is gone, by process.exit after a stop or by a crash, which is
\* also what an error in failJob or requeue comes to, since nothing catches it
\* (with a SENTRY_DSN the process survives it instead; that is left out).
\* Its runs and timers go with it, and the rows if they are in its memory.
Down(p) ==
  /\ \/ proc[p] = "stopped" /\ UNCHANGED budget
     \/ proc[p] = "up" /\ Spend("crash")
  /\ proc' = [proc EXCEPT ![p] = "down"]
  /\ tasks' = {t \in tasks : t.proc # p}
  /\ running' = [running EXCEPT ![p] = 0]
  /\ selecting' = [selecting EXCEPT ![p] = 0]
  /\ picking' = [picking EXCEPT ![p] = 0]
  /\ active' = [active EXCEPT ![p] = [j \in Jobs |-> 0]]
  /\ IF backend = "memory"
       THEN /\ rows' = [j \in Jobs |-> NoRow]
            /\ createdAt' = [j \in Jobs |-> 0]
            /\ cancels' = {}
       ELSE UNCHANGED <<rows, createdAt, cancels>>
  /\ UNCHANGED <<backend, stamp, aged>>

\* Mutant of Start: nothing is reclaimed.
StartBlind(p) ==
  /\ proc[p] = "down"
  /\ proc' = [proc EXCEPT ![p] = "up"]
  /\ UNCHANGED <<backend, rows, createdAt, stamp, aged, poolVars, tasks,
                 cancels, budget>>

\* Mutant of Start: every row that is not queued is taken for an orphan.
StartReclaimsAll(p) ==
  /\ proc[p] = "down"
  /\ proc' = [proc EXCEPT ![p] = "up"]
  /\ rows' = [j \in Jobs |->
                IF rows[j].status \notin {"absent", "queued"}
                  THEN Reclaimed(rows[j]) ELSE rows[j]]
  /\ UNCHANGED <<backend, createdAt, stamp, aged, poolVars, tasks, cancels,
                 budget>>

\* Mutant of Start: the process starts again before it has exited.
StartEarly(p) ==
  /\ proc[p] # "up"
  /\ proc' = [proc EXCEPT ![p] = "up"]
  /\ rows' = [j \in Jobs |->
                IF rows[j].status = "running"
                  THEN Reclaimed(rows[j]) ELSE rows[j]]
  /\ UNCHANGED <<backend, createdAt, stamp, aged, poolVars, tasks, cancels,
                 budget>>

\* startJobRuntime: a worker first requeues every running row.  A memory
\* queue belongs to one process.
Start(p) ==
  /\ proc[p] = "down"
  /\ backend = "memory" => \A q \in Procs : proc[q] = "down"
  /\ proc' = [proc EXCEPT ![p] = "up"]
  /\ rows' = [j \in Jobs |->
                IF backend = "postgres" /\ p \in Workers
                   /\ rows[j].status = "running"
                  THEN Reclaimed(rows[j]) ELSE rows[j]]
  /\ UNCHANGED <<backend, createdAt, stamp, aged, poolVars, tasks, cancels,
                 budget>>

\* reclaimStaleRunningJobs, on the worker's timer.
\* (Its mutant: the age is not compared.)
IsStaleWhateverAge(j) ==
  /\ rows[j].status = "running"
  /\ rows[j].claim # 0

IsStale(j) ==
  /\ rows[j].status = "running"
  /\ rows[j].claim # 0
  /\ rows[j].claim <= aged[j]

ReclaimStale(p) ==
  /\ backend = "postgres"
  /\ p \in Workers
  /\ proc[p] = "up"
  /\ \E j \in Jobs : IsStale(j)
  /\ rows' = [j \in Jobs |-> IF IsStale(j) THEN Reclaimed(rows[j])
                                           ELSE rows[j]]
  /\ UNCHANGED <<backend, createdAt, stamp, aged, proc, poolVars, tasks,
                 cancels, budget>>

----------------------------------------------------------------------------
(* The specification *)

Init ==
  /\ backend \in Backends
  /\ rows = [j \in Jobs |-> NoRow]
  /\ createdAt = [j \in Jobs |-> 0]
  /\ stamp = [j \in Jobs |-> 0]
  /\ aged = [j \in Jobs |-> 0]
  /\ proc = [p \in Procs |-> "down"]
  /\ running = [p \in Procs |-> 0]
  /\ active = [p \in Procs |-> [j \in Jobs |-> 0]]
  /\ selecting = [p \in Procs |-> 0]
  /\ picking = [p \in Procs |-> 0]
  /\ tasks = {}
  /\ cancels = {}
  /\ budget = Budget

PoolStep(p) ==
  \/ Poll(p)
  \/ ClaimNone(p)
  \/ ClaimLocked(p)
  \/ SelectUnlocked(p)

TaskStep(t) ==
  \/ ClaimUnlocked(t)
  \/ \E final \in BOOLEAN : Report(t, final)
  \/ ReportRead(t)
  \/ ReportWrite(t)
  \/ \E e \in {"transient", "permanent"} : ReportFails(t, e)
  \/ \E e \in {"transient", "permanent"} : Throw(t, e)
  \/ Timeout(t)
  \/ CompleteRead(t)
  \/ CompleteWrite(t)
  \/ StoreResult(t)
  \/ \E e \in {"transient", "permanent"} : CompleteFails(t, e)
  \/ HandleFailure(t)
  \/ FailRead(t)
  \/ FailWrite(t)
  \/ Requeue(t)

Next ==
  \/ \E j \in Jobs : Create(j)
  \/ \E j \in Jobs, force \in BOOLEAN : CancelRead(j, force)
  \/ \E c \in cancels : CancelWrite(c)
  \/ \E p \in Procs : PoolStep(p)
  \/ \E t \in tasks : TaskStep(t)
  \/ \E j \in Jobs : Age(j)
  \/ \E p \in Procs : Stop(p)
  \/ \E p \in Procs : Down(p)
  \/ \E p \in Procs : Start(p)
  \/ \E p \in Procs : ReclaimStale(p)

Spec == Init /\ [][Next]_vars

----------------------------------------------------------------------------
(* Type correctness *)

\* Every variable has its type.
TypeOK ==
  /\ backend \in Backends
  /\ rows \in [Jobs -> Row]
  /\ createdAt \in [Jobs -> Nat]
  /\ stamp \in [Jobs -> Nat]
  /\ aged \in [Jobs -> Nat]
  /\ proc \in [Procs -> {"up", "stopped", "down"}]
  /\ running \in [Procs -> Int]
  /\ active \in [Procs -> [Jobs -> Nat]]
  /\ selecting \in [Procs -> Nat]
  /\ picking \in [Procs -> Int]
  /\ tasks \subseteq Task
  /\ cancels \subseteq Cancel
  /\ budget \in [Events -> Nat]

----------------------------------------------------------------------------
(* What holds of every deployment, whatever fails and whoever overlaps *)

\* A row or a snapshot of one that the queue can work with: a queued job has
\* no started_at, a running one has, and no job is retried too often.
GoodRow(row) ==
  /\ row.status \in {"absent", "queued"} => row.claim = 0
  /\ row.status = "running" => row.claim # 0
  /\ row.retry <= MaxRetries

\* No interleaving of full-row writes leaves a job that reclaimStaleRunningJobs
\* would skip for want of a started_at, that is queued with one, or that has
\* been retried more than maxRetries times.
RowsGood == \A j \in Jobs : GoodRow(rows[j])

\* A run whose snapshots can be written: a claim without a lock is of a
\* running row, and the backoff timer holds a row that may be retried.
GoodTask(t) ==
  /\ t.n > 0
  /\ GoodRow(t.row)
  /\ GoodRow(t.seen)
  /\ t.pc = "backoff" => t.row.retry < MaxRetries
  /\ t.pc = "claim" => t.row.status = "running"

\* What makes RowsGood inductive: every snapshot that some continuation will
\* write is as good as a row.
SnapshotsGood ==
  /\ \A t \in tasks : GoodTask(t)
  /\ \A c \in cancels : GoodRow(c.row)

\* WorkerPool.running counts the runs that have not settled: no path through
\* runJob, timeout and failure included, loses or doubles a slot.
SlotsCounted ==
  \A p \in Procs :
    /\ running[p] = Cardinality({t \in tasks :
                      t.proc = p /\ t.pc \notin {"claim", "backoff", "end"}})
    /\ picking[p] = Cardinality({t \in tasks : t.proc = p /\ t.pc = "claim"})

\* drain() reads running before its await and adds to it after: the pool can
\* exceed its concurrency, but only by the loops in flight less one.
OvershootBounded ==
  \A p \in Procs :
    /\ selecting[p] + picking[p] <= MaxDrains
    /\ running[p] + selecting[p] + picking[p] <= Concurrency - 1 + MaxDrains

\* activeJobs holds only the controllers of runs that have not settled, even
\* when one process runs a job twice.
NoLeakedController ==
  \A p \in Procs, j \in Jobs :
    active[p][j] # 0 =>
      \E t \in tasks :
        /\ t.proc = p /\ t.job = j /\ t.n = active[p][j]
        /\ t.pc \notin {"claim", "backoff", "end"}

----------------------------------------------------------------------------
(* What holds of a quiet deployment: processes may crash and be stopped, jobs
   may fail, but queries succeed, jobs end in time, nobody cancels, and a
   worker that reclaims is alone. *)

Quiet ==
  /\ Backends = {"postgres"}
  /\ \A e \in {"dbError", "age", "cancel", "supersede"} : Budget[e] = 0
  /\ \A w \in Workers : Procs = {w}

\* At most one body executes a job at any time, across processes, retries and
\* the reclaim of a crashed worker's jobs.
MutualExclusion ==
  \A t, u \in tasks :
    t.job = u.job /\ t.body # "end" /\ u.body # "end" => t = u

\* A run that has not ended owns its job's row: the row is running under this
\* very claim, except between the last write of a run and its end.
RunsOwnTheirRow ==
  \A t \in tasks :
    IF t.pc = "store" THEN rows[t.job].status = "completed"
    ELSE rows[t.job].status = "running" /\ rows[t.job].claim = t.n

\* A job is never left running with nobody to finish it while every process
\* is there: its run, or the timer that will requeue it, exists.
NoStrandedJob ==
  (\A p \in Procs : proc[p] # "down") =>
    \A j \in Jobs : rows[j].status = "running" =>
      \E t \in tasks : t.job = j /\ t.n = rows[j].claim

\* A job is claimed once, and once more per retry counted in its row and per
\* shutdown or crash: no claim is wasted and no retry is uncounted.
ClaimsAccounted ==
  \A j \in Jobs :
    stamp[j] <= 1 + rows[j].retry + (Budget["crash"] - budget["crash"])
                                  + (Budget["stop"] - budget["stop"])

\* A job that has ended stays as it is: no late report, retry timer or
\* recovery rewrites its row.
EndedStaysEnded ==
  [][\A j \in Jobs : rows[j].status \in Terminal => rows'[j] = rows[j]]_vars

----------------------------------------------------------------------------
(* Fairness and liveness *)

OfJob(j) == {t \in tasks : t.job = j}

\* Node runs what is ready and the pool polls; a process that went down is
\* started again by its platform, one that was stopped exits; the executors
\* return or throw.  Users, faults and time are not fair.
Fairness ==
  /\ \A p \in Procs :
       /\ WF_vars(PoolStep(p))
       /\ WF_vars(Start(p))
       /\ WF_vars(proc[p] = "stopped" /\ Down(p))
  /\ \A j \in Jobs :
       /\ WF_vars(\E t \in OfJob(j) : ReportRead(t) \/ ReportWrite(t))
       /\ SF_vars(\E t \in OfJob(j) : Report(t, TRUE))
       /\ WF_vars(\E t \in OfJob(j) :
             \/ ClaimUnlocked(t) \/ CompleteRead(t) \/ CompleteWrite(t)
             \/ StoreResult(t) \/ HandleFailure(t) \/ FailRead(t)
             \/ FailWrite(t) \/ Requeue(t))

FairSpec == Spec /\ Fairness

\* A submitted job ends, whatever fails, crashes or is stopped on the way.
JobsEnd ==
  \A j \in Jobs : rows[j].status # "absent" ~> rows[j].status \in Terminal

----------------------------------------------------------------------------
(* What a comment or a message of the code says of it, and it does not do *)

\* "job cannot be cancelled (already running or finished)": a cancellation by
\* a user turns only a queued job into a cancelled one.
CancelHitsQueued ==
  [][\A j \in Jobs :
       rows'[j].status = "cancelled" /\ rows[j].status # "cancelled" =>
         rows[j].status = "queued"]_vars

\* "On worker startup, any running row is orphaned": no process executes a
\* job whose row is running when a worker starts.
StartFindsOrphans ==
  [][\A p \in Workers : proc[p] = "down" /\ proc'[p] = "up" =>
       \A j \in Jobs : rows[j].status = "running" =>
         \A t \in OfJob(j) : t.body = "end"]_vars

----------------------------------------------------------------------------
(* Refinement *)

\* The queue implements the life cycle it promises: status is the row's, and
\* a job is busy while a body executes it.
Lifecycle == INSTANCE JobLifecycle
               WITH status <- [j \in Jobs |-> rows[j].status],
                    busy <- {j \in Jobs : \E t \in OfJob(j) : t.body # "end"}

\* Every behaviour of a quiet deployment is one of JobLifecycle.
ImplementsLifecycle == Lifecycle!Spec
=============================================================================
