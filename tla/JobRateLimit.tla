---------------------------- MODULE JobRateLimit ----------------------------
(***************************************************************************)
(* The checks createJob makes before it enqueues a job, for one user and   *)
(* one rate-limited job type: reuse of a finished job, the limits per hour *)
(* and per day, and the counters behind them in the two backends.          *)
(*                                                                         *)
(* Code: createJob and findCachedJob of src/src/jobs/jobQueue.ts,          *)
(* rateLimit.ts, and the counters of backends/{postgres,memory}Backend.ts. *)
(* Users and job types have separate counters, so one pair is enough.      *)
(* Time is a count of ticks; the process clock, in whose zone postgres'    *)
(* hours are cut, is UTC.  Statements of the database may fail, with or    *)
(* without having taken effect, and processes may end, at any await.       *)
(***************************************************************************)
EXTENDS Integers, FiniteSets

CONSTANTS
  Requests,     \* createJob calls that may be in flight at once
  PerHour,      \* RATE_LIMITS[type].perHour
  PerDay,       \* RATE_LIMITS[type].perDay
  Hour,         \* ticks in an hour
  Day,          \* ticks in a day
  ReuseTtl,     \* JOB_REUSE_TTL_MS[type] in ticks
  LastTick,     \* bound: the last tick considered
  MaxJobs,      \* bound: createJob is not called once this many jobs exist
  MaxFaults,    \* bound on failed statements and process ends
  Backends      \* the values of JOBS_BACKEND considered

ASSUME RateLimitAssumption ==
  /\ IsFiniteSet(Requests)
  /\ {PerHour, PerDay, Hour, Day, ReuseTtl, LastTick, MaxJobs,
      MaxFaults} \subseteq Nat
  /\ Hour > 0 /\ Day % Hour = 0 /\ Day > 0
  /\ PerHour > 0 /\ PerDay > 0
  /\ Backends \subseteq {"postgres", "memory"}

VARIABLES
  backend,   \* "postgres" or "memory"
  now,       \* the current tick
  limits,    \* postgres: the latest job_rate_limits row per window type
  entry,     \* memory: the RateLimitEntry, hourReset = 0 while there is none
  pc,        \* per request, what it awaits
  day,       \* per request, jobsToday as read
  at,        \* per request, the clock that incrementRateLimit read
  accepted,  \* history: the jobs enqueued after a check of the limits, and when
  job,       \* history: per request, the number of the accepted job that it has
             \* yet to count, 0 if there is none
  uncounted, \* history: per window, the accepted jobs whose count failed or is lost
  jobs,      \* how many jobs the backend holds
  finished,  \* when the latest job completed, -1 if none did
  denied,    \* the latest denial with no submission since, if any
  faults     \* failed statements and process ends so far

vars == <<backend, now, limits, entry, pc, day, at, accepted, job, uncounted,
          jobs, finished, denied, faults>>

Windows == {"hour", "day"}
Ticks == 0 .. LastTick
NoDenial == [window |-> "none", until |-> 0]
NoEntry == [hour |-> 0, hourReset |-> 0, day |-> 0, dayReset |-> 0]

----------------------------------------------------------------------------
(* Counters *)

Length(w) == IF w = "hour" THEN Hour ELSE Day

\* Mutant of WindowStart: the next window instead of the current one.
WindowStartRoundsUp(w, t) == t + Length(w) - (t % Length(w))

\* The start of the hour or day that tick t is in.
WindowStart(w, t) == t - (t % Length(w))

\* Mutant of Refreshed: the window slides with every count.
RefreshedSliding ==
  [hour      |-> IF now >= entry.hourReset THEN 0 ELSE entry.hour,
   hourReset |-> now + Hour,
   day       |-> IF now >= entry.dayReset THEN 0 ELSE entry.day,
   dayReset  |-> now + Day]

\* resetRateLimitWindows, on an entry created if need be.
Refreshed ==
  [hour      |-> IF now >= entry.hourReset THEN 0 ELSE entry.hour,
   hourReset |-> IF now >= entry.hourReset THEN now + Hour ELSE entry.hourReset,
   day       |-> IF now >= entry.dayReset THEN 0 ELSE entry.day,
   dayReset  |-> IF now >= entry.dayReset THEN WindowStart("day", now) + Day
                                          ELSE entry.dayReset]

\* countJobsForUser: postgres takes the latest window there is a row of,
\* memory the current one.
CountJobs(w) ==
  IF backend = "postgres" THEN limits[w].count
  ELSE IF w = "hour" THEN Refreshed.hour ELSE Refreshed.day

\* countJobsForUser of the memory backend leaves a refreshed entry behind.
Refresh ==
  entry' = IF backend = "memory" THEN Refreshed ELSE entry

\* The upsert of one job_rate_limits row for a submission at tick t.  A row
\* of an earlier window than the latest is not looked at again.
Counted(row, w, t) ==
  LET start == WindowStart(w, t) IN
  IF start > row.start THEN [start |-> start, count |-> 1]
  ELSE IF start = row.start THEN [row EXCEPT !.count = @ + 1]
  ELSE row

Limit(w) == IF w = "hour" THEN PerHour ELSE PerDay

\* When a denied client may retry: now plus retryAfterMs.
RetryAt(w) ==
  IF w = "hour" THEN now + Hour ELSE WindowStart("day", now) + Day

----------------------------------------------------------------------------
(* createJob *)

\* In memory every await is over before the next request or timer.
Idle == \A r \in Requests : pc[r] = "idle"

\* findReusableCompletedJob finds nothing: createJob goes on.
Begin(r, bypass) ==
  /\ pc[r] = "idle"
  /\ backend = "memory" => Idle
  /\ jobs < MaxJobs
  /\ finished = -1 \/ now - finished > ReuseTtl
  /\ pc' = [pc EXCEPT ![r] = IF bypass THEN "saveUnchecked" ELSE "today"]
  /\ UNCHANGED <<backend, now, limits, entry, day, at, accepted, job, uncounted,
                 jobs, finished, denied, faults>>

\* canSubmitJob: the first count.
CountToday(r) ==
  /\ pc[r] = "today"
  /\ day' = [day EXCEPT ![r] = CountJobs("day")]
  /\ Refresh
  /\ pc' = [pc EXCEPT ![r] = "thisHour"]
  /\ UNCHANGED <<backend, now, limits, at, accepted, job, uncounted, jobs,
                 finished, denied, faults>>

\* Mutant of Decide: the limits themselves are let through.
DecideOffByOne(r) ==
  /\ pc[r] = "thisHour"
  /\ Refresh
  /\ IF day[r] > PerDay \/ CountJobs("hour") > PerHour
       THEN LET w == IF day[r] > PerDay THEN "day" ELSE "hour" IN
            /\ denied' = [window |-> w, until |-> RetryAt(w)]
            /\ pc' = [pc EXCEPT ![r] = "idle"]
       ELSE /\ pc' = [pc EXCEPT ![r] = "save"]
            /\ UNCHANGED denied
  /\ day' = [day EXCEPT ![r] = 0]
  /\ UNCHANGED <<backend, now, limits, at, accepted, job, uncounted, jobs,
                 finished, faults>>

\* canSubmitJob: the second count, and the decision.  A denied request gets
\* an older result or JobRateLimitError, and is over.
Decide(r) ==
  /\ pc[r] = "thisHour"
  /\ Refresh
  /\ IF day[r] >= PerDay \/ CountJobs("hour") >= PerHour
       THEN LET w == IF day[r] >= PerDay THEN "day" ELSE "hour" IN
            /\ denied' = [window |-> w, until |-> RetryAt(w)]
            /\ pc' = [pc EXCEPT ![r] = "idle"]
       ELSE /\ pc' = [pc EXCEPT ![r] = "save"]
            /\ UNCHANGED denied
  /\ day' = [day EXCEPT ![r] = 0]
  /\ UNCHANGED <<backend, now, limits, at, accepted, job, uncounted, jobs,
                 finished, faults>>

\* The INSERT of the job; incrementRateLimit then reads the clock.
Save(r) ==
  /\ pc[r] \in {"save", "saveUnchecked"}
  /\ LET nr == Cardinality(accepted) + 1 IN
     IF pc[r] = "save"
       THEN /\ accepted' = accepted \cup {[nr |-> nr, at |-> now]}
            /\ job' = [job EXCEPT ![r] = nr]
       ELSE UNCHANGED <<accepted, job>>
  /\ jobs' = jobs + 1
  /\ denied' = NoDenial
  /\ pc' = [pc EXCEPT ![r] = "record"]
  /\ UNCHANGED <<backend, now, limits, entry, day, at, uncounted, finished, faults>>

\* recordJobSubmission in memory: both counters at once.
RecordInMemory(r) ==
  /\ pc[r] = "record"
  /\ backend = "memory"
  /\ entry' = [Refreshed EXCEPT !.hour = @ + 1, !.day = @ + 1]
  /\ job' = [job EXCEPT ![r] = 0]
  /\ denied' = NoDenial
  /\ pc' = [pc EXCEPT ![r] = "idle"]
  /\ UNCHANGED <<backend, now, limits, day, at, accepted, uncounted, jobs,
                 finished, faults>>

\* recordJobSubmission in postgres: the row of the hour, then that of the day.
RecordHour(r) ==
  /\ pc[r] = "record"
  /\ backend = "postgres"
  /\ limits' = [limits EXCEPT !["hour"] = Counted(@, "hour", now)]
  /\ at' = [at EXCEPT ![r] = now]
  /\ denied' = NoDenial
  /\ pc' = [pc EXCEPT ![r] = "recordDay"]
  /\ UNCHANGED <<backend, now, entry, day, accepted, job, uncounted, jobs,
                 finished, faults>>

RecordDay(r) ==
  /\ pc[r] = "recordDay"
  /\ limits' = [limits EXCEPT !["day"] = Counted(@, "day", at[r])]
  /\ at' = [at EXCEPT ![r] = 0]
  /\ job' = [job EXCEPT ![r] = 0]
  /\ denied' = NoDenial
  /\ pc' = [pc EXCEPT ![r] = "idle"]
  /\ UNCHANGED <<backend, now, entry, day, accepted, uncounted, jobs, finished,
                 faults>>

\* Whether the row of w is yet to be written for the job of r.
Owes(r, w) == pc[r] = "record" \/ (w = "day" /\ pc[r] = "recordDay")

\* The statement that r awaits fails, or its process ends, in postgres:
\* createJob throws.  The job that was saved stays enqueued, and the rows that
\* were not written do not count it.  (One that takes effect and then reports
\* an error is the step of the statement, then this one.)
Fail(r) ==
  /\ backend = "postgres"
  /\ pc[r] # "idle" /\ faults < MaxFaults
  /\ faults' = faults + 1
  /\ uncounted' = [w \in Windows |-> uncounted[w] \cup
                     {a \in accepted : a.nr = job[r] /\ Owes(r, w)}]
  /\ pc' = [pc EXCEPT ![r] = "idle"]
  /\ day' = [day EXCEPT ![r] = 0]
  /\ at' = [at EXCEPT ![r] = 0]
  /\ job' = [job EXCEPT ![r] = 0]
  /\ UNCHANGED <<backend, now, limits, entry, accepted, jobs, finished, denied>>

----------------------------------------------------------------------------
(* The environment *)

\* Some job enqueued earlier completes.
Finish ==
  /\ backend = "memory" => Idle
  /\ jobs > 0
  /\ finished' = now
  /\ UNCHANGED <<backend, now, limits, entry, pc, day, at, accepted, job,
                 uncounted, jobs, denied, faults>>

\* The process of a memory backend ends, in whatever await, and another starts:
\* the jobs and all counts are gone.
Restart ==
  /\ backend = "memory" /\ faults < MaxFaults
  /\ faults' = faults + 1
  /\ entry' = NoEntry
  /\ uncounted' = [w \in Windows |-> accepted]
  /\ pc' = [r \in Requests |-> "idle"]
  /\ day' = [r \in Requests |-> 0]
  /\ job' = [r \in Requests |-> 0]
  /\ jobs' = 0
  /\ finished' = -1
  /\ UNCHANGED <<backend, now, limits, at, accepted, denied>>

Tick ==
  /\ backend = "memory" => Idle
  /\ now < LastTick
  /\ now' = now + 1
  /\ UNCHANGED <<backend, limits, entry, pc, day, at, accepted, job, uncounted,
                 jobs, finished, denied, faults>>

Init ==
  /\ backend \in Backends
  /\ now = 0
  /\ limits = [w \in Windows |-> [start |-> -1, count |-> 0]]
  /\ entry = NoEntry
  /\ pc = [r \in Requests |-> "idle"]
  /\ day = [r \in Requests |-> 0]
  /\ at = [r \in Requests |-> 0]
  /\ accepted = {}
  /\ job = [r \in Requests |-> 0]
  /\ uncounted = [w \in Windows |-> {}]
  /\ jobs = 0
  /\ finished = -1
  /\ denied = NoDenial
  /\ faults = 0

CreateJob(r) ==
  \/ \E bypass \in BOOLEAN : Begin(r, bypass)
  \/ CountToday(r)
  \/ Decide(r)
  \/ Save(r)
  \/ RecordInMemory(r)
  \/ RecordHour(r)
  \/ RecordDay(r)
  \/ Fail(r)

Next ==
  \/ \E r \in Requests : CreateJob(r)
  \/ Finish
  \/ Restart
  \/ Tick

Spec == Init /\ [][Next]_vars

----------------------------------------------------------------------------
(* Properties *)

\* Every variable has its type.
TypeOK ==
  /\ backend \in Backends
  /\ now \in Ticks
  /\ limits \in [Windows -> [start : -1 .. LastTick, count : Nat]]
  /\ entry \in [hour : Nat, hourReset : Nat, day : Nat, dayReset : Nat]
  /\ pc \in [Requests -> {"idle", "today", "thisHour", "save",
                          "saveUnchecked", "record", "recordDay"}]
  /\ day \in [Requests -> Nat]
  /\ at \in [Requests -> Ticks]
  /\ accepted \subseteq [nr : Nat, at : Ticks] /\ IsFiniteSet(accepted)
  /\ job \in [Requests -> Nat]
  /\ uncounted \in [Windows -> SUBSET accepted]
  /\ jobs \in Nat /\ faults \in Nat
  /\ finished \in -1 .. LastTick
  /\ denied \in [window : Windows \cup {"none"}, until : Nat]

\* The jobs accepted from one tick to another, but those whose count in w failed
\* or is lost.
AcceptedIn(w, from, to) ==
  Cardinality({a \in accepted \ uncounted[w] : from <= a.at /\ a.at < to})

\* Requests that overlap in postgres may each pass the check before any of
\* them is counted; in memory none can.
Overlap == IF backend = "postgres" THEN Cardinality(Requests) - 1 ELSE 0

\* However requests overlap and fail, the jobs accepted in one day exceed the
\* daily limit by no more than the requests that can be in flight less one and
\* the jobs that are not counted: those of requests that ended between the
\* INSERT of the job and that of the day, and in memory all from before a
\* restart (createJob, recordJobSubmission and incrementRateLimit).
DailyLimit ==
  LET d == WindowStart("day", now) IN
  AcceptedIn("day", d, d + Day) <= PerDay + Overlap

\* The same of an hour, postgres' clock hour or memory's hour since its reset:
\* not counted are the jobs of requests that ended before the INSERT of the hour.
HourlyLimit ==
  LET h == IF backend = "postgres" THEN WindowStart("hour", now)
           ELSE entry.hourReset - Hour IN
  AcceptedIn("hour", h, h + Hour) <= PerHour + Overlap

\* "HTTP 429 includes retryAfterMs": a client that waits that long, while
\* nothing is submitted, is no longer over the limit it was denied for.
RetryAfterHonoured ==
  denied.window # "none" /\ now >= denied.until =>
    CountJobs(denied.window) < Limit(denied.window)

\* The memory backend keeps that promise.
MemoryRetryAfterHonoured == backend = "memory" => RetryAfterHonoured
=============================================================================
