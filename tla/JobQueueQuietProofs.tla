------------------------- MODULE JobQueueQuietProofs ------------------------
(***************************************************************************)
(* Proofs about a quiet deployment (Quiet of JobQueue), for any jobs,      *)
(* processes, priorities and bounds, and any number of crashes, shutdowns, *)
(* retries and overlapping loops: a run owns its job's row until it has    *)
(* written the outcome, and the queue implements JobLifecycle.             *)
(***************************************************************************)
EXTENDS JobQueuePoolProofs

(* The inductive invariant. *)

\* None of the events that Quiet excludes has happened.
Undisturbed ==
  /\ backend = "postgres"
  /\ cancels = {}
  /\ aged = [j \in Jobs |-> 0]
  /\ \A e \in {"dbError", "age", "cancel", "supersede"} : budget[e] = 0

OneRunPerJob == \A t, u \in tasks : t.job = u.job => t = u

\* A run is in step with the row of its job: the row is the run's own, and
\* what the run will write to it was computed from what is there now.
Fine(t, row) ==
  /\ t.pc \notin {"claim", "end"}
  /\ t.body = "end" <=> t.pc # "run"
  /\ IF t.pc = "store" THEN row.status = "completed"
     ELSE row.status = "running" /\ row.claim = t.n
  /\ t.body = "put" => t.seen = row
  /\ t.pc = "cput" => t.row = [row EXCEPT !.status = "completed"]
  /\ t.pc = "fput" => t.row = [row EXCEPT !.status = "failed"]
  /\ t.pc = "backoff" => t.row = row

InStep == \A t \in tasks : Fine(t, rows[t.job])

QuietInv == Undisturbed /\ OneRunPerJob /\ InStep

\* What is known of every deployment.
Known == TypeOK /\ SnapshotsGood /\ OneRunPerClaim /\ DownIsIdle

-----------------------------------------------------------------------------
(* The steps that a quiet deployment takes *)

\* The ways a run goes on: to the next await with the row as it is, by writing
\* the outcome of its job, by requeueing it, or by ending after the outcome.
Goes(t, u) ==
  /\ u \in Task /\ SameRun(t, u) /\ Becomes(t, u)
  /\ UNCHANGED <<backend, createdAt, stamp, aged, proc, cancels, budget>>

Continues(t) ==
  \E u : /\ Goes(t, u) /\ UNCHANGED rows
         /\ Fine(u, rows[t.job])
         /\ t.body = "end" => u.body = "end"

Records(t) ==
  \E u, s : /\ Goes(t, u)
            /\ t.body = "end" /\ u.body = "end" /\ t.pc # "store"
            /\ \/ s = "completed" /\ u.pc = "store"
               \/ s = "failed" /\ u.pc = "end"
            /\ rows' = [rows EXCEPT ![t.job] = [@ EXCEPT !.status = s]]

Retries(t) ==
  \E u : /\ Goes(t, u)
         /\ t.body = "end" /\ t.pc # "store" /\ u.pc = "end" /\ u.body = "end"
         /\ rows' = [rows EXCEPT ![t.job] = Requeued(@)]

Settles(t) ==
  \E u : /\ Goes(t, u) /\ UNCHANGED rows
         /\ t.pc = "store" /\ u.pc = "end" /\ u.body = "end"

LEMMA QuietRun ==
  ASSUME Known, QuietInv, NEW t \in tasks, TaskStep(t)
  PROVE  Continues(t) \/ Records(t) \/ Retries(t) \/ Settles(t)
<1>0. /\ t \in Task /\ t.job \in Jobs /\ t.proc \in Procs /\ t.n \in Nat /\ t.n > 0
      /\ rows[t.job] \in Row /\ rows \in [Jobs -> Row]
      /\ t.row \in Row
      /\ budget["dbError"] = 0 /\ aged[t.job] = 0
      /\ Fine(t, rows[t.job])
  BY DEF Known, TypeOK, SnapshotsGood, GoodTask, Task, QuietInv, Undisturbed,
     InStep
<1> USE DEF queueVars, SameRun, Fine
<1>e. ASSUME NEW e \in {"transient", "permanent", "cancelled"}, t.pc = "run"
      PROVE  /\ Thrown(t, e) \in Task /\ SameRun(t, Thrown(t, e))
             /\ Thrown(t, e).body = "end" /\ Fine(Thrown(t, e), rows[t.job])
  <2>1. Thrown(t, e) \in Task
    BY <1>0, BodyEndType
  <2>2. /\ SameRun(t, Thrown(t, e)) /\ Thrown(t, e).body = "end"
        /\ Thrown(t, e).pc \in {"fget", "hget"}
    BY <1>0, <1>e DEF Thrown, Task
  <2> QED
    BY <1>0, <1>e, <2>1, <2>2
<1>r. ASSUME t.pc = "run"
      PROVE  /\ Reported(t) \in Task /\ SameRun(t, Reported(t))
             /\ Fine(Reported(t), rows[t.job])
  BY <1>0, <1>r, BodyEndType DEF Reported, Returned, Task
<1>1. ~ClaimUnlocked(t)
  BY <1>0 DEF ClaimUnlocked
<1>2. ASSUME NEW final \in BOOLEAN, Report(t, final) PROVE Continues(t)
  <2>0. t.body = "exec" /\ t.pc = "run"
    BY <1>0, <1>2 DEF Report
  <2>1. CASE t.aborted
    <3>1. Goes(t, Thrown(t, "cancelled")) /\ UNCHANGED rows
      BY <1>2, <1>e, <2>0, <2>1 DEF Report, Goes
    <3> QED
      BY <1>e, <2>0, <3>1 DEF Continues
  <2>2. CASE ~t.aborted
    <3> DEFINE u == [t EXCEPT !.body = "get", !.final = final]
    <3>1. u \in Task /\ SameRun(t, u) /\ Fine(u, rows[t.job])
      BY <1>0, <2>0 DEF Task, BodyPcs
    <3>2. Becomes(t, u) /\ UNCHANGED rows
      BY <1>2, <2>2 DEF Report
    <3>3. Goes(t, u)
      BY <1>2, <3>1, <3>2 DEF Report, Goes
    <3> QED
      BY <2>0, <3>1, <3>2, <3>3 DEF Continues
  <2> QED
    BY <2>1, <2>2
<1>3. CASE ReportRead(t)
  <2>0. t.body = "get" /\ t.pc = "run" /\ rows[t.job].status = "running"
    BY <1>0, <1>3 DEF ReportRead
  <2> DEFINE u == [t EXCEPT !.body = "put", !.seen = rows[t.job]]
  <2>1. u \in Task /\ SameRun(t, u) /\ Fine(u, rows[t.job])
    BY <1>0, <2>0 DEF Task, BodyPcs
  <2>2. Becomes(t, u) /\ UNCHANGED rows
    BY <1>3, <2>0 DEF ReportRead
  <2>3. Goes(t, u)
    BY <1>3, <2>1, <2>2 DEF ReportRead, Goes
  <2> QED
    BY <2>0, <2>1, <2>2, <2>3 DEF Continues
<1>4. CASE ReportWrite(t)
  <2>0. t.body = "put" /\ t.pc = "run" /\ t.seen = rows[t.job]
    BY <1>0, <1>4 DEF ReportWrite
  <2>1. UNCHANGED rows
    BY <1>0, <1>4, <2>0 DEF ReportWrite
  <2>2. Goes(t, Reported(t))
    BY <1>4, <1>r, <2>0 DEF ReportWrite, Goes
  <2> QED
    BY <1>r, <2>0, <2>1, <2>2 DEF Continues
<1>5. ASSUME NEW e \in {"transient", "permanent"}, Throw(t, e) PROVE Continues(t)
  <2>0. t.body = "exec" /\ t.pc = "run"
    BY <1>0, <1>5 DEF Throw
  <2>1. Goes(t, Thrown(t, e)) /\ UNCHANGED rows
    BY <1>5, <1>e, <2>0 DEF Throw, Goes
  <2> QED
    BY <1>e, <2>0, <2>1 DEF Continues
<1>6. /\ ~Timeout(t)
      /\ \A e \in {"transient", "permanent"} : ~ReportFails(t, e) /\ ~CompleteFails(t, e)
  BY <1>0 DEF Timeout, ReportFails, CompleteFails, Spend
<1>7. CASE CompleteRead(t)
  <2> DEFINE row == [rows[t.job] EXCEPT !.status = "completed"]
             u == [t EXCEPT !.pc = "cput", !.row = row]
  <2>0. t.pc = "cget" /\ t.body = "end" /\ row \in Row
    BY <1>0, <1>7 DEF CompleteRead, Row, Statuses
  <2>1. u \in Task /\ SameRun(t, u) /\ Fine(u, rows[t.job]) /\ u.body = "end"
    BY <1>0, <2>0 DEF Task, Pcs
  <2>2. Becomes(t, u) /\ UNCHANGED rows
    BY <1>7 DEF CompleteRead
  <2>3. Goes(t, u)
    BY <1>7, <2>1, <2>2 DEF CompleteRead, Goes
  <2> QED
    BY <2>1, <2>2, <2>3 DEF Continues
<1>8. CASE CompleteWrite(t)
  <2> DEFINE u == [t EXCEPT !.pc = "store", !.row = NoRow]
  <2>0. t.pc = "cput" /\ t.body = "end"
    BY <1>0, <1>8 DEF CompleteWrite
  <2>1. u \in Task /\ SameRun(t, u) /\ u.body = "end" /\ u.pc = "store"
    BY <1>0, <2>0, NoRowGood DEF Task, Pcs
  <2>2. /\ Becomes(t, u)
        /\ rows' = [rows EXCEPT ![t.job] = [@ EXCEPT !.status = "completed"]]
    BY <1>0, <1>8, <2>0 DEF CompleteWrite
  <2>3. Goes(t, u)
    BY <1>8, <2>1, <2>2 DEF CompleteWrite, Goes
  <2> QED
    BY <2>0, <2>1, <2>2, <2>3 DEF Records
<1>9. CASE StoreResult(t)
  <2> DEFINE u == [t EXCEPT !.pc = "end"]
  <2>0. t.pc = "store" /\ t.body = "end"
    BY <1>0, <1>9 DEF StoreResult
  <2>1. u \in Task /\ SameRun(t, u) /\ u.body = "end" /\ u.pc = "end"
    BY <1>0, <2>0 DEF Task, Pcs
  <2>2. Goes(t, u) /\ UNCHANGED rows
    BY <1>9, <2>1 DEF StoreResult, Goes
  <2> QED
    BY <2>0, <2>1, <2>2 DEF Settles
<1>10. CASE HandleFailure(t)
  <2>0. t.pc = "hget" /\ t.body = "end"
    BY <1>0, <1>10 DEF HandleFailure
  <2>1. CASE t.err = "transient" /\ rows[t.job].retry < MaxRetries
    <3> DEFINE u == [t EXCEPT !.pc = "backoff", !.row = rows[t.job], !.err = "none"]
    <3>1. u \in Task /\ SameRun(t, u) /\ Fine(u, rows[t.job]) /\ u.body = "end"
      BY <1>0, <2>0 DEF Task, Pcs, Errors
    <3>2. Becomes(t, u) /\ UNCHANGED rows
      BY <1>10, <2>1 DEF HandleFailure
    <3>3. Goes(t, u)
      BY <1>10, <3>1, <3>2 DEF HandleFailure, Goes
    <3> QED
      BY <3>1, <3>2, <3>3 DEF Continues
  <2>2. CASE ~(t.err = "transient" /\ rows[t.job].retry < MaxRetries)
    <3> DEFINE u == [t EXCEPT !.pc = "fget", !.err = "none"]
    <3>1. u \in Task /\ SameRun(t, u) /\ Fine(u, rows[t.job]) /\ u.body = "end"
      BY <1>0, <2>0 DEF Task, Pcs, Errors
    <3>2. Becomes(t, u) /\ UNCHANGED rows
      BY <1>10, <2>2 DEF HandleFailure
    <3>3. Goes(t, u)
      BY <1>10, <3>1, <3>2 DEF HandleFailure, Goes
    <3> QED
      BY <3>1, <3>2, <3>3 DEF Continues
  <2> QED
    BY <2>1, <2>2
<1>11. CASE FailRead(t)
  <2> DEFINE row == [rows[t.job] EXCEPT !.status = "failed"]
             u == [t EXCEPT !.pc = "fput", !.row = row]
  <2>0. t.pc = "fget" /\ t.body = "end" /\ row \in Row
    BY <1>0, <1>11 DEF FailRead, Row, Statuses
  <2>1. u \in Task /\ SameRun(t, u) /\ Fine(u, rows[t.job]) /\ u.body = "end"
    BY <1>0, <2>0 DEF Task, Pcs
  <2>2. Becomes(t, u) /\ UNCHANGED rows
    BY <1>11 DEF FailRead
  <2>3. Goes(t, u)
    BY <1>11, <2>1, <2>2 DEF FailRead, Goes
  <2> QED
    BY <2>1, <2>2, <2>3 DEF Continues
<1>12. CASE FailWrite(t)
  <2> DEFINE u == [t EXCEPT !.pc = "end", !.row = NoRow]
  <2>0. t.pc = "fput" /\ t.body = "end"
    BY <1>0, <1>12 DEF FailWrite
  <2>1. u \in Task /\ SameRun(t, u) /\ u.body = "end" /\ u.pc = "end"
    BY <1>0, <2>0, NoRowGood DEF Task, Pcs
  <2>2. /\ Becomes(t, u)
        /\ rows' = [rows EXCEPT ![t.job] = [@ EXCEPT !.status = "failed"]]
    BY <1>0, <1>12, <2>0 DEF FailWrite
  <2>3. Goes(t, u)
    BY <1>12, <2>1, <2>2 DEF FailWrite, Goes
  <2> QED
    BY <2>0, <2>1, <2>2, <2>3 DEF Records
<1>13. CASE Requeue(t)
  <2> DEFINE u == [t EXCEPT !.pc = "end", !.row = NoRow]
  <2>0. t.pc = "backoff" /\ t.body = "end"
    BY <1>0, <1>13 DEF Requeue
  <2>1. u \in Task /\ SameRun(t, u) /\ u.body = "end" /\ u.pc = "end"
    BY <1>0, <2>0, NoRowGood DEF Task, Pcs
  <2>2. /\ Becomes(t, u)
        /\ rows' = [rows EXCEPT ![t.job] = Requeued(@)]
    BY <1>0, <1>13, <2>0 DEF Requeue
  <2>3. Goes(t, u)
    BY <1>13, <2>1, <2>2 DEF Requeue, Goes
  <2> QED
    BY <2>0, <2>1, <2>2, <2>3 DEF Retries
<1> QED
  BY <1>1, <1>2, <1>3, <1>4, <1>5, <1>6, <1>7, <1>8, <1>9, <1>10, <1>11, <1>12,
     <1>13 DEF TaskStep

\* What can happen, besides the steps of runs.
LEMMA QuietNext ==
  ASSUME Known, QuietInv, Next
  PROVE  \/ \E j \in Jobs : Create(j)
         \/ \E p \in Procs : \/ Poll(p) \/ ClaimNone(p) \/ ClaimLocked(p)
                             \/ Stop(p) \/ Down(p) \/ Start(p)
         \/ \E t \in tasks : Continues(t) \/ Records(t) \/ Retries(t) \/ Settles(t)
<1>1. /\ backend = "postgres" /\ cancels = {}
      /\ budget["dbError"] = 0 /\ budget["age"] = 0
      /\ budget["cancel"] = 0 /\ budget["supersede"] = 0
  BY DEF QuietInv, Undisturbed
<1>2. \A j \in Jobs : /\ ~Age(j)
                      /\ \A force \in BOOLEAN : ~CancelRead(j, force)
  BY <1>1 DEF Age, CancelRead, Spend
<1>3. \A p \in Procs : ~SelectUnlocked(p)
  BY <1>1 DEF SelectUnlocked, Spend
<1>4. \A j \in Jobs : ~IsStale(j)
  BY DEF IsStale, QuietInv, Undisturbed, Known, TypeOK, Row
<1>5. \A p \in Procs : ~ReclaimStale(p)
  BY <1>4 DEF ReclaimStale
<1> QED
  BY <1>1, <1>2, <1>3, <1>5, QuietRun DEF Next, PoolStep

\* A worker that starts in a quiet deployment finds no runs: it is alone.
LEMMA WorkerStartsAlone ==
  ASSUME Known, Quiet, NEW p \in Workers, Start(p)
  PROVE  tasks = {}
<1>1. \A t \in tasks : t.proc \in Procs /\ proc[t.proc] # "down"
  BY DEF Known, TypeOK, Task, DownIsIdle
<1>2. Procs = {p} /\ proc[p] = "down"
  BY DEF Quiet, Start
<1> QED
  BY <1>1, <1>2

LEMMA QuietStep == Known /\ Quiet /\ QuietInv /\ [Next]_vars => QuietInv'
<1> SUFFICES ASSUME Known, Quiet, QuietInv, [Next]_vars PROVE QuietInv'
  OBVIOUS
<1>n. /\ rows \in [Jobs -> Row] /\ stamp \in [Jobs -> Nat]
      /\ proc \in [Procs -> {"up", "stopped", "down"}]
      /\ budget \in [Events -> Nat]
      /\ backend = "postgres"
  BY DEF Known, TypeOK, QuietInv, Undisturbed
<1>t. ASSUME NEW t \in tasks
      PROVE  /\ t \in Task /\ t.job \in Jobs /\ t.proc \in Procs
             /\ Fine(t, rows[t.job])
  BY DEF Known, TypeOK, Task, QuietInv, InStep
\* Nobody runs a job that is absent or queued.
<1>q. ASSUME NEW t \in tasks
      PROVE  rows[t.job].status \notin {"absent", "queued"}
  BY <1>t DEF Fine
<1>d. ASSUME UNCHANGED <<backend, cancels, aged, budget>> PROVE Undisturbed'
  BY <1>d DEF QuietInv, Undisturbed
<1>s. ASSUME OneRunPerJob', InStep', Undisturbed' PROVE QuietInv'
  BY <1>s DEF QuietInv
<1>1. ASSUME NEW j \in Jobs, Create(j) PROVE QuietInv'
  <2>1. /\ tasks' = tasks /\ rows[j].status = "absent"
        /\ \A i \in Jobs \ {j} : rows'[i] = rows[i]
    BY <1>1, <1>n DEF Create
  <2>2. OneRunPerJob' /\ InStep'
    BY <1>q, <1>t, <2>1 DEF QuietInv, OneRunPerJob, InStep
  <2> QED
    BY <1>1, <1>d, <1>s, <2>2 DEF Create
<1>2. ASSUME NEW p \in Procs, Poll(p) \/ ClaimNone(p) PROVE QuietInv'
  BY <1>2, <1>d, <1>s
     DEF Poll, ClaimNone, queueVars, QuietInv, OneRunPerJob, InStep
<1>3. ASSUME NEW p \in Procs, ClaimLocked(p) PROVE QuietInv'
  <2> PICK j \in Jobs :
        /\ rows[j].status = "queued"
        /\ rows' = [rows EXCEPT ![j] = Claimed(@, stamp[j] + 1)]
        /\ tasks' = tasks \cup {NewRun(j, stamp[j] + 1, p)}
    BY <1>3 DEF ClaimLocked, NextQueued
  <2> DEFINE u == NewRun(j, stamp[j] + 1, p)
  <2>1. u.job = j /\ Fine(u, Claimed(rows[j], stamp[j] + 1))
    BY <1>n DEF NewRun, Fine, Claimed, Row
  <2>2. \A t \in tasks : t.job # j
    BY <1>q
  <2>3. tasks' = tasks \cup {u}
    OBVIOUS
  <2> HIDE DEF u
  <2>4. OneRunPerJob'
    BY <2>1, <2>2, <2>3 DEF QuietInv, OneRunPerJob
  <2>5. InStep'
    BY <1>n, <1>t, <2>1, <2>2, <2>3 DEF InStep
  <2> QED
    BY <1>3, <1>d, <1>s, <2>4, <2>5 DEF ClaimLocked
<1>4. ASSUME NEW t \in tasks, Continues(t) \/ Records(t) \/ Retries(t) \/ Settles(t)
      PROVE  QuietInv'
  <2> PICK u : /\ Goes(t, u)
               /\ (u.pc = "end" /\ u.body = "end") \/ Fine(u, rows'[t.job])
               /\ \A i \in Jobs \ {t.job} : rows'[i] = rows[i]
    BY <1>4, <1>n, <1>t DEF Continues, Records, Retries, Settles, Fine, Row
  <2>1. /\ tasks' = (tasks \ {t}) \cup
                    (IF u.pc = "end" /\ u.body = "end" THEN {} ELSE {u})
        /\ u.job = t.job
    BY DEF Goes, Becomes, SameRun
  <2>2. \A x \in tasks \ {t} : x.job # t.job /\ x.job \in Jobs
    BY <1>t DEF QuietInv, OneRunPerJob
  <2>3. OneRunPerJob'
    BY <2>1, <2>2 DEF QuietInv, OneRunPerJob
  <2>4. InStep'
    BY <1>t, <2>1, <2>2 DEF InStep
  <2> QED
    BY <1>d, <1>s, <2>3, <2>4 DEF Goes
<1>5. ASSUME NEW p \in Procs, Stop(p) PROVE QuietInv'
  <2>1. \A t \in tasks : /\ [t EXCEPT !.aborted = TRUE].job = t.job
                         /\ Fine([t EXCEPT !.aborted = TRUE], rows[t.job])
    BY <1>t DEF Fine, Task
  <2>2. rows' = rows /\ \A x \in tasks' : \E t \in tasks :
          x \in {t, [t EXCEPT !.aborted = TRUE]}
    BY <1>5 DEF Stop, queueVars
  <2>3. InStep'
    BY <1>t, <2>1, <2>2 DEF InStep
  <2> DEFINE told(t) == IF t.proc = p /\ t.n = active[p][t.job]
                          THEN [t EXCEPT !.aborted = TRUE] ELSE t
  <2>4. tasks' = {told(t) : t \in tasks}
    BY <1>5 DEF Stop
  <2>5. \A t \in tasks : told(t).job = t.job
    BY <2>1
  <2> HIDE DEF told
  <2>6. OneRunPerJob'
    BY <2>4, <2>5 DEF QuietInv, OneRunPerJob
  <2>7. Undisturbed'
    BY <1>5, <1>n DEF Stop, Spend, queueVars, QuietInv, Undisturbed, Events
  <2> QED
    BY <1>s, <2>3, <2>6, <2>7
<1>6. ASSUME NEW p \in Procs, Down(p) PROVE QuietInv'
  <2>1. tasks' \subseteq tasks /\ rows' = rows
    BY <1>6, <1>n DEF Down
  <2>2. OneRunPerJob' /\ InStep'
    BY <2>1 DEF QuietInv, OneRunPerJob, InStep
  <2>3. Undisturbed'
    BY <1>6, <1>n DEF Down, Spend, QuietInv, Undisturbed, Events
  <2> QED
    BY <1>s, <2>2, <2>3
<1>7. ASSUME NEW p \in Procs, Start(p) PROVE QuietInv'
  <2>1. CASE p \in Workers
    <3>1. tasks' = {}
      BY <1>7, <2>1, WorkerStartsAlone DEF Start
    <3>2. OneRunPerJob' /\ InStep'
      BY <3>1 DEF OneRunPerJob, InStep
    <3> QED
      BY <1>7, <1>d, <1>s, <3>2 DEF Start
  <2>2. CASE p \notin Workers
    <3>1. tasks' = tasks /\ rows' = rows
      BY <1>7, <1>n, <2>2 DEF Start
    <3>2. OneRunPerJob' /\ InStep'
      BY <3>1 DEF QuietInv, OneRunPerJob, InStep
    <3> QED
      BY <1>7, <1>d, <1>s, <3>2 DEF Start
  <2> QED
    BY <2>1, <2>2
<1>8. CASE UNCHANGED vars
  BY <1>8, <1>d, <1>s DEF vars, QuietInv, OneRunPerJob, InStep
<1> QED
  BY <1>1, <1>2, <1>3, <1>4, <1>5, <1>6, <1>7, <1>8, QuietNext

LEMMA KnownInvariant == Spec => []Known
<1>1. TypeOK /\ SnapshotsGood /\ OneRunPerClaim /\ DownIsIdle => Known
  BY DEF Known
<1> QED
  BY <1>1, TypeCorrect, SnapshotsAreGood, PoolInvariant, PTL

LEMMA QuietInvariant == ASSUME Quiet PROVE Spec => []QuietInv
<1>1. Init => QuietInv
  BY DEF Quiet, Init, QuietInv, Undisturbed, OneRunPerJob, InStep
<1>2. Known /\ QuietInv /\ [Next]_vars => QuietInv'
  BY QuietStep
<1> QED
  BY <1>1, <1>2, KnownInvariant, PTL DEF Spec

\* In a quiet deployment at most one body executes a job at any time, however
\* often processes die, are stopped and start again.
THEOREM JobsRunAlone == ASSUME Quiet PROVE Spec => []MutualExclusion
<1>1. QuietInv => MutualExclusion
  BY DEF QuietInv, OneRunPerJob, MutualExclusion
<1> QED
  BY <1>1, QuietInvariant, PTL

\* A run that has not ended owns its job's row.
THEOREM RunsOwnRows == ASSUME Quiet PROVE Spec => []RunsOwnTheirRow
<1>1. QuietInv => RunsOwnTheirRow
  BY DEF QuietInv, InStep, Fine, RunsOwnTheirRow
<1> QED
  BY <1>1, QuietInvariant, PTL

-----------------------------------------------------------------------------
(* Ended jobs *)

\* No step of a quiet deployment rewrites the row of a job that has ended.
LEMMA EndedStep ==
  ASSUME Known, Quiet, QuietInv, [Next]_vars, NEW j \in Jobs,
         rows[j].status \in Terminal
  PROVE  rows'[j] = rows[j]
<1>n. rows \in [Jobs -> Row] /\ backend = "postgres"
  BY DEF Known, TypeOK, QuietInv, Undisturbed
<1>t. ASSUME NEW t \in tasks PROVE t.job \in Jobs /\ Fine(t, rows[t.job])
  BY DEF Known, TypeOK, Task, QuietInv, InStep
<1>1. ASSUME NEW i \in Jobs, Create(i) PROVE rows'[j] = rows[j]
  BY <1>1, <1>n DEF Create, Terminal
<1>2. ASSUME NEW p \in Procs, Poll(p) \/ ClaimNone(p) \/ Stop(p) \/ Down(p)
      PROVE  rows'[j] = rows[j]
  BY <1>2, <1>n DEF Poll, ClaimNone, Stop, Down, queueVars
<1>3. ASSUME NEW p \in Procs, ClaimLocked(p) PROVE rows'[j] = rows[j]
  BY <1>3, <1>n DEF ClaimLocked, NextQueued, Terminal
<1>4. ASSUME NEW t \in tasks, Continues(t) \/ Records(t) \/ Retries(t) \/ Settles(t)
      PROVE  rows'[j] = rows[j]
  <2>1. t.pc # "store" => rows[t.job].status = "running"
    BY <1>t DEF Fine
  <2>2. CASE Continues(t) \/ Settles(t)
    BY <2>2 DEF Continues, Settles
  <2>3. CASE Records(t) \/ Retries(t)
    BY <1>n, <1>t, <2>1, <2>3 DEF Records, Retries, Terminal
  <2> QED
    BY <1>4, <2>2, <2>3
<1>5. ASSUME NEW p \in Procs, Start(p) PROVE rows'[j] = rows[j]
  BY <1>5, <1>n DEF Start, Terminal
<1>6. CASE UNCHANGED vars
  BY <1>6 DEF vars
<1> QED
  BY <1>1, <1>2, <1>3, <1>4, <1>5, <1>6, QuietNext

\* In a quiet deployment no late report, retry timer or recovery changes a job
\* that has ended.
THEOREM EndedJobsStay == ASSUME Quiet PROVE Spec => EndedStaysEnded
<1>1. Known /\ QuietInv /\ [Next]_vars
        => [\A j \in Jobs : rows[j].status \in Terminal => rows'[j] = rows[j]]_vars
  BY EndedStep
<1> QED
  BY <1>1, KnownInvariant, QuietInvariant, PTL DEF Spec, EndedStaysEnded

-----------------------------------------------------------------------------
(* Stranded jobs *)

LEMMA StrandedStep ==
  ASSUME Known, Quiet, Workers # {}, QuietInv, NoStrandedJob, [Next]_vars
  PROVE  NoStrandedJob'
<1> PICK w \in Workers : Procs = {w}
  BY DEF Quiet
<1>n. /\ rows \in [Jobs -> Row] /\ stamp \in [Jobs -> Nat]
      /\ proc \in [Procs -> {"up", "stopped", "down"}]
      /\ backend = "postgres"
  BY DEF Known, TypeOK, QuietInv, Undisturbed
<1>t. ASSUME NEW t \in tasks
      PROVE  t.job \in Jobs /\ t \in Task /\ Fine(t, rows[t.job])
  BY DEF Known, TypeOK, Task, QuietInv, InStep
<1>w. NoStrandedJob <=>
        (proc[w] # "down" =>
           \A j \in Jobs : rows[j].status = "running" =>
             \E t \in tasks : t.job = j /\ t.n = rows[j].claim)
  BY DEF NoStrandedJob
<1>s. ASSUME proc'[w] # "down" =>
               \A j \in Jobs : rows'[j].status = "running" =>
                 \E t \in tasks' : t.job = j /\ t.n = rows'[j].claim
      PROVE  NoStrandedJob'
  BY <1>s DEF NoStrandedJob
<1>1. ASSUME NEW j \in Jobs, Create(j) PROVE NoStrandedJob'
  BY <1>1, <1>n, <1>s, <1>w DEF Create, Row
<1>2. ASSUME NEW p \in Procs, Poll(p) \/ ClaimNone(p) PROVE NoStrandedJob'
  BY <1>2, <1>s, <1>w DEF Poll, ClaimNone, queueVars
<1>3. ASSUME NEW p \in Procs, ClaimLocked(p) PROVE NoStrandedJob'
  <2> PICK j \in Jobs :
        /\ rows' = [rows EXCEPT ![j] = Claimed(@, stamp[j] + 1)]
        /\ tasks' = tasks \cup {NewRun(j, stamp[j] + 1, p)}
    BY <1>3 DEF ClaimLocked
  <2>1. /\ NewRun(j, stamp[j] + 1, p).job = j
        /\ NewRun(j, stamp[j] + 1, p).n = stamp[j] + 1
        /\ Claimed(rows[j], stamp[j] + 1).claim = stamp[j] + 1
    BY <1>n DEF NewRun, Claimed, Row
  <2>2. proc' = proc /\ \A i \in Jobs \ {j} : rows'[i] = rows[i]
    BY <1>3, <1>n DEF ClaimLocked
  <2> QED
    BY <1>n, <1>s, <1>w, <2>1, <2>2
<1>4. ASSUME NEW t \in tasks, Continues(t) \/ Records(t) \/ Retries(t) \/ Settles(t)
      PROVE  NoStrandedJob'
  <2> PICK u : /\ Goes(t, u)
               /\ \/ rows'[t.job].status # "running"
                  \/ rows'[t.job] = rows[t.job] /\ u.pc # "end"
               /\ \A i \in Jobs \ {t.job} : rows'[i] = rows[i]
    <3>1. CASE Continues(t)
      BY <3>1 DEF Continues, Fine
    <3>2. CASE Records(t) \/ Retries(t)
      <4>1. /\ \A s : [rows[t.job] EXCEPT !.status = s].status = s
            /\ Requeued(rows[t.job]).status = "queued"
        BY <1>n, <1>t DEF Requeued, Row
      <4> QED
        BY <1>n, <1>t, <3>2, <4>1 DEF Records, Retries
    <3>3. CASE Settles(t)
      BY <1>t, <3>3 DEF Settles, Fine
    <3> QED
      BY <1>4, <3>1, <3>2, <3>3
  <2>1. /\ tasks' = (tasks \ {t}) \cup
                    (IF u.pc = "end" /\ u.body = "end" THEN {} ELSE {u})
        /\ u.job = t.job /\ u.n = t.n /\ proc' = proc
    BY DEF Goes, Becomes, SameRun
  <2>2. ASSUME proc[w] # "down", NEW j \in Jobs, rows'[j].status = "running"
        PROVE  \E x \in tasks' : x.job = j /\ x.n = rows'[j].claim
    <3>1. rows'[j] = rows[j] /\ (j = t.job => u.pc # "end")
      BY <2>2
    <3>2. PICK x \in tasks : x.job = j /\ x.n = rows[j].claim
      BY <1>w, <2>2, <3>1
    <3>3. CASE x = t
      BY <2>1, <3>1, <3>2, <3>3
    <3>4. CASE x # t
      BY <2>1, <3>1, <3>2, <3>4
    <3> QED
      BY <3>3, <3>4
  <2> QED
    BY <1>s, <2>1, <2>2
<1>5. ASSUME NEW p \in Procs, Stop(p) PROVE NoStrandedJob'
  <2>1. rows' = rows /\ proc[w] # "down"
    BY <1>5, <1>n DEF Stop, queueVars
  <2> DEFINE told(t) == IF t.proc = p /\ t.n = active[p][t.job]
                          THEN [t EXCEPT !.aborted = TRUE] ELSE t
  <2>3. tasks' = {told(t) : t \in tasks}
    BY <1>5 DEF Stop
  <2>4. \A t \in tasks : told(t).job = t.job /\ told(t).n = t.n
    BY <1>t DEF Task
  <2> HIDE DEF told
  <2>2. \A t \in tasks : \E x \in tasks' : x.job = t.job /\ x.n = t.n
    BY <2>3, <2>4
  <2> QED
    BY <1>s, <1>w, <2>1, <2>2
<1>6. ASSUME NEW p \in Procs, Down(p) PROVE NoStrandedJob'
  <2>1. proc'[w] = "down"
    BY <1>6, <1>n DEF Down
  <2> QED
    BY <1>s, <2>1
<1>7. ASSUME NEW p \in Procs, Start(p) PROVE NoStrandedJob'
  <2>1. \A j \in Jobs : rows'[j].status # "running"
    BY <1>7, <1>n DEF Start, Reclaimed, Row
  <2> QED
    BY <1>s, <2>1
<1>8. CASE UNCHANGED vars
  BY <1>8, <1>s, <1>w DEF vars
<1> QED
  BY <1>1, <1>2, <1>3, <1>4, <1>5, <1>6, <1>7, <1>8, QuietNext

\* In a quiet deployment with a worker a job is never left running with nobody
\* to finish it.  (Without one nothing is reclaimed, and it would be.)
THEOREM NoJobIsStranded ==
  ASSUME Quiet, Workers # {} PROVE Spec => []NoStrandedJob
<1>1. Init => NoStrandedJob
  BY DEF Init, NoStrandedJob, NoRow
<1>2. Known /\ QuietInv /\ NoStrandedJob /\ [Next]_vars => NoStrandedJob'
  BY StrandedStep
<1> QED
  BY <1>1, <1>2, KnownInvariant, QuietInvariant, PTL DEF Spec

-----------------------------------------------------------------------------
(* Claims *)

\* Crashes and shutdowns so far.
Ends == (Budget["crash"] - budget["crash"]) + (Budget["stop"] - budget["stop"])

\* A crash or shutdown of the worker that its next start has yet to make up
\* for by requeueing.
Owed == IF \E w \in Workers : proc[w] # "up" THEN 1 ELSE 0

Waiting(row) == row.status \in {"absent", "queued"}

\* What makes ClaimsAccounted inductive: a job that waits has not used up what
\* its retries and the ends of processes account for, and while its worker is
\* away neither has one that does not wait, because it may be requeued.
Accounted ==
  /\ budget["crash"] <= Budget["crash"] /\ budget["stop"] <= Budget["stop"]
  /\ \A w \in Workers : proc[w] = "stopped" => Ends > 0
  /\ \A j \in Jobs :
       IF Waiting(rows[j])
       THEN stamp[j] = 0 \/ stamp[j] + Owed <= rows[j].retry + Ends
       ELSE stamp[j] + Owed <= 1 + rows[j].retry + Ends

LEMMA AccountedStep ==
  ASSUME Known, Quiet, QuietInv, Accounted, [Next]_vars
  PROVE  Accounted'
<1>n. /\ rows \in [Jobs -> Row] /\ stamp \in [Jobs -> Nat]
      /\ proc \in [Procs -> {"up", "stopped", "down"}]
      /\ budget \in [Events -> Nat] /\ Budget \in [Events -> Nat]
      /\ backend = "postgres"
  BY BudgetAssumption DEF Known, TypeOK, QuietInv, Undisturbed
<1>b. /\ budget["crash"] \in Nat /\ Budget["crash"] \in Nat
      /\ budget["stop"] \in Nat /\ Budget["stop"] \in Nat
      /\ budget["crash"] <= Budget["crash"] /\ budget["stop"] <= Budget["stop"]
      /\ Ends \in Nat
  BY <1>n DEF Events, Ends, Accounted
<1>o. Owed \in {0, 1}
  BY DEF Owed
<1>j. ASSUME NEW j \in Jobs
      PROVE  /\ stamp[j] \in Nat /\ rows[j] \in Row /\ rows[j].retry \in Nat
             /\ Waiting(rows[j]) =>
                  stamp[j] = 0 \/ stamp[j] + Owed <= rows[j].retry + Ends
             /\ ~Waiting(rows[j]) => stamp[j] + Owed <= 1 + rows[j].retry + Ends
  BY <1>n DEF Accounted, Row
<1>t. ASSUME NEW t \in tasks
      PROVE  t.job \in Jobs /\ t \in Task /\ Fine(t, rows[t.job])
  BY DEF Known, TypeOK, Task, QuietInv, InStep
<1>w. ASSUME NEW w \in Workers PROVE w \in Procs /\ Procs = {w}
  BY ProcsAssumption DEF Quiet
\* What most steps leave alone.
<1>k. ASSUME UNCHANGED <<proc, budget>>
      PROVE  /\ Ends' = Ends /\ Owed' = Owed
             /\ budget'["crash"] <= Budget["crash"] /\ budget'["stop"] <= Budget["stop"]
             /\ \A v \in Workers : proc'[v] = "stopped" => Ends' > 0
  BY <1>k DEF Ends, Owed, Accounted
<1>1. ASSUME NEW j \in Jobs, Create(j) PROVE Accounted'
  <2>1. \A i \in Jobs : /\ Waiting(rows'[i]) = Waiting(rows[i])
                        /\ rows'[i].retry = rows[i].retry
    BY <1>1, <1>n DEF Create, Waiting, Row
  <2>2. UNCHANGED <<stamp, proc, budget>>
    BY <1>1 DEF Create
  <2> QED
    BY <1>j, <1>k, <2>1, <2>2 DEF Accounted
<1>2. ASSUME NEW p \in Procs, Poll(p) \/ ClaimNone(p) PROVE Accounted'
  <2>1. UNCHANGED <<rows, stamp, proc, budget>>
    BY <1>2 DEF Poll, ClaimNone, queueVars
  <2> QED
    BY <1>j, <1>k, <2>1 DEF Accounted
<1>3. ASSUME NEW p \in Procs, ClaimLocked(p) PROVE Accounted'
  <2> PICK j \in Jobs :
        /\ rows[j].status = "queued"
        /\ rows' = [rows EXCEPT ![j] = Claimed(@, stamp[j] + 1)]
        /\ stamp' = [stamp EXCEPT ![j] = stamp[j] + 1]
    BY <1>3 DEF ClaimLocked, NextQueued
  <2>0. UNCHANGED <<proc, budget>> /\ proc[p] # "down"
    BY <1>3 DEF ClaimLocked, Known, DownIsIdle
  <2>1. /\ Waiting(rows[j]) /\ ~Waiting(rows'[j])
        /\ rows'[j].retry = rows[j].retry
    BY <1>n DEF Waiting, Claimed, Row
  <2>2. Owed <= Ends
    <3>1. CASE Owed = 0
      BY <1>b, <3>1
    <3>2. CASE Owed # 0
      <4> PICK w \in Workers : proc[w] # "up"
        BY <3>2 DEF Owed
      <4>1. proc[w] = "stopped"
        BY <1>n, <1>w, <2>0
      <4> QED
        BY <1>b, <1>o, <4>1 DEF Accounted
    <3> QED
      BY <3>1, <3>2
  <2>3. stamp'[j] + Owed' <= 1 + rows'[j].retry + Ends'
    <3>1. stamp'[j] = stamp[j] + 1 /\ Owed' = Owed /\ Ends' = Ends
      BY <1>k, <1>n, <2>0
    <3> QED
      BY <1>b, <1>j, <1>o, <2>1, <2>2, <3>1
  <2>4. \A i \in Jobs \ {j} : rows'[i] = rows[i] /\ stamp'[i] = stamp[i]
    BY <1>n
  <2> QED
    BY <1>j, <1>k, <2>0, <2>1, <2>3, <2>4 DEF Accounted
<1>4. ASSUME NEW t \in tasks, Continues(t) \/ Records(t) \/ Retries(t) \/ Settles(t)
      PROVE  Accounted'
  <2>0. UNCHANGED <<stamp, proc, budget>>
    BY <1>4 DEF Continues, Records, Retries, Settles, Goes
  <2>1. ~Waiting(rows[t.job])
    BY <1>t DEF Fine, Waiting
  <2>2. \A i \in Jobs \ {t.job} : rows'[i] = rows[i]
    BY <1>4, <1>n, <1>t DEF Continues, Records, Retries, Settles
  <2>3. IF Waiting(rows'[t.job]) THEN rows'[t.job].retry = rows[t.job].retry + 1
                                 ELSE rows'[t.job].retry = rows[t.job].retry
    <3>1. CASE Continues(t) \/ Settles(t)
      BY <2>1, <3>1 DEF Continues, Settles
    <3>2. CASE Records(t)
      <4>1. \A s \in {"completed", "failed"} :
              /\ ~Waiting([rows[t.job] EXCEPT !.status = s])
              /\ [rows[t.job] EXCEPT !.status = s].retry = rows[t.job].retry
        BY <1>n, <1>t DEF Waiting, Row
      <4> QED
        BY <1>n, <1>t, <3>2, <4>1 DEF Records
    <3>3. CASE Retries(t)
      <4>1. /\ Waiting(Requeued(rows[t.job]))
            /\ Requeued(rows[t.job]).retry = rows[t.job].retry + 1
        BY <1>n, <1>t DEF Waiting, Requeued, Row
      <4> QED
        BY <1>n, <1>t, <3>3, <4>1 DEF Retries
    <3> QED
      BY <1>4, <3>1, <3>2, <3>3
  <2>4. IF Waiting(rows'[t.job])
        THEN stamp[t.job] + Owed <= rows'[t.job].retry + Ends
        ELSE stamp[t.job] + Owed <= 1 + rows'[t.job].retry + Ends
    BY <1>b, <1>j, <1>o, <1>t, <2>1, <2>3
  <2> QED
    BY <1>j, <1>k, <2>0, <2>2, <2>4 DEF Accounted
\* The end of a process pays for what its next start requeues.
<1>e. ASSUME NEW p \in Procs, UNCHANGED <<rows, stamp>>,
             \A q \in Procs \ {p} : proc'[q] = proc[q], proc'[p] # "up",
             \/ Ends' = Ends + 1
             \/ Ends' = Ends /\ proc[p] = "stopped" /\ proc'[p] = "down",
             budget'["crash"] <= Budget["crash"], budget'["stop"] <= Budget["stop"]
      PROVE  Accounted'
  <2>1. Owed' + Ends <= Owed + Ends'
    <3>1. CASE Workers = {}
      BY <1>b, <1>e, <3>1 DEF Owed
    <3>2. CASE Workers # {}
      <4>1. p \in Workers
        BY <1>w, <3>2
      <4>2. Owed' = 1 /\ (proc[p] = "stopped" => Owed = 1)
        BY <1>e, <1>n, <4>1 DEF Owed
      <4> QED
        BY <1>b, <1>e, <1>o, <4>2
    <3> QED
      BY <3>1, <3>2
  <2>2. Ends' \in Nat /\ Owed' \in {0, 1}
    BY <1>b, <1>e DEF Owed
  <2>3. \A v \in Workers : proc'[v] = "stopped" => Ends' > 0
    BY <1>b, <1>e, <1>w
  <2>4. ASSUME NEW j \in Jobs
        PROVE  /\ Waiting(rows[j]) =>
                    stamp[j] = 0 \/ stamp[j] + Owed' <= rows[j].retry + Ends'
               /\ ~Waiting(rows[j]) =>
                    stamp[j] + Owed' <= 1 + rows[j].retry + Ends'
    <3>0. /\ stamp[j] \in Nat /\ rows[j].retry \in Nat
          /\ Ends \in Nat /\ Owed \in Int /\ Ends' \in Nat /\ Owed' \in Int
      BY <1>b, <1>j, <1>o, <2>2
    <3>1. ASSUME NEW r \in Nat, stamp[j] + Owed <= r + Ends
          PROVE  stamp[j] + Owed' <= r + Ends'
      BY <2>1, <3>0, <3>1
    <3> QED
      BY <1>j, <3>0, <3>1
  <2>5. rows' = rows /\ stamp' = stamp
    BY <1>e
  <2>6. \A j \in Jobs :
          IF Waiting(rows'[j])
          THEN stamp'[j] = 0 \/ stamp'[j] + Owed' <= rows'[j].retry + Ends'
          ELSE stamp'[j] + Owed' <= 1 + rows'[j].retry + Ends'
    <3> SUFFICES ASSUME NEW j \in Jobs
                 PROVE  IF Waiting(rows[j])
                        THEN stamp[j] = 0 \/ stamp[j] + Owed' <= rows[j].retry + Ends'
                        ELSE stamp[j] + Owed' <= 1 + rows[j].retry + Ends'
      BY <2>5
    <3> QED
      BY <2>4
  <2> QED
    BY <1>e, <2>3, <2>6 DEF Accounted
<1>5. ASSUME NEW p \in Procs, Stop(p) PROVE Accounted'
  <2>1. /\ budget'["stop"] = budget["stop"] - 1
        /\ budget'["crash"] = budget["crash"]
    BY <1>5, <1>n DEF Stop, Spend, Events
  <2>2. Ends' = Ends + 1
    BY <1>b, <2>1 DEF Ends
  <2>3. UNCHANGED <<rows, stamp>> /\ proc'[p] # "up"
        /\ \A q \in Procs \ {p} : proc'[q] = proc[q]
    BY <1>5, <1>n DEF Stop, queueVars
  <2>4. budget'["crash"] <= Budget["crash"] /\ budget'["stop"] <= Budget["stop"]
    BY <1>b, <2>1
  <2> QED
    BY <1>e, <2>2, <2>3, <2>4
<1>6. ASSUME NEW p \in Procs, Down(p) PROVE Accounted'
  <2>0. UNCHANGED <<rows, stamp>> /\ proc'[p] = "down"
        /\ \A q \in Procs \ {p} : proc'[q] = proc[q]
    BY <1>6, <1>n DEF Down
  <2>1. CASE proc[p] = "stopped" /\ UNCHANGED budget
    <3>1. Ends' = Ends
      BY <2>1 DEF Ends
    <3> QED
      BY <1>b, <1>e, <2>0, <2>1, <3>1
  <2>2. CASE Spend("crash")
    <3>1. /\ budget'["crash"] = budget["crash"] - 1
          /\ budget'["stop"] = budget["stop"]
      BY <1>n, <2>2 DEF Spend, Events
    <3>2. Ends' = Ends + 1
      BY <1>b, <3>1 DEF Ends
    <3>3. budget'["crash"] <= Budget["crash"] /\ budget'["stop"] <= Budget["stop"]
      BY <1>b, <3>1
    <3> QED
      BY <1>e, <2>0, <3>2, <3>3
  <2> QED
    BY <1>6, <2>1, <2>2 DEF Down
<1>7. ASSUME NEW p \in Procs, Start(p) PROVE Accounted'
  <2>0. Ends' = Ends /\ UNCHANGED <<stamp, budget>>
    BY <1>7 DEF Start, Ends
  <2>1. \A v \in Workers : proc'[v] = "up"
    BY <1>7, <1>n, <1>w DEF Start
  <2>2. Owed' = 0
    BY <2>1 DEF Owed
  <2>3. CASE p \in Workers
    <3>1. Owed = 1
      BY <1>7, <2>3 DEF Owed, Start
    <3>2. ASSUME NEW j \in Jobs
          PROVE  /\ rows'[j].retry = rows[j].retry
                 /\ Waiting(rows[j]) => Waiting(rows'[j])
      BY <1>7, <1>n DEF Start, Reclaimed, Row, Waiting
    <3> QED
      BY <1>b, <1>j, <2>0, <2>1, <2>2, <3>1, <3>2 DEF Accounted
  <2>4. CASE p \notin Workers
    <3>1. rows' = rows
      BY <1>7, <1>n, <2>4 DEF Start
    <3> QED
      BY <1>b, <1>j, <1>o, <2>0, <2>1, <2>2, <3>1 DEF Accounted
  <2> QED
    BY <2>3, <2>4
<1>8. CASE UNCHANGED vars
  <2>1. UNCHANGED <<rows, stamp, proc, budget>>
    BY <1>8 DEF vars
  <2> QED
    BY <1>j, <1>k, <2>1 DEF Accounted
<1> QED
  BY <1>1, <1>2, <1>3, <1>4, <1>5, <1>6, <1>7, <1>8, QuietNext

\* In a quiet deployment a job is claimed once, and once more per counted retry
\* and per crash or shutdown.
THEOREM ClaimsAreAccounted == ASSUME Quiet PROVE Spec => []ClaimsAccounted
<1>1. Init => Accounted
  <2> SUFFICES ASSUME Init PROVE Accounted
    OBVIOUS
  <2>1. Budget["crash"] \in Nat /\ Budget["stop"] \in Nat /\ budget = Budget
    BY BudgetAssumption DEF Init, Events
  <2>2. \A w \in Workers : proc[w] = "down"
    BY ProcsAssumption DEF Init
  <2>3. \A j \in Jobs : Waiting(rows[j]) /\ stamp[j] = 0
    BY DEF Init, Waiting, NoRow
  <2> QED
    BY <2>1, <2>2, <2>3 DEF Accounted
<1>2. Known /\ QuietInv /\ Accounted /\ [Next]_vars => Accounted'
  BY AccountedStep
<1>3. Known /\ Accounted => ClaimsAccounted
  <2> SUFFICES ASSUME Known, Accounted, NEW j \in Jobs
               PROVE  stamp[j] <= 1 + rows[j].retry
                                    + (Budget["crash"] - budget["crash"])
                                    + (Budget["stop"] - budget["stop"])
    BY DEF ClaimsAccounted
  <2>1. /\ stamp[j] \in Nat /\ rows[j].retry \in Nat
        /\ budget["crash"] \in Nat /\ Budget["crash"] \in Nat
        /\ budget["stop"] \in Nat /\ Budget["stop"] \in Nat
    BY BudgetAssumption DEF Known, TypeOK, Row, Events
  <2>2. Ends \in Nat /\ Owed \in {0, 1}
    BY <2>1 DEF Accounted, Ends, Owed
  <2>3. stamp[j] <= 1 + rows[j].retry + Ends
    BY <2>1, <2>2 DEF Accounted
  <2> QED
    BY <2>1, <2>3 DEF Ends
<1> QED
  BY <1>1, <1>2, <1>3, KnownInvariant, QuietInvariant, PTL DEF Spec

-----------------------------------------------------------------------------
(* Refinement *)

\* The refinement mapping of JobQueue.
Status == [j \in Jobs |-> rows[j].status]
Busy == {j \in Jobs : \E t \in OfJob(j) : t.body # "end"}

\* The steps of JobLifecycle, in terms of the mapping.
LEMMA LifecycleSteps ==
  /\ Status' = Status /\ Busy' = Busy => UNCHANGED Lifecycle!vars
  /\ \A j \in Jobs :
       Status[j] = "absent" /\ Status' = [Status EXCEPT ![j] = "queued"]
         /\ Busy' = Busy => Lifecycle!Next
  /\ \A j \in Jobs :
       Status[j] = "queued" /\ j \notin Busy
         /\ Status' = [Status EXCEPT ![j] = "running"]
         /\ Busy' = Busy \cup {j} => Lifecycle!Next
  /\ \A S \in SUBSET Jobs :
       Status' = Status /\ Busy' = Busy \ S => Lifecycle!Next
  /\ \A j \in Jobs, s \in {"completed", "failed"} :
       Status[j] = "running" /\ j \notin Busy
         /\ Status' = [Status EXCEPT ![j] = s] /\ Busy' = Busy => Lifecycle!Next
  /\ \A S \in SUBSET Jobs :
       (\A j \in S : Status[j] = "running" /\ j \notin Busy)
         /\ Status' = [j \in Jobs |-> IF j \in S THEN "queued" ELSE Status[j]]
         /\ Busy' = Busy => Lifecycle!Next
<1>1. Status' = Status /\ Busy' = Busy => UNCHANGED Lifecycle!vars
  BY DEF Lifecycle!vars, Status, Busy
<1>2. ASSUME NEW j \in Jobs, Status[j] = "absent",
             Status' = [Status EXCEPT ![j] = "queued"], Busy' = Busy
      PROVE  Lifecycle!Next
  <2>1. Lifecycle!Submit(j)
    BY <1>2 DEF Lifecycle!Submit, Status, Busy
  <2> QED
    BY <2>1 DEF Lifecycle!Next
<1>3. ASSUME NEW j \in Jobs, Status[j] = "queued", j \notin Busy,
             Status' = [Status EXCEPT ![j] = "running"], Busy' = Busy \cup {j}
      PROVE  Lifecycle!Next
  <2>1. Lifecycle!Take(j)
    BY <1>3 DEF Lifecycle!Take, Status, Busy
  <2> QED
    BY <2>1 DEF Lifecycle!Next
<1>4. ASSUME NEW S \in SUBSET Jobs, Status' = Status, Busy' = Busy \ S
      PROVE  Lifecycle!Next
  <2>1. Lifecycle!Leave(S)
    BY <1>4 DEF Lifecycle!Leave, Status, Busy
  <2> QED
    BY <2>1 DEF Lifecycle!Next
<1>5. ASSUME NEW j \in Jobs, NEW s \in {"completed", "failed"},
             Status[j] = "running", j \notin Busy,
             Status' = [Status EXCEPT ![j] = s], Busy' = Busy
      PROVE  Lifecycle!Next
  <2>1. Lifecycle!End(j)
    BY <1>5 DEF Lifecycle!End, Status, Busy
  <2> QED
    BY <2>1 DEF Lifecycle!Next
<1>6. ASSUME NEW S \in SUBSET Jobs, \A j \in S : Status[j] = "running" /\ j \notin Busy,
             Status' = [j \in Jobs |-> IF j \in S THEN "queued" ELSE Status[j]],
             Busy' = Busy
      PROVE  Lifecycle!Next
  <2>1. Lifecycle!Return(S)
    BY <1>6 DEF Lifecycle!Return, Status, Busy
  <2> QED
    BY <2>1 DEF Lifecycle!Next
<1> QED
  BY <1>1, <1>2, <1>3, <1>4, <1>5, <1>6

\* How a step of a run changes what is busy.
LEMMA BusyMoves ==
  ASSUME Known, QuietInv, NEW t \in tasks, NEW u, Goes(t, u)
  PROVE  /\ t.body = "end" => t.job \notin Busy
         /\ t.body # "end" => t.job \in Busy
         /\ u.body = t.body => Busy' = Busy
         /\ u.body # "end" /\ t.body # "end" => Busy' = Busy
         /\ u.body = "end" => Busy' = Busy \ {t.job}
<1>1. t.job \in Jobs /\ \A x \in tasks \ {t} : x.job # t.job
  BY DEF Known, TypeOK, Task, QuietInv, OneRunPerJob
<1>2. /\ u.job = t.job
      /\ tasks' = (tasks \ {t}) \cup
                  (IF u.pc = "end" /\ u.body = "end" THEN {} ELSE {u})
  BY DEF Goes, SameRun, Becomes
<1>3. ASSUME NEW j \in Jobs \ {t.job} PROVE j \in Busy' <=> j \in Busy
  <2>1. OfJob(j)' = OfJob(j)
    BY <1>2 DEF OfJob
  <2> QED
    BY <2>1 DEF Busy
<1>4. t.job \in Busy <=> t.body # "end"
  BY <1>1 DEF Busy, OfJob
<1>5. t.job \in Busy' <=> u.body # "end"
  BY <1>1, <1>2 DEF Busy, OfJob
<1>6. Busy \subseteq Jobs /\ Busy' \subseteq Jobs
  BY DEF Busy
<1> QED
  BY <1>1, <1>3, <1>4, <1>5, <1>6

LEMMA LifecycleStep ==
  ASSUME Known, Quiet, QuietInv, [Next]_vars
  PROVE  [Lifecycle!Next]_(Lifecycle!vars)
<1>n. /\ rows \in [Jobs -> Row] /\ stamp \in [Jobs -> Nat]
      /\ backend = "postgres"
  BY DEF Known, TypeOK, QuietInv, Undisturbed
<1>t. ASSUME NEW t \in tasks
      PROVE  t.job \in Jobs /\ t \in Task /\ Fine(t, rows[t.job])
  BY DEF Known, TypeOK, Task, QuietInv, InStep
<1>r. rows' = rows => Status' = Status
  BY DEF Status
<1>u. tasks' = tasks => Busy' = Busy
  BY DEF Busy, OfJob
<1>1. ASSUME NEW j \in Jobs, Create(j) PROVE Lifecycle!Next
  <2>1. Status[j] = "absent" /\ Status' = [Status EXCEPT ![j] = "queued"]
    BY <1>1, <1>n DEF Create, Status, Row
  <2> QED
    BY <1>1, <1>u, <2>1, LifecycleSteps DEF Create
<1>2. ASSUME NEW p \in Procs, Poll(p) \/ ClaimNone(p)
      PROVE  UNCHANGED Lifecycle!vars
  BY <1>2, <1>r, <1>u, LifecycleSteps DEF Poll, ClaimNone, queueVars
<1>3. ASSUME NEW p \in Procs, ClaimLocked(p) PROVE Lifecycle!Next
  <2> PICK j \in Jobs :
        /\ rows[j].status = "queued"
        /\ rows' = [rows EXCEPT ![j] = Claimed(@, stamp[j] + 1)]
        /\ tasks' = tasks \cup {NewRun(j, stamp[j] + 1, p)}
    BY <1>3 DEF ClaimLocked, NextQueued
  <2>1. Status[j] = "queued" /\ Status' = [Status EXCEPT ![j] = "running"]
    BY <1>n DEF Status, Claimed, Row
  <2>2. NewRun(j, stamp[j] + 1, p).job = j /\ NewRun(j, stamp[j] + 1, p).body = "get"
    BY DEF NewRun
  <2>3. j \notin Busy
    BY <1>t DEF Busy, OfJob, Fine
  <2>4. Busy' = Busy \cup {j}
    BY <2>2 DEF Busy, OfJob
  <2> QED
    BY <2>1, <2>3, <2>4, LifecycleSteps
<1>4. ASSUME NEW t \in tasks, Continues(t)
      PROVE  Lifecycle!Next \/ UNCHANGED Lifecycle!vars
  <2> PICK u : Goes(t, u) /\ rows' = rows /\ (t.body = "end" => u.body = "end")
    BY <1>4 DEF Continues
  <2>1. CASE u.body = "end"
    <3>1. {t.job} \in SUBSET Jobs /\ Busy' = Busy \ {t.job}
      BY <1>t, <2>1, BusyMoves
    <3> QED
      BY <1>r, <3>1, LifecycleSteps
  <2>2. CASE u.body # "end"
    <3>1. Busy' = Busy
      BY <2>2, BusyMoves
    <3> QED
      BY <1>r, <3>1, LifecycleSteps
  <2> QED
    BY <2>1, <2>2
<1>5. ASSUME NEW t \in tasks, Records(t) PROVE Lifecycle!Next
  <2> PICK u, s :
        /\ s \in {"completed", "failed"}
        /\ Goes(t, u) /\ t.body = "end" /\ u.body = "end" /\ t.pc # "store"
        /\ rows' = [rows EXCEPT ![t.job] = [@ EXCEPT !.status = s]]
    BY <1>5 DEF Records
  <2>1. /\ Status[t.job] = "running"
        /\ Status' = [Status EXCEPT ![t.job] = s]
    BY <1>n, <1>t DEF Status, Fine, Row
  <2>2. t.job \notin Busy /\ Busy' = Busy
    BY BusyMoves
  <2> QED
    BY <1>t, <2>1, <2>2, LifecycleSteps
<1>6. ASSUME NEW t \in tasks, Retries(t) PROVE Lifecycle!Next
  <2> PICK u :
        /\ Goes(t, u) /\ t.body = "end" /\ u.body = "end" /\ t.pc # "store"
        /\ rows' = [rows EXCEPT ![t.job] = Requeued(@)]
    BY <1>6 DEF Retries
  <2>1. /\ Status[t.job] = "running"
        /\ Status' = [j \in Jobs |-> IF j \in {t.job} THEN "queued" ELSE Status[j]]
    BY <1>n, <1>t DEF Status, Fine, Row, Requeued
  <2>2. t.job \notin Busy /\ Busy' = Busy
    BY BusyMoves
  <2>3. {t.job} \in SUBSET Jobs
    BY <1>t
  <2> QED
    BY <2>1, <2>2, <2>3, LifecycleSteps
<1>7. ASSUME NEW t \in tasks, Settles(t) PROVE UNCHANGED Lifecycle!vars
  <2> PICK u : Goes(t, u) /\ rows' = rows /\ t.pc = "store" /\ u.body = "end"
    BY <1>7 DEF Settles
  <2>1. t.body = "end"
    BY <1>t DEF Fine
  <2>2. Busy' = Busy
    BY <2>1, BusyMoves
  <2> QED
    BY <1>r, <2>2, LifecycleSteps
<1>8. ASSUME NEW p \in Procs, Stop(p) PROVE UNCHANGED Lifecycle!vars
  <2> DEFINE told(t) == IF t.proc = p /\ t.n = active[p][t.job]
                          THEN [t EXCEPT !.aborted = TRUE] ELSE t
  <2>1. tasks' = {told(t) : t \in tasks}
    BY <1>8 DEF Stop
  <2>2. \A t \in tasks : told(t).job = t.job /\ told(t).body = t.body
    BY <1>t DEF Task
  <2> HIDE DEF told
  <2>3. Busy' = Busy
    BY <2>1, <2>2 DEF Busy, OfJob
  <2> QED
    BY <1>8, <1>r, <2>3, LifecycleSteps DEF Stop, queueVars
\* The jobs whose body dies with the process.
<1>9. ASSUME NEW p \in Procs, Down(p) PROVE Lifecycle!Next
  <2> DEFINE S == {j \in Jobs : \E t \in OfJob(j) : t.body # "end" /\ t.proc = p}
  <2>1. tasks' = {t \in tasks : t.proc # p} /\ rows' = rows
    BY <1>9, <1>n DEF Down
  <2>2. Busy' = Busy \ S
    BY <2>1 DEF Busy, OfJob, QuietInv, OneRunPerJob
  <2>3. S \in SUBSET Jobs
    OBVIOUS
  <2> QED
    BY <1>r, <2>1, <2>2, <2>3, LifecycleSteps
\* What a worker finds running, which nobody executes.
<1>10. ASSUME NEW p \in Procs, Start(p)
       PROVE  Lifecycle!Next \/ UNCHANGED Lifecycle!vars
  <2>0. Busy' = Busy
    BY <1>10, <1>u DEF Start
  <2>1. CASE p \in Workers
    <3> DEFINE S == {j \in Jobs : rows[j].status = "running"}
    <3>1. \A j \in S : Status[j] = "running" /\ j \notin Busy
      BY <1>10, <2>1, WorkerStartsAlone DEF Status, Busy, OfJob
    <3>2. \A j \in Jobs : rows'[j].status = IF j \in S THEN "queued" ELSE rows[j].status
      BY <1>10, <1>n, <2>1 DEF Start, Reclaimed, Row
    <3>3. Status' = [j \in Jobs |-> IF j \in S THEN "queued" ELSE Status[j]]
      BY <3>2 DEF Status
    <3>4. S \in SUBSET Jobs
      OBVIOUS
    <3> QED
      BY <2>0, <3>1, <3>3, <3>4, LifecycleSteps
  <2>2. CASE p \notin Workers
    <3>1. rows' = rows
      BY <1>10, <1>n, <2>2 DEF Start
    <3> QED
      BY <1>r, <2>0, <3>1, LifecycleSteps
  <2> QED
    BY <2>1, <2>2
<1>11. CASE UNCHANGED vars
  BY <1>11, <1>r, <1>u, LifecycleSteps DEF vars
<1> QED
  BY <1>1, <1>2, <1>3, <1>4, <1>5, <1>6, <1>7, <1>8, <1>9, <1>10, <1>11,
     QuietNext

\* The queue of a quiet deployment implements the life cycle of a job: one body
\* at a time takes a waiting job, an outcome is recorded or the job returned to
\* the queue only when no body executes it, and an ended job stays so.
THEOREM LifecycleIsImplemented == ASSUME Quiet PROVE Spec => ImplementsLifecycle
<1>1. Init => Lifecycle!Init
  <2> SUFFICES ASSUME Init PROVE Lifecycle!Init
    OBVIOUS
  <2>1. Status = [j \in Jobs |-> "absent"]
    BY DEF Init, Status, NoRow
  <2>2. Busy = {}
    BY DEF Init, Busy, OfJob
  <2> QED
    BY <2>1, <2>2 DEF Lifecycle!Init, Status, Busy
<1>2. Known /\ QuietInv /\ [Next]_vars => [Lifecycle!Next]_(Lifecycle!vars)
  BY LifecycleStep
<1> QED
  BY <1>1, <1>2, KnownInvariant, QuietInvariant, PTL
     DEF Spec, ImplementsLifecycle, Lifecycle!Spec
=============================================================================
