------------------------- MODULE JobQueuePoolProofs -------------------------
(***************************************************************************)
(* Proofs about the bookkeeping of WorkerPool in every deployment, for     *)
(* every value of the constants: running counts the runs that have not     *)
(* settled, and activeJobs holds only their controllers.                   *)
(***************************************************************************)
EXTENDS JobQueueProofs

\* runJob has not settled: the run takes up a slot.
Live(t) == t.pc \notin {"claim", "backoff", "end"}

\* The runs that take up the slots of p, and the claims being written there.
InSlot(S, p) == {t \in S : t.proc = p /\ Live(t)}
Picked(S, p) == {t \in S : t.proc = p /\ t.pc = "claim"}

SameRun(t, u) == u.job = t.job /\ u.n = t.n /\ u.proc = t.proc

(* The inductive invariant. *)

\* A claim has one run: its number, which claimNext gave it, tells it from
\* every other run of the job, so that what a run becomes is not there yet.
OneRunPerClaim ==
  /\ IsFiniteSet(tasks)
  /\ \A t \in tasks : t.n <= stamp[t.job]
  /\ \A t, u \in tasks : t.job = u.job /\ t.n = u.n => t = u

\* A process that is down has neither runs nor loops.
DownIsIdle ==
  /\ \A t \in tasks : proc[t.proc] # "down"
  /\ \A p \in Procs : selecting[p] > 0 => proc[p] # "down"

-----------------------------------------------------------------------------
(* Finite sets *)

\* Exchanging an element for another one.
LEMMA SwapOne ==
  ASSUME NEW S, IsFiniteSet(S), NEW t \in S, NEW u, u \notin S \ {t}
  PROVE  /\ IsFiniteSet((S \ {t}) \cup {u})
         /\ Cardinality((S \ {t}) \cup {u}) = Cardinality(S)
<1>1. /\ IsFiniteSet(S \ {t})
      /\ Cardinality(S \ {t}) = Cardinality(S) - 1
      /\ Cardinality(S) \in Nat
  BY FS_RemoveElement, FS_CardinalityType
<1>2. /\ IsFiniteSet((S \ {t}) \cup {u})
      /\ Cardinality((S \ {t}) \cup {u}) = Cardinality(S \ {t}) + 1
  BY <1>1, FS_AddElement
<1> QED
  BY <1>1, <1>2

\* The images of the elements of a finite set; as many, when no two of them
\* have the same.
LEMMA FiniteImage ==
  ASSUME NEW S, IsFiniteSet(S), NEW T, NEW f \in [S -> T],
         \A z \in T : \E x \in S : f[x] = z
  PROVE  /\ IsFiniteSet(T)
         /\ (\A x, y \in S : f[x] = f[y] => x = y)
              => Cardinality(T) = Cardinality(S)
<1>1. f \in Surjection(S, T)
  BY DEF Surjection
<1>2. (\A x, y \in S : f[x] = f[y] => x = y) => f \in Injection(S, T)
  BY DEF Injection, IsInjective
<1> QED
  BY <1>1, <1>2, FS_Surjection

\* The runs of a pool are finitely many.
LEMMA FiniteRuns ==
  ASSUME NEW S, IsFiniteSet(S), NEW p
  PROVE  /\ IsFiniteSet(InSlot(S, p)) /\ Cardinality(InSlot(S, p)) \in Nat
         /\ IsFiniteSet(Picked(S, p)) /\ Cardinality(Picked(S, p)) \in Nat
<1>1. InSlot(S, p) \in SUBSET S /\ Picked(S, p) \in SUBSET S
  BY DEF InSlot, Picked
<1> QED
  BY <1>1, FS_Subset, FS_CardinalityType

-----------------------------------------------------------------------------
(* The steps of a run *)

\* What a step of run t that is not its claim does to the pool: the run keeps
\* its slot, and the pool its counters, or it settles and gives the slot back.
Moves(t, u) ==
  /\ Becomes(t, u)
  /\ SameRun(t, u)
  /\ t.pc = "claim" <=> u.pc = "claim"
  /\ \/ (Live(t) <=> Live(u)) /\ UNCHANGED poolVars
     \/ Live(t) /\ ~Live(u) /\ FreeSlot(t.proc, t.job)
  /\ UNCHANGED <<stamp, proc>>

LEMMA RunMoves ==
  ASSUME TypeOK, NEW t \in tasks, TaskStep(t)
  PROVE  ClaimUnlocked(t) \/ \E u : Moves(t, u)
<1>0. t \in Task
  BY DEF TypeOK
<1> USE DEF queueVars, SameRun, Live
<1>e. ASSUME NEW e \in {"transient", "permanent", "cancelled"}
      PROVE  /\ SameRun(t, Thrown(t, e))
             /\ t.pc = "claim" <=> Thrown(t, e).pc = "claim"
             /\ Live(t) <=> Live(Thrown(t, e))
  BY <1>0 DEF Thrown, Task
<1>r. /\ SameRun(t, Reported(t))
      /\ t.pc = "claim" <=> Reported(t).pc = "claim"
      /\ Live(t) <=> Live(Reported(t))
  BY <1>0 DEF Reported, Returned, Task
<1>2. ASSUME NEW final \in BOOLEAN, Report(t, final) PROVE \E u : Moves(t, u)
  <2>1. CASE t.aborted
    <3>1. Moves(t, Thrown(t, "cancelled"))
      BY <1>2, <1>e, <2>1 DEF Report, Moves
    <3> QED
      BY <3>1
  <2>2. CASE ~t.aborted
    <3>1. Moves(t, [t EXCEPT !.body = "get", !.final = final])
      BY <1>0, <1>2, <2>2 DEF Report, Moves, Task
    <3> QED
      BY <3>1
  <2> QED
    BY <2>1, <2>2
<1>3. CASE ReportRead(t)
  <2>1. CASE rows[t.job].status = "running"
    <3>1. Moves(t, [t EXCEPT !.body = "put", !.seen = rows[t.job]])
      BY <1>0, <1>3, <2>1 DEF ReportRead, Moves, Task
    <3> QED
      BY <3>1
  <2>2. CASE rows[t.job].status # "running"
    <3>1. Moves(t, Reported(t))
      BY <1>3, <1>r, <2>2 DEF ReportRead, Moves
    <3> QED
      BY <3>1
  <2> QED
    BY <2>1, <2>2
<1>4. CASE ReportWrite(t)
  <2>1. Moves(t, Reported(t))
    BY <1>4, <1>r DEF ReportWrite, Moves
  <2> QED
    BY <2>1
<1>5. ASSUME NEW e \in {"transient", "permanent"}, ReportFails(t, e) \/ Throw(t, e)
      PROVE \E u : Moves(t, u)
  <2>1. Moves(t, Thrown(t, e))
    BY <1>5, <1>e DEF ReportFails, Throw, Moves
  <2> QED
    BY <2>1
<1>6. CASE Timeout(t)
  <2>1. Moves(t, [t EXCEPT !.pc = "hget", !.err = "transient", !.aborted = TRUE])
    BY <1>0, <1>6 DEF Timeout, Moves, Task
  <2> QED
    BY <2>1
<1>7. CASE CompleteRead(t)
  <2>1. Moves(t, [t EXCEPT !.pc = "cput",
                    !.row = [rows[t.job] EXCEPT !.status = "completed"]])
    BY <1>0, <1>7 DEF CompleteRead, Moves, Task
  <2> QED
    BY <2>1
<1>8. CASE CompleteWrite(t)
  <2>1. Moves(t, [t EXCEPT !.pc = "store", !.row = NoRow])
    BY <1>0, <1>8 DEF CompleteWrite, Moves, Task
  <2> QED
    BY <2>1
<1>9. CASE StoreResult(t)
  <2>1. Moves(t, [t EXCEPT !.pc = "end"])
    BY <1>0, <1>9 DEF StoreResult, Moves, Task
  <2> QED
    BY <2>1
<1>10. ASSUME NEW e \in {"transient", "permanent"}, CompleteFails(t, e)
       PROVE \E u : Moves(t, u)
  <2>1. Moves(t, [t EXCEPT !.pc = "hget", !.row = NoRow, !.err = e])
    BY <1>0, <1>10 DEF CompleteFails, Moves, Task
  <2> QED
    BY <2>1
<1>11. CASE HandleFailure(t)
  <2>1. CASE t.err = "transient" /\ rows[t.job].retry < MaxRetries
    <3>1. Moves(t, [t EXCEPT !.pc = "backoff", !.row = rows[t.job],
                             !.err = "none"])
      BY <1>0, <1>11, <2>1 DEF HandleFailure, Moves, Task
    <3> QED
      BY <3>1
  <2>2. CASE ~(t.err = "transient" /\ rows[t.job].retry < MaxRetries)
    <3>1. Moves(t, [t EXCEPT !.pc = "fget", !.err = "none"])
      BY <1>0, <1>11, <2>2 DEF HandleFailure, Moves, Task
    <3> QED
      BY <3>1
  <2> QED
    BY <2>1, <2>2
<1>12. CASE FailRead(t)
  <2>1. Moves(t, [t EXCEPT !.pc = "fput",
                    !.row = [rows[t.job] EXCEPT !.status = "failed"]])
    BY <1>0, <1>12 DEF FailRead, Moves, Task
  <2> QED
    BY <2>1
<1>13. CASE FailWrite(t)
  <2>1. Moves(t, [t EXCEPT !.pc = "end", !.row = NoRow])
    BY <1>0, <1>13 DEF FailWrite, Moves, Task
  <2> QED
    BY <2>1
<1>14. CASE Requeue(t)
  <2>1. Moves(t, [t EXCEPT !.pc = "end", !.row = NoRow])
    BY <1>0, <1>14 DEF Requeue, Moves, Task
  <2> QED
    BY <2>1
<1> QED
  BY <1>2, <1>3, <1>4, <1>5, <1>6, <1>7, <1>8, <1>9, <1>10, <1>11, <1>12,
     <1>13, <1>14 DEF TaskStep

-----------------------------------------------------------------------------
(* One run per claim, and none where the process is down *)

\* What a run becomes is not one of the other runs.
LEMMA OtherRuns ==
  ASSUME OneRunPerClaim, NEW t \in tasks, NEW u, SameRun(t, u)
  PROVE  u \notin tasks \ {t}
BY DEF OneRunPerClaim, SameRun

LEMMA OneRunStep == TypeOK /\ OneRunPerClaim /\ [Next]_vars => OneRunPerClaim'
<1> SUFFICES ASSUME TypeOK, OneRunPerClaim, [Next]_vars PROVE OneRunPerClaim'
  OBVIOUS
<1> USE DEF OneRunPerClaim
<1>n. stamp \in [Jobs -> Nat]
  BY DEF TypeOK
<1>t. ASSUME NEW t \in tasks
      PROVE t.job \in Jobs /\ t.n \in Nat /\ t.proc \in Procs
  BY DEF TypeOK, Task
<1>u. ASSUME UNCHANGED <<tasks, stamp>> PROVE OneRunPerClaim'
  BY <1>u
\* A run whose claim is the next of its job is like no other.
<1>c. ASSUME NEW j \in Jobs, NEW u, u.job = j, u.n = stamp[j] + 1,
             tasks' = tasks \cup {u},
             stamp' = [stamp EXCEPT ![j] = stamp[j] + 1]
      PROVE OneRunPerClaim'
  <2>1. IsFiniteSet(tasks')
    BY <1>c, FS_AddElement
  <2>2. \A t \in tasks : t.job = j => t.n < stamp[j] + 1
    BY <1>n, <1>t
  <2>3. \A t \in tasks' : t.n <= stamp'[t.job]
    BY <1>c, <1>n, <1>t
  <2>4. \A t, x \in tasks' : t.job = x.job /\ t.n = x.n => t = x
    BY <1>c, <1>n, <1>t, <2>2
  <2> QED
    BY <2>1, <2>3, <2>4
\* A run that becomes another state of it, or is gone.
<1>m. ASSUME NEW t \in tasks, NEW u, SameRun(t, u), stamp' = stamp,
             tasks' \subseteq (tasks \ {t}) \cup {u}
      PROVE OneRunPerClaim'
  <2>1. IsFiniteSet((tasks \ {t}) \cup {u})
    BY FS_RemoveElement, FS_AddElement
  <2>2. IsFiniteSet(tasks')
    BY <1>m, <2>1, FS_Subset
  <2> QED
    BY <1>m, <2>2 DEF SameRun
<1>1. ASSUME NEW p \in Procs, PoolStep(p) PROVE OneRunPerClaim'
  <2>1. CASE Poll(p) \/ ClaimNone(p)
    BY <1>u, <2>1 DEF Poll, ClaimNone, queueVars
  <2>2. CASE ClaimLocked(p)
    <3> PICK j \in Jobs :
          /\ stamp' = [stamp EXCEPT ![j] = stamp[j] + 1]
          /\ tasks' = tasks \cup {NewRun(j, stamp[j] + 1, p)}
      BY <2>2 DEF ClaimLocked
    <3>1. /\ NewRun(j, stamp[j] + 1, p).job = j
          /\ NewRun(j, stamp[j] + 1, p).n = stamp[j] + 1
      BY DEF NewRun
    <3> QED
      BY <1>c, <3>1
  <2>3. CASE SelectUnlocked(p)
    <3> PICK j \in Jobs :
          /\ stamp' = [stamp EXCEPT ![j] = stamp[j] + 1]
          /\ tasks' = tasks \cup
               {[NewRun(j, stamp[j] + 1, p) EXCEPT
                   !.pc = "claim", !.body = "end",
                   !.row = Claimed(rows[j], stamp[j] + 1)]}
      BY <2>3 DEF SelectUnlocked
    <3> DEFINE u == [NewRun(j, stamp[j] + 1, p) EXCEPT
                       !.pc = "claim", !.body = "end",
                       !.row = Claimed(rows[j], stamp[j] + 1)]
    <3>1. u.job = j /\ u.n = stamp[j] + 1
      BY DEF NewRun
    <3>2. tasks' = tasks \cup {u}
      OBVIOUS
    <3> HIDE DEF u
    <3> QED
      BY <1>c, <3>1, <3>2
  <2> QED
    BY <1>1, <2>1, <2>2, <2>3 DEF PoolStep
<1>2. ASSUME NEW t \in tasks, TaskStep(t) PROVE OneRunPerClaim'
  <2>1. CASE ClaimUnlocked(t)
    <3>1. SameRun(t, NewRun(t.job, t.n, t.proc))
      BY DEF SameRun, NewRun
    <3> QED
      BY <1>m, <2>1, <3>1 DEF ClaimUnlocked
  <2>2. ASSUME NEW u, Moves(t, u) PROVE OneRunPerClaim'
    <3>1. tasks' \subseteq (tasks \ {t}) \cup {u}
      BY <2>2 DEF Moves, Becomes
    <3> QED
      BY <1>m, <2>2, <3>1 DEF Moves
  <2> QED
    BY <1>2, <2>1, <2>2, RunMoves
<1>3. ASSUME NEW p \in Procs, Stop(p) PROVE OneRunPerClaim'
  <2> DEFINE told(t) == IF t.proc = p /\ t.n = active[p][t.job]
                          THEN [t EXCEPT !.aborted = TRUE] ELSE t
  <2>1. tasks' = {told(t) : t \in tasks} /\ stamp' = stamp
    BY <1>3 DEF Stop, queueVars
  <2>2. \A t \in tasks : told(t).job = t.job /\ told(t).n = t.n
    BY DEF TypeOK, Task
  <2> HIDE DEF told
  <2> DEFINE f == [t \in tasks |-> told(t)]
  <2>4. f \in [tasks -> tasks'] /\ \A z \in tasks' : \E t \in tasks : f[t] = z
    BY <2>1
  <2> HIDE DEF f
  <2>3. IsFiniteSet(tasks')
    BY <2>4, FiniteImage
  <2> QED
    BY <2>1, <2>2, <2>3
<1>4. ASSUME NEW p \in Procs, Down(p) PROVE OneRunPerClaim'
  <2>1. tasks' \in SUBSET tasks /\ stamp' = stamp
    BY <1>4 DEF Down
  <2>2. IsFiniteSet(tasks')
    BY <2>1, FS_Subset
  <2> QED
    BY <2>1, <2>2
<1>5. CASE \/ \E j \in Jobs : Create(j) \/ Age(j)
           \/ \E j \in Jobs, force \in BOOLEAN : CancelRead(j, force)
           \/ \E c \in cancels : CancelWrite(c)
           \/ \E p \in Procs : Start(p) \/ ReclaimStale(p)
           \/ UNCHANGED vars
  BY <1>5, <1>u DEF Create, Age, CancelRead, CancelWrite, Start,
     ReclaimStale, vars
<1> QED
  BY <1>1, <1>2, <1>3, <1>4, <1>5 DEF Next

\* A process goes down with its runs and loops, and neither appears before it
\* is started again.
LEMMA DownIsIdleStep == TypeOK /\ DownIsIdle /\ [Next]_vars => DownIsIdle'
<1> SUFFICES ASSUME TypeOK, DownIsIdle, [Next]_vars PROVE DownIsIdle'
  OBVIOUS
<1> USE DEF DownIsIdle
<1>n. /\ selecting \in [Procs -> Nat]
      /\ proc \in [Procs -> {"up", "stopped", "down"}]
  BY DEF TypeOK
<1>t. ASSUME NEW t \in tasks PROVE t.proc \in Procs /\ t \in Task
  BY DEF TypeOK, Task
<1>u. ASSUME UNCHANGED <<tasks, proc, selecting>> PROVE DownIsIdle'
  BY <1>u
<1>1. ASSUME NEW p \in Procs, PoolStep(p) PROVE DownIsIdle'
  <2>1. CASE Poll(p) \/ ClaimNone(p)
    BY <1>n, <2>1 DEF Poll, ClaimNone, MayDrain
  <2>2. CASE ClaimLocked(p) \/ SelectUnlocked(p)
    <3>1. selecting[p] > 0 /\ proc' = proc
      BY <2>2 DEF ClaimLocked, SelectUnlocked
    <3>2. \A q \in Procs : selecting'[q] > 0 => selecting[q] > 0
      BY <1>n, <2>2, <3>1 DEF ClaimLocked, SelectUnlocked, RunClaim
    <3>n. \A j \in Jobs : stamp[j] + 1 \in Nat
      BY DEF TypeOK
    <3>r. \A j \in Jobs :
            /\ NewRun(j, stamp[j] + 1, p) \in Task
            /\ NewRun(j, stamp[j] + 1, p).proc = p
      BY <3>n, NewRunType DEF NewRun
    <3>3. \A t \in tasks' : t \in tasks \/ t.proc = p
      <4>1. CASE ClaimLocked(p)
        BY <3>r, <4>1 DEF ClaimLocked
      <4>2. CASE SelectUnlocked(p)
        <5>1. \A r \in Task : \A x :
                [r EXCEPT !.pc = "claim", !.body = "end", !.row = x].proc = r.proc
          BY DEF Task
        <5> PICK j \in Jobs :
              tasks' = tasks \cup
                {[NewRun(j, stamp[j] + 1, p) EXCEPT
                    !.pc = "claim", !.body = "end",
                    !.row = Claimed(rows[j], stamp[j] + 1)]}
          BY <4>2 DEF SelectUnlocked
        <5>2. [NewRun(j, stamp[j] + 1, p) EXCEPT
                 !.pc = "claim", !.body = "end",
                 !.row = Claimed(rows[j], stamp[j] + 1)].proc = p
          BY <3>r, <5>1
        <5> QED
          BY <5>2
      <4> QED
        BY <2>2, <4>1, <4>2
    <3> QED
      BY <3>1, <3>2, <3>3
  <2> QED
    BY <1>1, <2>1, <2>2 DEF PoolStep
<1>2. ASSUME NEW t \in tasks, TaskStep(t) PROVE DownIsIdle'
  <2>1. CASE ClaimUnlocked(t)
    <3>1. /\ proc' = proc
          /\ \A x \in tasks' : x \in tasks \/ x.proc = t.proc
          /\ \A q \in Procs : q # t.proc => selecting'[q] = selecting[q]
      BY <1>n, <1>t, <2>1 DEF ClaimUnlocked, NewRun, RunClaim
    <3> QED
      BY <3>1
  <2>2. ASSUME NEW u, Moves(t, u) PROVE DownIsIdle'
    <3>1. /\ proc' = proc
          /\ \A x \in tasks' : x \in tasks \/ x.proc = t.proc
      BY <2>2 DEF Moves, Becomes, SameRun
    <3>2. \A q \in Procs : q # t.proc => selecting'[q] = selecting[q]
      <4>1. CASE UNCHANGED poolVars
        BY <4>1 DEF poolVars
      <4>2. CASE FreeSlot(t.proc, t.job)
        BY <1>n, <1>t, <4>2 DEF FreeSlot
      <4> QED
        BY <2>2, <4>1, <4>2 DEF Moves
    <3> QED
      BY <3>1, <3>2
  <2> QED
    BY <1>2, <2>1, <2>2, RunMoves
<1>3. ASSUME NEW p \in Procs, Stop(p) PROVE DownIsIdle'
  <2>1. \A t \in tasks : [t EXCEPT !.aborted = TRUE].proc = t.proc
    BY <1>t DEF Task
  <2>2. \A x \in tasks' : \E t \in tasks : x.proc = t.proc
    BY <1>3, <2>1 DEF Stop
  <2> QED
    BY <1>3, <1>n, <2>2 DEF Stop
<1>4. ASSUME NEW p \in Procs, Down(p) PROVE DownIsIdle'
  BY <1>4, <1>n, <1>t DEF Down
<1>5. ASSUME NEW p \in Procs, Start(p) PROVE DownIsIdle'
  BY <1>5, <1>n, <1>t DEF Start, poolVars
<1>6. CASE \/ \E j \in Jobs : Create(j) \/ Age(j)
           \/ \E j \in Jobs, force \in BOOLEAN : CancelRead(j, force)
           \/ \E c \in cancels : CancelWrite(c)
           \/ \E p \in Procs : ReclaimStale(p)
           \/ UNCHANGED vars
  BY <1>6, <1>u DEF Create, Age, CancelRead, CancelWrite, ReclaimStale,
     poolVars, vars
<1> QED
  BY <1>1, <1>2, <1>3, <1>4, <1>5, <1>6 DEF Next

-----------------------------------------------------------------------------
(* Slots *)

LEMMA SlotsAreSets ==
  SlotsCounted <=>
    \A p \in Procs : /\ running[p] = Cardinality(InSlot(tasks, p))
                     /\ picking[p] = Cardinality(Picked(tasks, p))
BY DEF SlotsCounted, InSlot, Picked, Live

\* A step of a run changes the slots taken as it changes their counter.
LEMMA MoveCounted ==
  ASSUME TypeOK, OneRunPerClaim, SlotsCounted, NEW t \in tasks, NEW u,
         Moves(t, u)
  PROVE  SlotsCounted'
<1> SUFFICES ASSUME NEW q \in Procs
             PROVE  /\ running'[q] = Cardinality(InSlot(tasks', q))
                    /\ picking'[q] = Cardinality(Picked(tasks', q))
  BY DEF SlotsCounted, InSlot, Picked, Live
<1> DEFINE S == InSlot(tasks, q)
           P == Picked(tasks, q)
<1>0. /\ t.proc \in Procs /\ t.job \in Jobs
      /\ running \in [Procs -> Int] /\ picking \in [Procs -> Int]
  BY DEF TypeOK, Task
<1>1. /\ running[q] = Cardinality(S) /\ IsFiniteSet(S) /\ Cardinality(S) \in Nat
      /\ picking[q] = Cardinality(P) /\ IsFiniteSet(P)
  BY SlotsAreSets, FiniteRuns DEF OneRunPerClaim
<1>2. SameRun(t, u) /\ u \notin tasks \ {t}
  BY OtherRuns DEF Moves
<1>3. tasks' = (tasks \ {t}) \cup
               (IF u.pc = "end" /\ u.body = "end" THEN {} ELSE {u})
  BY DEF Moves, Becomes
<1>4. InSlot(tasks', q) =
        (S \ {t}) \cup (IF u.proc = q /\ Live(u) THEN {u} ELSE {})
  BY <1>3 DEF InSlot, Live
<1>5. Picked(tasks', q) =
        (P \ {t}) \cup (IF u.proc = q /\ u.pc = "claim" THEN {u} ELSE {})
  BY <1>3 DEF Picked
<1>6. u \notin S \ {t} /\ u \notin P \ {t}
  BY <1>2 DEF InSlot, Picked
<1>7. t \in S <=> t.proc = q /\ Live(t)
  BY DEF InSlot
<1>8. t \in P <=> t.proc = q /\ t.pc = "claim"
  BY DEF Picked
<1> HIDE DEF S, P
<1>9. picking'[q] = Cardinality(Picked(tasks', q))
  <2>1. picking' = picking
    BY DEF Moves, FreeSlot, poolVars
  <2>2. CASE t \in P
    <3>1. Picked(tasks', q) = (P \ {t}) \cup {u}
      BY <1>2, <1>5, <1>8, <2>2 DEF Moves, SameRun
    <3> QED
      BY <1>1, <1>6, <2>1, <2>2, <3>1, SwapOne
  <2>3. CASE t \notin P
    <3>1. Picked(tasks', q) = P
      BY <1>2, <1>5, <1>8, <2>3 DEF Moves, SameRun
    <3> QED
      BY <1>1, <2>1, <3>1
  <2> QED
    BY <2>2, <2>3
<1>10. running'[q] = Cardinality(InSlot(tasks', q))
  <2>1. CASE (Live(t) <=> Live(u)) /\ UNCHANGED poolVars
    <3>1. running' = running
      BY <2>1 DEF poolVars
    <3>2. CASE t \in S
      <4>1. InSlot(tasks', q) = (S \ {t}) \cup {u}
        BY <1>2, <1>4, <1>7, <2>1, <3>2 DEF SameRun
      <4> QED
        BY <1>1, <1>6, <3>1, <3>2, <4>1, SwapOne
    <3>3. CASE t \notin S
      <4>1. InSlot(tasks', q) = S
        BY <1>2, <1>4, <1>7, <2>1, <3>3 DEF SameRun
      <4> QED
        BY <1>1, <3>1, <4>1
    <3> QED
      BY <3>2, <3>3
  <2>2. CASE Live(t) /\ ~Live(u) /\ FreeSlot(t.proc, t.job)
    <3>1. InSlot(tasks', q) = S \ {t}
      BY <1>4, <2>2
    <3>2. running'[q] = IF q = t.proc THEN running[q] - 1 ELSE running[q]
      BY <1>0, <2>2 DEF FreeSlot
    <3>3. Cardinality(S \ {t}) =
            IF t \in S THEN Cardinality(S) - 1 ELSE Cardinality(S)
      BY <1>1, FS_RemoveElement
    <3> QED
      BY <1>1, <1>7, <2>2, <3>1, <3>2, <3>3
  <2> QED
    BY <2>1, <2>2 DEF Moves
<1> QED
  BY <1>9, <1>10

\* The claim of a job starts its run: a loop of p becomes a slot of p.
LEMMA ClaimCounted ==
  ASSUME TypeOK, OneRunPerClaim, SlotsCounted, NEW t \in tasks,
         ClaimUnlocked(t)
  PROVE  SlotsCounted'
<1> SUFFICES ASSUME NEW q \in Procs
             PROVE  /\ running'[q] = Cardinality(InSlot(tasks', q))
                    /\ picking'[q] = Cardinality(Picked(tasks', q))
  BY DEF SlotsCounted, InSlot, Picked, Live
<1> DEFINE S == InSlot(tasks, q)
           P == Picked(tasks, q)
           u == NewRun(t.job, t.n, t.proc)
<1>0. /\ t.proc \in Procs /\ t.job \in Jobs
      /\ running \in [Procs -> Int] /\ picking \in [Procs -> Int]
  BY DEF TypeOK, Task
<1>1. /\ running[q] = Cardinality(S) /\ IsFiniteSet(S)
      /\ picking[q] = Cardinality(P) /\ IsFiniteSet(P)
      /\ Cardinality(S) \in Nat /\ Cardinality(P) \in Nat
  BY SlotsAreSets, FiniteRuns DEF OneRunPerClaim
<1>2. SameRun(t, u) /\ Live(u) /\ u.pc # "claim" /\ u.proc = t.proc
  BY DEF SameRun, NewRun, Live
<1>3. u \notin tasks \ {t}
  BY <1>2, OtherRuns
<1>4. t.pc = "claim" /\ ~Live(t)
  BY DEF ClaimUnlocked, Live
<1>5. tasks' = (tasks \ {t}) \cup {u}
  BY DEF ClaimUnlocked
<1> HIDE DEF u
<1>6. InSlot(tasks', q) = S \cup (IF q = t.proc THEN {u} ELSE {})
  BY <1>2, <1>4, <1>5 DEF InSlot
<1>7. Picked(tasks', q) = P \ (IF q = t.proc THEN {t} ELSE {})
  BY <1>2, <1>4, <1>5 DEF Picked
<1>8. u \notin S /\ (q = t.proc => t \in P)
  BY <1>2, <1>3, <1>4 DEF InSlot, Picked
<1>9. /\ running'[q] = IF q = t.proc THEN running[q] + 1 ELSE running[q]
      /\ picking'[q] = IF q = t.proc THEN picking[q] - 1 ELSE picking[q]
  BY <1>0 DEF ClaimUnlocked, RunClaim
<1> HIDE DEF S, P
<1>10. /\ Cardinality(S \cup {u}) = Cardinality(S) + 1
       /\ q = t.proc => Cardinality(P \ {t}) = Cardinality(P) - 1
  BY <1>1, <1>8, FS_AddElement, FS_RemoveElement
<1>11. CASE q = t.proc
  BY <1>1, <1>6, <1>7, <1>9, <1>10, <1>11
<1>12. CASE q # t.proc
  BY <1>1, <1>6, <1>7, <1>9, <1>12
<1> QED
  BY <1>11, <1>12

\* The slots are counted after every step.
LEMMA SlotsStep ==
  TypeOK /\ OneRunPerClaim /\ SlotsCounted /\ [Next]_vars => SlotsCounted'
<1> SUFFICES ASSUME TypeOK, OneRunPerClaim, SlotsCounted, [Next]_vars
             PROVE  SlotsCounted'
  OBVIOUS
<1>n. /\ running \in [Procs -> Int] /\ picking \in [Procs -> Int]
      /\ stamp \in [Jobs -> Nat]
  BY DEF TypeOK
<1>i. IsFiniteSet(tasks)
  BY DEF OneRunPerClaim
<1>c. ASSUME NEW q \in Procs
      PROVE  /\ running[q] = Cardinality(InSlot(tasks, q))
             /\ picking[q] = Cardinality(Picked(tasks, q))
  BY SlotsAreSets
<1>s. ASSUME \A q \in Procs : /\ running'[q] = Cardinality(InSlot(tasks', q))
                              /\ picking'[q] = Cardinality(Picked(tasks', q))
      PROVE  SlotsCounted'
  BY <1>s DEF SlotsCounted, InSlot, Picked, Live
<1>u. ASSUME UNCHANGED <<running, picking, tasks>> PROVE SlotsCounted'
  BY <1>u DEF SlotsCounted
\* A run that was not there has a claim that no run has.
<1>f. ASSUME NEW j \in Jobs, NEW u, u.job = j, u.n = stamp[j] + 1
      PROVE  u \notin tasks
  <2>1. \A t \in tasks : t.job = j => t.n \in Nat /\ t.n <= stamp[j]
    BY DEF OneRunPerClaim, TypeOK, Task
  <2> QED
    BY <1>f, <1>n, <2>1
<1>1. ASSUME NEW p \in Procs, PoolStep(p) PROVE SlotsCounted'
  <2>1. CASE Poll(p) \/ ClaimNone(p)
    BY <1>u, <2>1 DEF Poll, ClaimNone
  <2>2. CASE ClaimLocked(p)
    <3> PICK j \in Jobs :
          /\ tasks' = tasks \cup {NewRun(j, stamp[j] + 1, p)}
          /\ running' = [running EXCEPT ![p] = @ + 1]
      BY <2>2 DEF ClaimLocked, RunClaim
    <3> DEFINE u == NewRun(j, stamp[j] + 1, p)
    <3>1. /\ u.job = j /\ u.n = stamp[j] + 1 /\ u.proc = p
          /\ Live(u) /\ u.pc # "claim"
      BY DEF NewRun, Live
    <3>2. u \notin tasks
      BY <1>f, <3>1
    <3>3. tasks' = tasks \cup {u}
      OBVIOUS
    <3> HIDE DEF u
    <3>4. ASSUME NEW q \in Procs
          PROVE  /\ running'[q] = Cardinality(InSlot(tasks', q))
                 /\ picking'[q] = Cardinality(Picked(tasks', q))
      <4>1. Picked(tasks', q) = Picked(tasks, q) /\ picking' = picking
        BY <2>2, <3>1, <3>3 DEF Picked, ClaimLocked
      <4>2. CASE q = p
        <5>1. InSlot(tasks', q) = InSlot(tasks, q) \cup {u}
              /\ u \notin InSlot(tasks, q)
          BY <3>1, <3>2, <3>3, <4>2 DEF InSlot
        <5>2. Cardinality(InSlot(tasks', q)) = Cardinality(InSlot(tasks, q)) + 1
          BY <1>i, <5>1, FiniteRuns, FS_AddElement
        <5> QED
          BY <1>c, <1>n, <4>1, <4>2, <5>2
      <4>3. CASE q # p
        <5>1. InSlot(tasks', q) = InSlot(tasks, q)
          BY <3>1, <3>3, <4>3 DEF InSlot
        <5> QED
          BY <1>c, <1>n, <4>1, <4>3, <5>1
      <4> QED
        BY <4>2, <4>3
    <3> QED
      BY <1>s, <3>4
  <2>3. CASE SelectUnlocked(p)
    <3> PICK j \in Jobs :
          tasks' = tasks \cup
            {[NewRun(j, stamp[j] + 1, p) EXCEPT
                !.pc = "claim", !.body = "end",
                !.row = Claimed(rows[j], stamp[j] + 1)]}
      BY <2>3 DEF SelectUnlocked
    <3> DEFINE u == [NewRun(j, stamp[j] + 1, p) EXCEPT
                       !.pc = "claim", !.body = "end",
                       !.row = Claimed(rows[j], stamp[j] + 1)]
    <3>1. /\ u.job = j /\ u.n = stamp[j] + 1 /\ u.proc = p
          /\ ~Live(u) /\ u.pc = "claim"
      BY DEF NewRun, Live
    <3>2. u \notin tasks
      BY <1>f, <3>1
    <3>3. tasks' = tasks \cup {u}
      OBVIOUS
    <3> HIDE DEF u
    <3>4. ASSUME NEW q \in Procs
          PROVE  /\ running'[q] = Cardinality(InSlot(tasks', q))
                 /\ picking'[q] = Cardinality(Picked(tasks', q))
      <4>1. /\ InSlot(tasks', q) = InSlot(tasks, q) /\ running' = running
            /\ picking' = [picking EXCEPT ![p] = @ + 1]
        BY <2>3, <3>1, <3>3 DEF InSlot, SelectUnlocked
      <4>2. CASE q = p
        <5>1. Picked(tasks', q) = Picked(tasks, q) \cup {u}
              /\ u \notin Picked(tasks, q)
          BY <3>1, <3>2, <3>3, <4>2 DEF Picked
        <5>2. Cardinality(Picked(tasks', q)) = Cardinality(Picked(tasks, q)) + 1
          BY <1>i, <5>1, FiniteRuns, FS_AddElement
        <5> QED
          BY <1>c, <1>n, <4>1, <4>2, <5>2
      <4>3. CASE q # p
        <5>1. Picked(tasks', q) = Picked(tasks, q)
          BY <3>1, <3>3, <4>3 DEF Picked
        <5> QED
          BY <1>c, <1>n, <4>1, <4>3, <5>1
      <4> QED
        BY <4>2, <4>3
    <3> QED
      BY <1>s, <3>4
  <2> QED
    BY <1>1, <2>1, <2>2, <2>3 DEF PoolStep
<1>2. ASSUME NEW t \in tasks, TaskStep(t) PROVE SlotsCounted'
  BY <1>2, RunMoves, MoveCounted, ClaimCounted
<1>3. ASSUME NEW p \in Procs, Stop(p) PROVE SlotsCounted'
  <2> DEFINE told(t) == IF t.proc = p /\ t.n = active[p][t.job]
                          THEN [t EXCEPT !.aborted = TRUE] ELSE t
  <2>1. /\ tasks' = {told(t) : t \in tasks}
        /\ running' = running /\ picking' = picking
    BY <1>3 DEF Stop
  <2>2. \A t \in tasks : /\ told(t).job = t.job /\ told(t).n = t.n
                         /\ told(t).proc = t.proc /\ told(t).pc = t.pc
    BY DEF TypeOK, Task
  <2> HIDE DEF told
  <2>3. \A x, y \in tasks : told(x) = told(y) => x = y
    BY <2>2 DEF OneRunPerClaim
  <2>4. ASSUME NEW S \in SUBSET tasks, NEW T,
               T = {told(t) : t \in S}
        PROVE  Cardinality(T) = Cardinality(S)
    <3> DEFINE f == [t \in S |-> told(t)]
    <3>1. IsFiniteSet(S)
      BY <1>i, FS_Subset
    <3>2. /\ f \in [S -> T]
          /\ \A z \in T : \E x \in S : f[x] = z
          /\ \A x, y \in S : f[x] = f[y] => x = y
      BY <2>3, <2>4
    <3> HIDE DEF f
    <3> QED
      BY <3>1, <3>2, FiniteImage
  <2>5. ASSUME NEW q \in Procs
        PROVE  /\ running'[q] = Cardinality(InSlot(tasks', q))
               /\ picking'[q] = Cardinality(Picked(tasks', q))
    <3>1. /\ InSlot(tasks', q) = {told(t) : t \in InSlot(tasks, q)}
          /\ InSlot(tasks, q) \in SUBSET tasks
      BY <2>1, <2>2 DEF InSlot, Live
    <3>2. /\ Picked(tasks', q) = {told(t) : t \in Picked(tasks, q)}
          /\ Picked(tasks, q) \in SUBSET tasks
      BY <2>1, <2>2 DEF Picked
    <3> QED
      BY <1>c, <2>1, <2>4, <3>1, <3>2
  <2> QED
    BY <1>s, <2>5
<1>4. ASSUME NEW p \in Procs, Down(p) PROVE SlotsCounted'
  <2>1. ASSUME NEW q \in Procs
        PROVE  /\ running'[q] = Cardinality(InSlot(tasks', q))
               /\ picking'[q] = Cardinality(Picked(tasks', q))
    <3>1. tasks' = {t \in tasks : t.proc # p}
          /\ running' = [running EXCEPT ![p] = 0]
          /\ picking' = [picking EXCEPT ![p] = 0]
      BY <1>4 DEF Down
    <3>2. CASE q = p
      <4>1. InSlot(tasks', q) = {} /\ Picked(tasks', q) = {}
        BY <3>1, <3>2 DEF InSlot, Picked
      <4> QED
        BY <1>n, <3>1, <3>2, <4>1, FS_EmptySet
    <3>3. CASE q # p
      <4>1. /\ InSlot(tasks', q) = InSlot(tasks, q)
            /\ Picked(tasks', q) = Picked(tasks, q)
        BY <3>1, <3>3 DEF InSlot, Picked
      <4> QED
        BY <1>c, <1>n, <3>1, <3>3, <4>1
    <3> QED
      BY <3>2, <3>3
  <2> QED
    BY <1>s, <2>1
<1>5. CASE \/ \E j \in Jobs : Create(j) \/ Age(j)
           \/ \E j \in Jobs, force \in BOOLEAN : CancelRead(j, force)
           \/ \E c \in cancels : CancelWrite(c)
           \/ \E p \in Procs : Start(p) \/ ReclaimStale(p)
           \/ UNCHANGED vars
  BY <1>5, <1>u DEF Create, Age, CancelRead, CancelWrite, Start,
     ReclaimStale, poolVars, vars
<1> QED
  BY <1>1, <1>2, <1>3, <1>4, <1>5 DEF Next

-----------------------------------------------------------------------------
(* Controllers *)

\* A controller stays with its run while that is unsettled, and goes with it.
LEMMA ControllerStep ==
  TypeOK /\ NoLeakedController /\ [Next]_vars => NoLeakedController'
<1> SUFFICES ASSUME TypeOK, NoLeakedController, [Next]_vars
             PROVE  NoLeakedController'
  OBVIOUS
<1> DEFINE Owned(S, a, p, j) == a # 0 => \E t \in S : /\ t.proc = p /\ t.job = j
                                                    /\ t.n = a /\ Live(t)
<1>a. active \in [Procs -> [Jobs -> Nat]]
  BY DEF TypeOK
<1>b. ASSUME NEW p \in Procs, NEW j \in Jobs PROVE Owned(tasks, active[p][j], p, j)
  BY DEF NoLeakedController, Live
<1>s. ASSUME \A p \in Procs, j \in Jobs : Owned(tasks', active'[p][j], p, j)
      PROVE  NoLeakedController'
  BY <1>s DEF NoLeakedController, Live
<1>u. ASSUME active' = active, tasks \subseteq tasks' PROVE NoLeakedController'
  <2>1. \A p \in Procs, j \in Jobs : Owned(tasks', active'[p][j], p, j)
    BY <1>b, <1>u
  <2> QED
    BY <1>s, <2>1
<1>1. ASSUME NEW p \in Procs, PoolStep(p) PROVE NoLeakedController'
  <2>1. CASE Poll(p) \/ ClaimNone(p) \/ SelectUnlocked(p)
    BY <1>u, <2>1 DEF Poll, ClaimNone, SelectUnlocked
  <2>2. CASE ClaimLocked(p)
    <3> PICK j \in Jobs :
          /\ tasks' = tasks \cup {NewRun(j, stamp[j] + 1, p)}
          /\ active' = [active EXCEPT ![p][j] = stamp[j] + 1]
      BY <2>2 DEF ClaimLocked, RunClaim
    <3>1. ASSUME NEW q \in Procs, NEW i \in Jobs
          PROVE  Owned(tasks', active'[q][i], q, i)
      <4>1. CASE q = p /\ i = j
        <5>1. /\ NewRun(j, stamp[j] + 1, p).proc = p
              /\ NewRun(j, stamp[j] + 1, p).job = j
              /\ NewRun(j, stamp[j] + 1, p).n = stamp[j] + 1
              /\ Live(NewRun(j, stamp[j] + 1, p))
          BY DEF NewRun, Live
        <5>2. active'[p][j] = stamp[j] + 1
          BY <1>a
        <5> QED
          BY <4>1, <5>1, <5>2
      <4>2. CASE ~(q = p /\ i = j)
        <5>1. active'[q][i] = active[q][i]
          BY <1>a, <4>2
        <5> QED
          BY <1>b, <5>1
      <4> QED
        BY <4>1, <4>2
    <3> QED
      BY <1>s, <3>1
  <2> QED
    BY <1>1, <2>1, <2>2 DEF PoolStep
<1>2. ASSUME NEW t \in tasks, TaskStep(t) PROVE NoLeakedController'
  <2>0. t.proc \in Procs /\ t.job \in Jobs
    BY DEF TypeOK, Task
  <2>1. CASE ClaimUnlocked(t)
    <3> DEFINE u == NewRun(t.job, t.n, t.proc)
    <3>1. u.proc = t.proc /\ u.job = t.job /\ u.n = t.n /\ Live(u)
      BY DEF NewRun, Live
    <3>2. /\ tasks' = (tasks \ {t}) \cup {u}
          /\ ~Live(t)
          /\ active' = [active EXCEPT ![t.proc][t.job] = t.n]
      BY <2>1 DEF ClaimUnlocked, RunClaim, Live
    <3> HIDE DEF u
    <3>3. ASSUME NEW q \in Procs, NEW i \in Jobs
          PROVE  Owned(tasks', active'[q][i], q, i)
      <4>1. CASE q = t.proc /\ i = t.job
        <5>1. active'[q][i] = t.n
          BY <1>a, <3>2, <4>1
        <5> QED
          BY <3>1, <3>2, <4>1, <5>1
      <4>2. CASE ~(q = t.proc /\ i = t.job)
        <5>1. active'[q][i] = active[q][i]
          BY <1>a, <2>0, <3>2, <4>2
        <5> QED
          BY <1>b, <3>2, <5>1
      <4> QED
        BY <4>1, <4>2
    <3> QED
      BY <1>s, <3>3
  <2>2. ASSUME NEW u, Moves(t, u) PROVE NoLeakedController'
    <3>1. /\ tasks' = (tasks \ {t}) \cup
                      (IF u.pc = "end" /\ u.body = "end" THEN {} ELSE {u})
          /\ u.job = t.job /\ u.n = t.n /\ u.proc = t.proc
      BY <2>2 DEF Moves, Becomes, SameRun
    <3>2. CASE (Live(t) <=> Live(u)) /\ UNCHANGED poolVars
      <4>1. active' = active
        BY <3>2 DEF poolVars
      <4>2. Live(u) => u \in tasks'
        BY <3>1 DEF Live
      <4>3. ASSUME NEW q \in Procs, NEW i \in Jobs, active'[q][i] # 0
            PROVE  \E x \in tasks' : /\ x.proc = q /\ x.job = i
                                     /\ x.n = active'[q][i] /\ Live(x)
        <5>1. PICK x \in tasks : /\ x.proc = q /\ x.job = i
                                 /\ x.n = active[q][i] /\ Live(x)
          BY <1>b, <4>1, <4>3
        <5>2. CASE x = t
          BY <3>1, <3>2, <4>1, <4>2, <5>1, <5>2
        <5>3. CASE x # t
          BY <3>1, <4>1, <5>1, <5>3
        <5> QED
          BY <5>2, <5>3
      <4> QED
        BY <1>s, <4>3
    <3>3. CASE FreeSlot(t.proc, t.job)
      <4>1. active' = [active EXCEPT ![t.proc][t.job] = 0]
        BY <3>3 DEF FreeSlot
      <4>2. ASSUME NEW q \in Procs, NEW i \in Jobs
            PROVE  Owned(tasks', active'[q][i], q, i)
        <5>1. CASE q = t.proc /\ i = t.job
          BY <1>a, <4>1, <5>1
        <5>2. CASE ~(q = t.proc /\ i = t.job)
          <6>1. active'[q][i] = active[q][i]
            BY <1>a, <2>0, <4>1, <5>2
          <6> QED
            BY <1>b, <3>1, <5>2, <6>1
        <5> QED
          BY <5>1, <5>2
      <4> QED
        BY <1>s, <4>2
    <3> QED
      BY <2>2, <3>2, <3>3 DEF Moves
  <2> QED
    BY <1>2, <2>1, <2>2, RunMoves
<1>3. ASSUME NEW p \in Procs, Stop(p) \/ Down(p) PROVE NoLeakedController'
  <2>1. /\ active' = [active EXCEPT ![p] = [j \in Jobs |-> 0]]
        /\ \A t \in tasks : t.proc # p => t \in tasks'
    BY <1>3 DEF Stop, Down
  <2>2. ASSUME NEW q \in Procs, NEW i \in Jobs
        PROVE  Owned(tasks', active'[q][i], q, i)
    <3>1. CASE q = p
      BY <1>a, <2>1, <3>1
    <3>2. CASE q # p
      <4>1. active'[q][i] = active[q][i]
        BY <1>a, <2>1, <3>2
      <4> QED
        BY <1>b, <2>1, <3>2, <4>1
    <3> QED
      BY <3>1, <3>2
  <2> QED
    BY <1>s, <2>2
<1>4. CASE \/ \E j \in Jobs : Create(j) \/ Age(j)
           \/ \E j \in Jobs, force \in BOOLEAN : CancelRead(j, force)
           \/ \E c \in cancels : CancelWrite(c)
           \/ \E p \in Procs : Start(p) \/ ReclaimStale(p)
           \/ UNCHANGED vars
  BY <1>4, <1>u DEF Create, Age, CancelRead, CancelWrite, Start,
     ReclaimStale, poolVars, vars
<1> QED
  BY <1>1, <1>2, <1>3, <1>4 DEF Next

-----------------------------------------------------------------------------
(* Theorems *)

LEMMA PoolInvariant == Spec => [](OneRunPerClaim /\ DownIsIdle)
<1>1. Init => OneRunPerClaim /\ DownIsIdle
  BY FS_EmptySet DEF Init, OneRunPerClaim, DownIsIdle
<1>2. TypeOK /\ OneRunPerClaim /\ DownIsIdle /\ [Next]_vars
        => OneRunPerClaim' /\ DownIsIdle'
  BY OneRunStep, DownIsIdleStep
<1> QED
  BY <1>1, <1>2, TypeCorrect, PTL DEF Spec

\* In every deployment, on every path through runJob, with timeouts, failed
\* queries, overlapping loops and crashes, WorkerPool.running is the number of
\* runs that have not settled.
THEOREM SlotsAreCounted == Spec => []SlotsCounted
<1>1. Init => SlotsCounted
  <2> SUFFICES ASSUME Init, NEW p \in Procs
               PROVE  /\ running[p] = Cardinality(InSlot(tasks, p))
                      /\ picking[p] = Cardinality(Picked(tasks, p))
    BY SlotsAreSets
  <2>1. InSlot(tasks, p) = {} /\ Picked(tasks, p) = {}
    BY DEF Init, InSlot, Picked
  <2> QED
    BY <2>1, FS_EmptySet DEF Init
<1>2. TypeOK /\ OneRunPerClaim /\ SlotsCounted /\ [Next]_vars => SlotsCounted'
  BY SlotsStep
<1> QED
  BY <1>1, <1>2, TypeCorrect, PoolInvariant, PTL DEF Spec

\* No controller outlives its run in activeJobs.
THEOREM ControllersHaveRuns == Spec => []NoLeakedController
<1>1. Init => NoLeakedController
  BY DEF Init, NoLeakedController
<1>2. TypeOK /\ NoLeakedController /\ [Next]_vars => NoLeakedController'
  BY ControllerStep
<1> QED
  BY <1>1, <1>2, TypeCorrect, PTL DEF Spec

\* What the counter bounds is what happens: a pool never has more runs that
\* have not settled than its concurrency and one for each further loop.
THEOREM RunsAreBounded ==
  Spec => [](\A p \in Procs : Cardinality(InSlot(tasks, p)) <= Concurrency - 1 + MaxDrains)
<1>1. TypeOK /\ OneRunPerClaim /\ SlotsCounted /\ OvershootBounded
        => \A p \in Procs : Cardinality(InSlot(tasks, p)) <= Concurrency - 1 + MaxDrains
  <2> SUFFICES ASSUME TypeOK, OneRunPerClaim, SlotsCounted, OvershootBounded,
                      NEW p \in Procs
               PROVE  Cardinality(InSlot(tasks, p)) <= Concurrency - 1 + MaxDrains
    OBVIOUS
  <2>1. /\ running[p] = Cardinality(InSlot(tasks, p)) /\ running[p] \in Int
        /\ picking[p] = Cardinality(Picked(tasks, p)) /\ picking[p] \in Nat
        /\ selecting[p] \in Nat
    BY SlotsAreSets, FiniteRuns DEF OneRunPerClaim, TypeOK
  <2>2. running[p] + selecting[p] + picking[p] <= Concurrency - 1 + MaxDrains
    BY DEF OvershootBounded
  <2> QED
    BY <2>1, <2>2, PoolAssumption
<1> QED
  BY <1>1, TypeCorrect, PoolInvariant, SlotsAreCounted, OvershootIsBounded, PTL
=============================================================================
