--------------------------- MODULE JobQueueProofs ---------------------------
(* Proofs about JobQueue, for every value of its constants. *)
EXTENDS JobQueue, FiniteSetTheorems, TLAPS

\* The number of jobs with a created_at is a natural number.
LEMMA CreatedIsNat == Cardinality({i \in Jobs : createdAt[i] > 0}) \in Nat
BY JobsAssumption, FS_Subset, FS_CardinalityType

\* The budget after an event.
LEMMA SpendType ==
  ASSUME TypeOK, NEW e \in Events, Spend(e)
  PROVE  budget' \in [Events -> Nat]
BY DEF TypeOK, Spend, Events

\* Replacing a run by one of the right type leaves runs of the right type.
LEMMA BecomesType ==
  ASSUME tasks \subseteq Task, NEW t \in tasks, NEW u \in Task, Becomes(t, u)
  PROVE  tasks' \subseteq Task
BY DEF Becomes

\* The ways the body of a run ends.
LEMMA BodyEndType ==
  ASSUME NEW t \in Task
  PROVE  /\ Returned(t) \in Task
         /\ Reported(t) \in Task
         /\ \A e \in {"transient", "permanent", "cancelled"} :
              Thrown(t, e) \in Task
BY DEF Returned, Reported, Thrown, Task, Pcs, BodyPcs, Errors, NoRow, Row,
       Statuses

\* A fresh run.
LEMMA NewRunType ==
  ASSUME NEW j \in Jobs, NEW n \in Nat, NEW p \in Procs
  PROVE  NewRun(j, n, p) \in Task
BY DEF NewRun, Task, Pcs, BodyPcs, Errors, NoRow, Row, Statuses

\* The counters of a pool after runJob has settled.
LEMMA FreeSlotType ==
  ASSUME TypeOK, NEW p \in Procs, NEW j \in Jobs, FreeSlot(p, j)
  PROVE  /\ running' \in [Procs -> Int]
         /\ active' \in [Procs -> [Jobs -> Nat]]
         /\ selecting' \in [Procs -> Nat]
         /\ picking' \in [Procs -> Int]
BY DEF TypeOK, FreeSlot

\* The counters of a pool after a claim.
LEMMA RunClaimType ==
  ASSUME TypeOK, NEW p \in Procs, NEW j \in Jobs, NEW n \in Nat, NEW s \in Nat,
         RunClaim(p, j, n, s)
  PROVE  /\ running' \in [Procs -> Int]
         /\ active' \in [Procs -> [Jobs -> Nat]]
         /\ selecting' \in [Procs -> Nat]
BY DEF TypeOK, RunClaim

LEMMA InitType == Init => TypeOK
BY BudgetAssumption DEF Init, TypeOK, NoRow, Row, Statuses

\* Type correctness is preserved: each action is taken in turn, those of a run
\* by the type of the run it leaves behind.
LEMMA TypeStep == TypeOK /\ [Next]_vars => TypeOK'
<1> SUFFICES ASSUME TypeOK, [Next]_vars PROVE TypeOK'
  OBVIOUS
<1> USE DEF TypeOK, queueVars, poolVars
<1>1. ASSUME NEW j \in Jobs, Create(j) PROVE TypeOK'
  <2> DEFINE created == Cardinality({i \in Jobs : createdAt[i] > 0})
  <2>0. created \in Nat
    BY CreatedIsNat
  <2>1. createdAt' = [createdAt EXCEPT ![j] = 1 + created]
    BY <1>1 DEF Create
  <2> HIDE DEF created
  <2>2. rows' \in [Jobs -> Row]
    BY <1>1 DEF Create, Row, Statuses
  <2>3. createdAt' \in [Jobs -> Nat]
    BY <2>0, <2>1
  <2> QED
    BY <1>1, <2>2, <2>3 DEF Create
<1>2. ASSUME NEW j \in Jobs, NEW force \in BOOLEAN, CancelRead(j, force)
      PROVE TypeOK'
  <2>1. [job |-> j, force |-> force,
         row |-> [rows[j] EXCEPT !.status = "cancelled"]] \in Cancel
    BY DEF Cancel, Row, Statuses
  <2>2. budget' \in [Events -> Nat]
    BY <1>2 DEF CancelRead, Spend, Events
  <2> QED
    BY <1>2, <2>1, <2>2 DEF CancelRead
<1>3. ASSUME NEW c \in cancels, CancelWrite(c) PROVE TypeOK'
  BY <1>3 DEF CancelWrite, Cancel
<1>4. ASSUME NEW p \in Procs, PoolStep(p) PROVE TypeOK'
  <2>1. CASE Poll(p)
    BY <2>1 DEF Poll
  <2>2. CASE ClaimNone(p)
    BY <2>2 DEF ClaimNone
  <2>3. CASE ClaimLocked(p)
    <3> PICK j \in Jobs :
          /\ rows' = [rows EXCEPT ![j] = Claimed(@, stamp[j] + 1)]
          /\ stamp' = [stamp EXCEPT ![j] = stamp[j] + 1]
          /\ tasks' = tasks \cup {NewRun(j, stamp[j] + 1, p)}
          /\ RunClaim(p, j, stamp[j] + 1, selecting[p] - 1)
      BY <2>3 DEF ClaimLocked
    <3>0. stamp[j] + 1 \in Nat
      OBVIOUS
    <3>1. rows' \in [Jobs -> Row]
      BY <3>0 DEF Claimed, Row, Statuses
    <3>2. NewRun(j, stamp[j] + 1, p) \in Task
      BY NewRunType
    <3>3. selecting[p] - 1 \in Nat
      BY <2>3 DEF ClaimLocked
    <3>4. /\ running' \in [Procs -> Int]
          /\ active' \in [Procs -> [Jobs -> Nat]]
          /\ selecting' \in [Procs -> Nat]
      BY <3>0, <3>3, RunClaimType
    <3> QED
      BY <2>3, <3>1, <3>2, <3>4 DEF ClaimLocked
  <2>4. CASE SelectUnlocked(p)
    <3> PICK j \in Jobs :
          /\ stamp' = [stamp EXCEPT ![j] = stamp[j] + 1]
          /\ tasks' = tasks \cup
               {[NewRun(j, stamp[j] + 1, p) EXCEPT
                   !.pc = "claim", !.body = "end",
                   !.row = Claimed(rows[j], stamp[j] + 1)]}
      BY <2>4 DEF SelectUnlocked
    <3>0. stamp[j] + 1 \in Nat
      OBVIOUS
    <3>1. Claimed(rows[j], stamp[j] + 1) \in Row
      BY <3>0 DEF Claimed, Row, Statuses
    <3>n. NewRun(j, stamp[j] + 1, p) \in Task
      BY <3>0, NewRunType
    <3>2. [NewRun(j, stamp[j] + 1, p) EXCEPT
             !.pc = "claim", !.body = "end",
             !.row = Claimed(rows[j], stamp[j] + 1)] \in Task
      BY <3>1, <3>n DEF Task, Pcs, BodyPcs
    <3>3. budget' \in [Events -> Nat]
      BY <2>4 DEF SelectUnlocked, Spend, Events
    <3> QED
      BY <2>4, <3>2, <3>3 DEF SelectUnlocked
  <2> QED
    BY <1>4, <2>1, <2>2, <2>3, <2>4 DEF PoolStep
<1>5. ASSUME NEW t \in tasks, TaskStep(t) PROVE TypeOK'
  <2>0. t \in Task /\ t.job \in Jobs /\ t.proc \in Procs
        /\ t.row \in Row /\ t.seen \in Row /\ t.n \in Nat
    BY DEF Task
  <2>r. rows[t.job] \in Row
    BY <2>0
  <2>1. CASE ClaimUnlocked(t)
    <3>1. rows' \in [Jobs -> Row]
      BY <2>0, <2>1 DEF ClaimUnlocked, Claimed, Row, Statuses
    <3>2. NewRun(t.job, t.n, t.proc) \in Task
      BY <2>0, NewRunType
    <3>3. /\ running' \in [Procs -> Int]
          /\ active' \in [Procs -> [Jobs -> Nat]]
          /\ selecting' \in [Procs -> Nat]
      BY <2>0, <2>1, RunClaimType DEF ClaimUnlocked
    <3>4. picking' \in [Procs -> Int]
      BY <2>0, <2>1 DEF ClaimUnlocked
    <3>5. tasks' \subseteq Task
      BY <2>1, <3>2 DEF ClaimUnlocked
    <3> QED
      BY <2>1, <3>1, <3>3, <3>4, <3>5 DEF ClaimUnlocked
  <2>2. ASSUME NEW final \in BOOLEAN, Report(t, final) PROVE TypeOK'
    <3>1. Thrown(t, "cancelled") \in Task
      BY <2>0, BodyEndType
    <3>2. [t EXCEPT !.body = "get", !.final = final] \in Task
      BY <2>0 DEF Task, BodyPcs
    <3> QED
      BY <2>2, <3>1, <3>2, BecomesType DEF Report
  <2>3. CASE ReportRead(t)
    <3>1. Reported(t) \in Task
      BY <2>0, BodyEndType
    <3>2. [t EXCEPT !.body = "put", !.seen = rows[t.job]] \in Task
      BY <2>0, <2>r DEF Task, BodyPcs
    <3> QED
      BY <2>3, <3>1, <3>2, BecomesType DEF ReportRead
  <2>4. CASE ReportWrite(t)
    <3>1. Reported(t) \in Task
      BY <2>0, BodyEndType
    <3> QED
      BY <2>0, <2>4, <3>1, BecomesType DEF ReportWrite
  <2>5. ASSUME NEW e \in {"transient", "permanent"}, ReportFails(t, e)
        PROVE TypeOK'
    <3>1. Thrown(t, e) \in Task
      BY <2>0, BodyEndType
    <3>2. budget' \in [Events -> Nat]
      BY <2>5 DEF ReportFails, Spend, Events
    <3> QED
      BY <2>0, <2>5, <3>1, <3>2, BecomesType DEF ReportFails
  <2>6. ASSUME NEW e \in {"transient", "permanent"}, Throw(t, e)
        PROVE TypeOK'
    <3>1. Thrown(t, e) \in Task
      BY <2>0, BodyEndType
    <3> QED
      BY <2>6, <3>1, BecomesType DEF Throw
  <2>7. CASE Timeout(t)
    <3>1. [t EXCEPT !.pc = "hget", !.err = "transient", !.aborted = TRUE] \in Task
      BY <2>0 DEF Task, Pcs, BodyPcs, Errors, NoRow, Row, Statuses
    <3> QED
      BY <2>0, <2>7, <3>1, BecomesType DEF Timeout
  <2>8. CASE CompleteRead(t)
    <3>1. [rows[t.job] EXCEPT !.status = "completed"] \in Row
      BY <2>r DEF Row, Statuses
    <3>2. [t EXCEPT !.pc = "cput",
             !.row = [rows[t.job] EXCEPT !.status = "completed"]] \in Task
      BY <2>0, <3>1 DEF Task, Pcs
    <3> QED
      BY <2>8, <3>2, BecomesType DEF CompleteRead
  <2>9. CASE CompleteWrite(t)
    <3>1. [t EXCEPT !.pc = "store", !.row = NoRow] \in Task
      BY <2>0 DEF Task, Pcs, BodyPcs, Errors, NoRow, Row, Statuses
    <3> QED
      BY <2>0, <2>9, <3>1, BecomesType DEF CompleteWrite
  <2>10. CASE StoreResult(t)
    <3>1. [t EXCEPT !.pc = "end"] \in Task
      BY <2>0 DEF Task, Pcs
    <3> QED
      BY <2>0, <2>10, <3>1, BecomesType, FreeSlotType DEF StoreResult
  <2>11. ASSUME NEW e \in {"transient", "permanent"}, CompleteFails(t, e)
         PROVE TypeOK'
    <3>1. [t EXCEPT !.pc = "hget", !.row = NoRow, !.err = e] \in Task
      BY <2>0 DEF Task, Pcs, Errors, NoRow, Row, Statuses
    <3>2. budget' \in [Events -> Nat]
      BY <2>11 DEF CompleteFails, Spend, Events
    <3> QED
      BY <2>0, <2>11, <3>1, <3>2, BecomesType DEF CompleteFails
  <2>12. CASE HandleFailure(t)
    <3>1. /\ [t EXCEPT !.pc = "backoff", !.row = rows[t.job], !.err = "none"]
               \in Task
          /\ [t EXCEPT !.pc = "fget", !.err = "none"] \in Task
      BY <2>0, <2>r DEF Task, Pcs, Errors
    <3>2. tasks' \subseteq Task
      BY <2>12, <3>1, BecomesType DEF HandleFailure
    <3>3. /\ running' \in [Procs -> Int]
          /\ active' \in [Procs -> [Jobs -> Nat]]
          /\ selecting' \in [Procs -> Nat]
          /\ picking' \in [Procs -> Int]
      <4>1. CASE FreeSlot(t.proc, t.job)
        BY <2>0, <4>1, FreeSlotType
      <4>2. CASE UNCHANGED poolVars
        BY <4>2
      <4> QED
        BY <2>12, <4>1, <4>2 DEF HandleFailure
    <3> QED
      BY <2>12, <3>2, <3>3 DEF HandleFailure
  <2>13. CASE FailRead(t)
    <3>1. [rows[t.job] EXCEPT !.status = "failed"] \in Row
      BY <2>r DEF Row, Statuses
    <3>2. [t EXCEPT !.pc = "fput",
             !.row = [rows[t.job] EXCEPT !.status = "failed"]] \in Task
      BY <2>0, <3>1 DEF Task, Pcs
    <3> QED
      BY <2>13, <3>2, BecomesType DEF FailRead
  <2>14. CASE FailWrite(t)
    <3>1. [t EXCEPT !.pc = "end", !.row = NoRow] \in Task
      BY <2>0 DEF Task, Pcs, NoRow, Row, Statuses
    <3> QED
      BY <2>0, <2>14, <3>1, BecomesType, FreeSlotType DEF FailWrite
  <2>15. CASE Requeue(t)
    <3>1. [t EXCEPT !.pc = "end", !.row = NoRow] \in Task
      BY <2>0 DEF Task, Pcs, NoRow, Row, Statuses
    <3>0. t.row.retry + 1 \in Nat
      BY <2>0 DEF Row
    <3>2. Requeued(t.row) \in Row
      BY <2>0, <3>0 DEF Requeued, Row, Statuses
    <3> QED
      BY <2>0, <2>15, <3>1, <3>2, BecomesType DEF Requeue
  <2> QED
    BY <1>5, <2>1, <2>2, <2>3, <2>4, <2>5, <2>6, <2>7, <2>8, <2>9, <2>10,
       <2>11, <2>12, <2>13, <2>14, <2>15 DEF TaskStep
<1>6. ASSUME NEW j \in Jobs, Age(j) PROVE TypeOK'
  <2>1. budget' \in [Events -> Nat]
    BY <1>6 DEF Age, Spend, Events
  <2> QED
    BY <1>6, <2>1 DEF Age
<1>7. ASSUME NEW p \in Procs, Stop(p) PROVE TypeOK'
  <2>1. budget' \in [Events -> Nat]
    <3>1. Spend("stop")
      BY <1>7 DEF Stop
    <3> QED
      BY <3>1, SpendType DEF Events
  <2>2. \A t \in tasks : [t EXCEPT !.aborted = TRUE] \in Task
    BY DEF Task
  <2>3. tasks' \subseteq Task
    BY <1>7, <2>2 DEF Stop
  <2> QED
    BY <1>7, <2>1, <2>3 DEF Stop
<1>8. ASSUME NEW p \in Procs, Down(p) PROVE TypeOK'
  <2>1. budget' \in [Events -> Nat]
    BY <1>8 DEF Down, Spend, Events
  <2>2. /\ rows' \in [Jobs -> Row]
        /\ createdAt' \in [Jobs -> Nat]
        /\ cancels' \subseteq Cancel
    BY <1>8 DEF Down, NoRow, Row, Statuses
  <2> QED
    BY <1>8, <2>1, <2>2 DEF Down
<1>9. ASSUME NEW p \in Procs, Start(p) PROVE TypeOK'
  <2>1. rows' \in [Jobs -> Row]
    BY <1>9 DEF Start, Reclaimed, Row, Statuses
  <2> QED
    BY <1>9, <2>1 DEF Start
<1>10. ASSUME NEW p \in Procs, ReclaimStale(p) PROVE TypeOK'
  <2>1. rows' \in [Jobs -> Row]
    BY <1>10 DEF ReclaimStale, Reclaimed, Row, Statuses
  <2> QED
    BY <1>10, <2>1 DEF ReclaimStale
<1>11. CASE UNCHANGED vars
  BY <1>11 DEF vars
<1> QED
  BY <1>1, <1>2, <1>3, <1>4, <1>5, <1>6, <1>7, <1>8, <1>9, <1>10, <1>11
     DEF Next

\* Every variable keeps its type, in every deployment.
THEOREM TypeCorrect == Spec => []TypeOK
<1>1. Init => TypeOK
  BY InitType
<1>2. TypeOK /\ [Next]_vars => TypeOK'
  BY TypeStep
<1> QED
  BY <1>1, <1>2, PTL DEF Spec

----------------------------------------------------------------------------
(* The bound on the jobs a pool runs at once *)

\* A slot given back makes room for the drain() it starts.
LEMMA FreeSlotBounded ==
  ASSUME TypeOK, OvershootBounded, NEW p \in Procs, NEW j \in Jobs,
         FreeSlot(p, j)
  PROVE  OvershootBounded'
<1> SUFFICES ASSUME NEW q \in Procs
             PROVE  /\ selecting'[q] + picking'[q] <= MaxDrains
                    /\ running'[q] + selecting'[q] + picking'[q]
                         <= Concurrency - 1 + MaxDrains
  BY DEF OvershootBounded
<1>1. /\ running[q] \in Int /\ selecting[q] \in Int /\ picking[q] \in Int
      /\ Concurrency \in Int /\ MaxDrains \in Int
  BY PoolAssumption DEF TypeOK
<1>2. /\ selecting[q] + picking[q] <= MaxDrains
      /\ running[q] + selecting[q] + picking[q] <= Concurrency - 1 + MaxDrains
  BY DEF OvershootBounded
<1>3. /\ running'[q] = IF q = p THEN running[q] - 1 ELSE running[q]
      /\ selecting'[q] = IF q = p /\ MayDrain(p, running[p] - 1)
                            THEN selecting[q] + 1 ELSE selecting[q]
      /\ picking'[q] = picking[q]
  BY DEF FreeSlot, TypeOK
<1>4. CASE q = p /\ MayDrain(p, running[p] - 1)
  BY <1>1, <1>2, <1>3, <1>4 DEF MayDrain
<1>5. CASE ~(q = p /\ MayDrain(p, running[p] - 1))
  BY <1>1, <1>2, <1>3, <1>5
<1> QED
  BY <1>4, <1>5

\* A loop that has claimed either ends or has found a slot free: s and d are
\* the loops selecting and picking without the one that claimed.
LEMMA RunClaimBounded ==
  ASSUME TypeOK, OvershootBounded, NEW p \in Procs, NEW j \in Jobs,
         NEW n \in Nat, NEW s \in Nat, NEW d \in Int,
         RunClaim(p, j, n, s),
         picking' = [picking EXCEPT ![p] = d],
         s + d + 1 = selecting[p] + picking[p]
  PROVE  OvershootBounded'
<1> SUFFICES ASSUME NEW q \in Procs
             PROVE  /\ selecting'[q] + picking'[q] <= MaxDrains
                    /\ running'[q] + selecting'[q] + picking'[q]
                         <= Concurrency - 1 + MaxDrains
  BY DEF OvershootBounded
<1>1. /\ running[q] \in Int /\ selecting[q] \in Int /\ picking[q] \in Int
      /\ Concurrency \in Int /\ MaxDrains \in Int
  BY PoolAssumption DEF TypeOK
<1>2. /\ selecting[q] + picking[q] <= MaxDrains
      /\ running[q] + selecting[q] + picking[q] <= Concurrency - 1 + MaxDrains
  BY DEF OvershootBounded
<1>3. /\ running'[q] = IF q = p THEN running[q] + 1 ELSE running[q]
      /\ selecting'[q] = IF q # p THEN selecting[q]
                         ELSE IF HasSlot(running[p] + 1) THEN s + 1 ELSE s
      /\ picking'[q] = IF q = p THEN d ELSE picking[q]
  BY DEF RunClaim, TypeOK
<1>4. CASE q # p
  BY <1>1, <1>2, <1>3, <1>4
<1>5. CASE q = p /\ HasSlot(running[p] + 1)
  BY <1>1, <1>2, <1>3, <1>5 DEF HasSlot
<1>6. CASE q = p /\ ~HasSlot(running[p] + 1)
  BY <1>1, <1>2, <1>3, <1>6
<1> QED
  BY <1>4, <1>5, <1>6

\* The bound is preserved: only the steps of drain() and the end of a run touch
\* the counters.
LEMMA OvershootStep == TypeOK /\ OvershootBounded /\ [Next]_vars => OvershootBounded'
<1> SUFFICES ASSUME TypeOK, OvershootBounded, [Next]_vars
             PROVE  OvershootBounded'
  OBVIOUS
<1>u. ASSUME UNCHANGED <<running, selecting, picking>> PROVE OvershootBounded'
  BY <1>u DEF OvershootBounded
<1>n. /\ Concurrency \in Nat \ {0} /\ MaxDrains \in Nat \ {0}
      /\ running \in [Procs -> Int]
      /\ selecting \in [Procs -> Nat]
      /\ picking \in [Procs -> Int]
      /\ stamp \in [Jobs -> Nat]
  BY PoolAssumption DEF TypeOK
<1>1. ASSUME NEW p \in Procs, PoolStep(p) PROVE OvershootBounded'
  <2>1. CASE Poll(p)
    BY <1>n, <2>1 DEF Poll, MayDrain, HasSlot, OvershootBounded
  <2>2. CASE ClaimNone(p)
    BY <1>n, <2>2 DEF ClaimNone, OvershootBounded
  <2>3. CASE ClaimLocked(p)
    <3> PICK j \in Jobs : RunClaim(p, j, stamp[j] + 1, selecting[p] - 1)
      BY <2>3 DEF ClaimLocked
    <3>1. /\ selecting[p] - 1 \in Nat
          /\ stamp[j] + 1 \in Nat
          /\ picking[p] \in Int
          /\ selecting[p] - 1 + picking[p] + 1 = selecting[p] + picking[p]
      BY <1>n, <2>3 DEF ClaimLocked
    <3>2. picking' = [picking EXCEPT ![p] = picking[p]]
      BY <1>n, <2>3 DEF ClaimLocked
    <3> QED
      BY <3>1, <3>2, RunClaimBounded
  <2>4. CASE SelectUnlocked(p)
    BY <1>n, <2>4 DEF SelectUnlocked, OvershootBounded
  <2> QED
    BY <1>1, <2>1, <2>2, <2>3, <2>4 DEF PoolStep
<1>2. ASSUME NEW t \in tasks, TaskStep(t) PROVE OvershootBounded'
  <2>0. t.proc \in Procs /\ t.job \in Jobs /\ t.n \in Nat
    BY DEF TypeOK, Task
  <2>1. CASE ClaimUnlocked(t)
    <3>1. /\ selecting[t.proc] \in Nat
          /\ picking[t.proc] - 1 \in Int
          /\ selecting[t.proc] + (picking[t.proc] - 1) + 1
               = selecting[t.proc] + picking[t.proc]
      BY <1>n, <2>0
    <3>2. /\ picking' = [picking EXCEPT ![t.proc] = picking[t.proc] - 1]
          /\ RunClaim(t.proc, t.job, t.n, selecting[t.proc])
      BY <2>1 DEF ClaimUnlocked
    <3> QED
      BY <2>0, <3>1, <3>2, RunClaimBounded
  <2>2. CASE \/ StoreResult(t) \/ FailWrite(t)
    BY <2>0, <2>2, FreeSlotBounded DEF StoreResult, FailWrite
  <2>3. CASE HandleFailure(t)
    <3>1. CASE FreeSlot(t.proc, t.job)
      BY <2>0, <3>1, FreeSlotBounded
    <3>2. CASE UNCHANGED poolVars
      BY <1>u, <3>2 DEF poolVars
    <3> QED
      BY <2>3, <3>1, <3>2 DEF HandleFailure
  <2>4. CASE \/ \E final \in BOOLEAN : Report(t, final)
             \/ ReportRead(t) \/ ReportWrite(t)
             \/ \E e \in {"transient", "permanent"} : ReportFails(t, e)
             \/ \E e \in {"transient", "permanent"} : Throw(t, e)
             \/ Timeout(t) \/ CompleteRead(t) \/ CompleteWrite(t)
             \/ \E e \in {"transient", "permanent"} : CompleteFails(t, e)
             \/ FailRead(t) \/ Requeue(t)
    BY <1>u, <2>4 DEF Report, ReportRead, ReportWrite, ReportFails, Throw,
       Timeout, CompleteRead, CompleteWrite, CompleteFails, FailRead, Requeue,
       poolVars
  <2> QED
    BY <1>2, <2>1, <2>2, <2>3, <2>4 DEF TaskStep
<1>3. ASSUME NEW p \in Procs, Down(p) PROVE OvershootBounded'
  BY <1>n, <1>3 DEF Down, OvershootBounded
<1>4. CASE \/ \E j \in Jobs : Create(j) \/ Age(j)
           \/ \E j \in Jobs, force \in BOOLEAN : CancelRead(j, force)
           \/ \E c \in cancels : CancelWrite(c)
           \/ \E p \in Procs : Stop(p) \/ Start(p) \/ ReclaimStale(p)
           \/ UNCHANGED vars
  BY <1>u, <1>4 DEF Create, Age, CancelRead, CancelWrite, Stop, Start,
     ReclaimStale, poolVars, vars
<1> QED
  BY <1>1, <1>2, <1>3, <1>4 DEF Next

\* In every deployment a pool runs at most its concurrency plus one job for
\* every further drain() loop in flight.
THEOREM OvershootIsBounded == Spec => []OvershootBounded
<1>1. Init => OvershootBounded
  BY PoolAssumption DEF Init, OvershootBounded
<1>2. TypeOK /\ OvershootBounded /\ [Next]_vars => OvershootBounded'
  BY OvershootStep
<1> QED
  BY <1>1, <1>2, TypeCorrect, PTL DEF Spec

----------------------------------------------------------------------------
(* Good rows *)

\* Writing a good row keeps the table good.
LEMMA WriteGood ==
  ASSUME TypeOK, RowsGood, NEW j \in Jobs, NEW r, GoodRow(r),
         rows' = [rows EXCEPT ![j] = r]
  PROVE  RowsGood'
BY DEF TypeOK, RowsGood, GoodRow

\* A run that becomes a good one leaves all snapshots good.
LEMMA BecomesGood ==
  ASSUME SnapshotsGood, NEW t \in tasks, NEW u, GoodTask(u), Becomes(t, u),
         UNCHANGED cancels
  PROVE  SnapshotsGood'
BY DEF SnapshotsGood, GoodTask, GoodRow, Becomes

\* Snapshots taken from a good row, with the changes the code makes to them.
LEMMA GoodCopies ==
  ASSUME NEW r \in Row, GoodRow(r)
  PROVE  /\ \A s \in Terminal : GoodRow([r EXCEPT !.status = s])
         /\ GoodRow(Reclaimed(r))
         /\ \A n \in Nat \ {0} : GoodRow(Claimed(r, n))
         /\ r.retry < MaxRetries => GoodRow(Requeued(r))
BY PoolAssumption DEF Row, Statuses, GoodRow, Reclaimed, Claimed, Requeued,
   Terminal

LEMMA NoRowGood == NoRow \in Row /\ GoodRow(NoRow)
BY PoolAssumption DEF NoRow, Row, Statuses, GoodRow

\* A body that ends, or goes on after a report, leaves the run good.
LEMMA BodyEndGood ==
  ASSUME NEW t \in Task, GoodTask(t)
  PROVE  /\ GoodTask(Reported(t))
         /\ \A e \in {"transient", "permanent", "cancelled"} :
              GoodTask(Thrown(t, e))
BY NoRowGood DEF Task, GoodTask, Reported, Returned, Thrown

LEMMA NewRunGood ==
  ASSUME NEW j \in Jobs, NEW n \in Nat \ {0}, NEW p \in Procs
  PROVE  GoodTask(NewRun(j, n, p))
BY NoRowGood DEF GoodTask, NewRun

\* Rows and snapshots stay good: every write is of a good snapshot, and every
\* snapshot is of a good row.
LEMMA GoodStep ==
  TypeOK /\ RowsGood /\ SnapshotsGood /\ [Next]_vars
    => RowsGood' /\ SnapshotsGood'
<1> SUFFICES ASSUME TypeOK, RowsGood, SnapshotsGood, [Next]_vars
             PROVE  RowsGood' /\ SnapshotsGood'
  OBVIOUS
<1>r. ASSUME NEW j \in Jobs PROVE rows[j] \in Row /\ GoodRow(rows[j])
  BY DEF TypeOK, RowsGood
<1>u. ASSUME UNCHANGED rows PROVE RowsGood'
  BY <1>u DEF RowsGood
<1>v. ASSUME UNCHANGED <<tasks, cancels>> PROVE SnapshotsGood'
  BY <1>v DEF SnapshotsGood
<1>1. ASSUME NEW j \in Jobs, Create(j) PROVE RowsGood' /\ SnapshotsGood'
  <2>1. rows' = [rows EXCEPT ![j] = [rows[j] EXCEPT !.status = "queued"]]
    BY <1>1 DEF Create, TypeOK
  <2>2. GoodRow([rows[j] EXCEPT !.status = "queued"])
    BY <1>1, <1>r DEF Create, GoodRow, Row
  <2> QED
    BY <1>1, <1>v, <2>1, <2>2, WriteGood DEF Create
<1>2. ASSUME NEW j \in Jobs, NEW force \in BOOLEAN, CancelRead(j, force)
      PROVE RowsGood' /\ SnapshotsGood'
  <2>1. GoodRow([rows[j] EXCEPT !.status = "cancelled"])
    BY <1>r, GoodCopies DEF Terminal
  <2>2. SnapshotsGood'
    BY <1>2, <2>1 DEF CancelRead, SnapshotsGood
  <2> QED
    BY <1>2, <1>u, <2>2 DEF CancelRead
<1>3. ASSUME NEW c \in cancels, CancelWrite(c) PROVE RowsGood' /\ SnapshotsGood'
  <2>1. c.job \in Jobs /\ GoodRow(c.row)
    BY DEF TypeOK, Cancel, SnapshotsGood
  <2>2. RowsGood'
    BY <1>3, <2>1, WriteGood DEF CancelWrite
  <2>3. SnapshotsGood'
    BY <1>3 DEF CancelWrite, SnapshotsGood
  <2> QED
    BY <2>2, <2>3
<1>4. ASSUME NEW p \in Procs, PoolStep(p) PROVE RowsGood' /\ SnapshotsGood'
  <2>1. CASE Poll(p) \/ ClaimNone(p)
    BY <1>u, <1>v, <2>1 DEF Poll, ClaimNone, queueVars
  <2>2. CASE ClaimLocked(p)
    <3> PICK j \in Jobs :
          /\ rows' = [rows EXCEPT ![j] = Claimed(@, stamp[j] + 1)]
          /\ tasks' = tasks \cup {NewRun(j, stamp[j] + 1, p)}
      BY <2>2 DEF ClaimLocked
    <3>1. stamp[j] + 1 \in Nat \ {0}
      BY DEF TypeOK
    <3>2. GoodRow(Claimed(rows[j], stamp[j] + 1))
      BY <1>r, <3>1, GoodCopies
    <3>3. RowsGood'
      BY <3>2, WriteGood DEF TypeOK
    <3>4. SnapshotsGood'
      BY <2>2, <3>1, NewRunGood DEF ClaimLocked, SnapshotsGood
    <3> QED
      BY <3>3, <3>4
  <2>3. CASE SelectUnlocked(p)
    <3> PICK j \in Jobs :
          tasks' = tasks \cup
            {[NewRun(j, stamp[j] + 1, p) EXCEPT
                !.pc = "claim", !.body = "end",
                !.row = Claimed(rows[j], stamp[j] + 1)]}
      BY <2>3 DEF SelectUnlocked
    <3>1. stamp[j] + 1 \in Nat \ {0}
      BY DEF TypeOK
    <3>2. /\ GoodRow(Claimed(rows[j], stamp[j] + 1))
          /\ Claimed(rows[j], stamp[j] + 1).status = "running"
      BY <1>r, <3>1, GoodCopies DEF Claimed, Row
    <3>3. GoodTask([NewRun(j, stamp[j] + 1, p) EXCEPT
                      !.pc = "claim", !.body = "end",
                      !.row = Claimed(rows[j], stamp[j] + 1)])
      BY <3>1, <3>2, NewRunGood DEF GoodTask, NewRun
    <3>4. SnapshotsGood'
      BY <2>3, <3>3 DEF SelectUnlocked, SnapshotsGood
    <3> QED
      BY <1>u, <2>3, <3>4 DEF SelectUnlocked
  <2> QED
    BY <1>4, <2>1, <2>2, <2>3 DEF PoolStep
<1>5. ASSUME NEW t \in tasks, TaskStep(t) PROVE RowsGood' /\ SnapshotsGood'
  <2>0. /\ t \in Task /\ t.job \in Jobs /\ t.proc \in Procs
        /\ t.row \in Row /\ t.n \in Nat \ {0}
        /\ GoodTask(t) /\ GoodRow(t.row) /\ GoodRow(t.seen)
    BY DEF TypeOK, Task, SnapshotsGood, GoodTask
  <2>r. rows[t.job] \in Row /\ GoodRow(rows[t.job])
    BY <1>r, <2>0
  <2>1. CASE ClaimUnlocked(t)
    <3>1. GoodRow(Claimed(rows[t.job], t.n))
      BY <2>0, <2>r, GoodCopies
    <3>2. RowsGood'
      <4>1. CASE rows' = [rows EXCEPT ![t.job] = t.row]
        BY <2>0, <4>1, WriteGood
      <4>2. CASE rows' = [rows EXCEPT ![t.job] = Claimed(@, t.n)]
        BY <2>0, <3>1, <4>2, WriteGood DEF TypeOK
      <4> QED
        BY <1>u, <2>1, <4>1, <4>2 DEF ClaimUnlocked
    <3>3. SnapshotsGood'
      BY <2>0, <2>1, NewRunGood DEF ClaimUnlocked, SnapshotsGood
    <3> QED
      BY <3>2, <3>3
  <2>2. ASSUME NEW final \in BOOLEAN, Report(t, final)
        PROVE RowsGood' /\ SnapshotsGood'
    <3>1. GoodTask([t EXCEPT !.body = "get", !.final = final])
      BY <2>0 DEF GoodTask, Task
    <3>2. GoodTask(Thrown(t, "cancelled"))
      BY <2>0, BodyEndGood
    <3> QED
      BY <1>u, <2>2, <3>1, <3>2, BecomesGood DEF Report, queueVars
  <2>3. CASE ReportRead(t)
    <3>1. GoodTask([t EXCEPT !.body = "put", !.seen = rows[t.job]])
      BY <2>0, <2>r DEF GoodTask, Task
    <3>2. GoodTask(Reported(t))
      BY <2>0, BodyEndGood
    <3> QED
      BY <1>u, <2>3, <3>1, <3>2, BecomesGood DEF ReportRead, queueVars
  <2>4. CASE ReportWrite(t)
    <3>1. GoodTask(Reported(t))
      BY <2>0, BodyEndGood
    <3> QED
      BY <2>0, <2>4, <3>1, WriteGood, BecomesGood DEF ReportWrite
  <2>5. ASSUME NEW e \in {"transient", "permanent"}, ReportFails(t, e)
        PROVE RowsGood' /\ SnapshotsGood'
    <3>1. GoodTask(Thrown(t, e))
      BY <2>0, BodyEndGood
    <3> QED
      BY <1>u, <2>0, <2>5, <3>1, WriteGood, BecomesGood DEF ReportFails
  <2>6. ASSUME NEW e \in {"transient", "permanent"}, Throw(t, e)
        PROVE RowsGood' /\ SnapshotsGood'
    <3>1. GoodTask(Thrown(t, e))
      BY <2>0, BodyEndGood
    <3> QED
      BY <1>u, <2>6, <3>1, BecomesGood DEF Throw, queueVars
  <2>7. CASE Timeout(t)
    <3>1. GoodTask([t EXCEPT !.pc = "hget", !.err = "transient",
                             !.aborted = TRUE])
      BY <2>0 DEF GoodTask, Task
    <3> QED
      BY <1>u, <2>7, <3>1, BecomesGood DEF Timeout, queueVars
  <2>8. CASE CompleteRead(t)
    <3>1. GoodRow([rows[t.job] EXCEPT !.status = "completed"])
      BY <2>r, GoodCopies DEF Terminal
    <3>2. GoodTask([t EXCEPT !.pc = "cput",
                      !.row = [rows[t.job] EXCEPT !.status = "completed"]])
      BY <2>0, <3>1 DEF GoodTask, Task
    <3> QED
      BY <1>u, <2>8, <3>2, BecomesGood DEF CompleteRead, queueVars
  <2>9. CASE CompleteWrite(t)
    <3>1. GoodTask([t EXCEPT !.pc = "store", !.row = NoRow])
      BY <2>0, NoRowGood DEF GoodTask, Task
    <3> QED
      BY <2>0, <2>9, <3>1, WriteGood, BecomesGood DEF CompleteWrite
  <2>10. CASE StoreResult(t)
    <3>1. GoodTask([t EXCEPT !.pc = "end"])
      BY <2>0 DEF GoodTask, Task
    <3> QED
      BY <1>u, <2>10, <3>1, BecomesGood DEF StoreResult, queueVars
  <2>11. ASSUME NEW e \in {"transient", "permanent"}, CompleteFails(t, e)
         PROVE RowsGood' /\ SnapshotsGood'
    <3>1. GoodTask([t EXCEPT !.pc = "hget", !.row = NoRow, !.err = e])
      BY <2>0, NoRowGood DEF GoodTask, Task
    <3> QED
      BY <1>u, <2>0, <2>11, <3>1, WriteGood, BecomesGood DEF CompleteFails
  <2>12. CASE HandleFailure(t)
    <3>1. rows[t.job].retry < MaxRetries =>
            GoodTask([t EXCEPT !.pc = "backoff", !.row = rows[t.job],
                               !.err = "none"])
      BY <2>0, <2>r DEF GoodTask, Task
    <3>2. GoodTask([t EXCEPT !.pc = "fget", !.err = "none"])
      BY <2>0 DEF GoodTask, Task
    <3> QED
      BY <1>u, <2>12, <3>1, <3>2, BecomesGood DEF HandleFailure, queueVars
  <2>13. CASE FailRead(t)
    <3>1. GoodRow([rows[t.job] EXCEPT !.status = "failed"])
      BY <2>r, GoodCopies DEF Terminal
    <3>2. GoodTask([t EXCEPT !.pc = "fput",
                      !.row = [rows[t.job] EXCEPT !.status = "failed"]])
      BY <2>0, <3>1 DEF GoodTask, Task
    <3> QED
      BY <1>u, <2>13, <3>2, BecomesGood DEF FailRead, queueVars
  <2>14. CASE FailWrite(t)
    <3>1. GoodTask([t EXCEPT !.pc = "end", !.row = NoRow])
      BY <2>0, NoRowGood DEF GoodTask, Task
    <3> QED
      BY <2>0, <2>14, <3>1, WriteGood, BecomesGood DEF FailWrite
  <2>15. CASE Requeue(t)
    <3>1. GoodRow(Requeued(t.row))
      BY <2>0, <2>15, GoodCopies DEF Requeue, GoodTask
    <3>2. GoodTask([t EXCEPT !.pc = "end", !.row = NoRow])
      BY <2>0, NoRowGood DEF GoodTask, Task
    <3> QED
      BY <2>0, <2>15, <3>1, <3>2, WriteGood, BecomesGood DEF Requeue
  <2> QED
    BY <1>5, <2>1, <2>2, <2>3, <2>4, <2>5, <2>6, <2>7, <2>8, <2>9, <2>10,
       <2>11, <2>12, <2>13, <2>14, <2>15 DEF TaskStep
<1>6. ASSUME NEW p \in Procs, Stop(p) PROVE RowsGood' /\ SnapshotsGood'
  <2>1. \A t \in tasks : GoodTask([t EXCEPT !.aborted = TRUE])
    BY DEF TypeOK, Task, SnapshotsGood, GoodTask
  <2>2. SnapshotsGood'
    BY <1>6, <2>1 DEF Stop, SnapshotsGood
  <2> QED
    BY <1>6, <1>u, <2>2 DEF Stop, queueVars
<1>7. ASSUME NEW p \in Procs, Down(p) PROVE RowsGood' /\ SnapshotsGood'
  <2>1. RowsGood'
    BY <1>7, <1>u, NoRowGood DEF Down, RowsGood
  <2>2. SnapshotsGood'
    BY <1>7 DEF Down, SnapshotsGood
  <2> QED
    BY <2>1, <2>2
<1>8. ASSUME NEW p \in Procs, Start(p) \/ ReclaimStale(p)
      PROVE RowsGood' /\ SnapshotsGood'
  <2>1. \A j \in Jobs : GoodRow(rows[j]) /\ GoodRow(Reclaimed(rows[j]))
    BY <1>r, GoodCopies
  <2>2. RowsGood'
    BY <1>8, <2>1 DEF Start, ReclaimStale, RowsGood
  <2> QED
    BY <1>8, <1>v, <2>2 DEF Start, ReclaimStale
<1>9. CASE (\E j \in Jobs : Age(j)) \/ UNCHANGED vars
  BY <1>9, <1>u, <1>v DEF Age, vars
<1> QED
  BY <1>1, <1>2, <1>3, <1>4, <1>5, <1>6, <1>7, <1>8, <1>9 DEF Next

LEMMA GoodInvariant == Spec => [](RowsGood /\ SnapshotsGood)
<1>1. Init => RowsGood /\ SnapshotsGood
  BY NoRowGood DEF Init, RowsGood, SnapshotsGood
<1>2. TypeOK /\ RowsGood /\ SnapshotsGood /\ [Next]_vars
        => RowsGood' /\ SnapshotsGood'
  BY GoodStep
<1> QED
  BY <1>1, <1>2, TypeCorrect, PTL DEF Spec

\* In every deployment, whatever fails and overlaps, the rows stay ones the
\* queue can work with.
THEOREM RowsAreGood == Spec => []RowsGood
BY GoodInvariant, PTL

\* So do the rows that runs and cancellations have read and will write back.
THEOREM SnapshotsAreGood == Spec => []SnapshotsGood
BY GoodInvariant, PTL
=============================================================================
