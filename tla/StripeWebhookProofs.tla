------------------------ MODULE StripeWebhookProofs ------------------------
(***************************************************************************)
(* Proofs about the claims of Stripe events, for any number of events of   *)
(* any kinds, of requests and of faults: at most one request handles an    *)
(* event, what Stripe was told is done has been done, and a handler runs   *)
(* to its end again only when the completion of a run was lost.            *)
(***************************************************************************)
EXTENDS StripeWebhook, TLAPS

Orgs == [plan : {"free", "pro"}, tier : {"none", "pro", "max"},
         inventory : {"none", "paid"}, seats : {"one", "many"},
         status : {"active", "past_due", "canceled"},
         userTiers : {"none", "some"}]
Statuses == {"none", "processing", "completed", "failed"}

(* The inductive invariant. *)

\* A request that is not idle has an event.
Assigned == \A s \in Slots : pc[s] # "idle" => ev[s] \in Events

\* The row of an event shows that a request handles it; only after the error
\* of a completion that took effect it shows the event as done.
ClaimHeld ==
  \A s \in Slots : Handles(s) =>
    \/ rows[ev[s]] = "processing"
    \/ pc[s] = "fail" /\ rows[ev[s]] = "completed"

\* What is recorded, or about to be recorded, as done was done.
DoneIsApplied ==
  /\ \A e \in Events : rows[e] = "completed" => applied[e] > 0
  /\ \A s \in Slots : pc[s] = "complete" => applied[ev[s]] > 0

AckedIsDone == \A e \in Events : e \in acked => rows[e] = "completed"

\* As long as an event may be handled again, or its handler has not come to
\* its end, every earlier run has lost its completion.
RunsCounted ==
  /\ \A e \in Events : applied[e] <= 1 + undone[e]
  /\ \A e \in Events : rows[e] \in {"none", "failed"} => applied[e] <= undone[e]
  /\ \A s \in Slots :
       pc[s] \in Writing \/ (pc[s] = "fail" /\ rows[ev[s]] = "processing")
         => applied[ev[s]] <= undone[ev[s]]

IInv == TypeOK /\ Assigned /\ ClaimHeld /\ OneHandler /\ DoneIsApplied
        /\ AckedIsDone /\ RunsCounted

-----------------------------------------------------------------------------
(* Types *)

\* A statement of a handler leaves an organization.
LEMMA OrgAfterType ==
  ASSUME TypeOK, Assigned, NEW s \in Slots, pc[s] # "idle"
  PROVE  OrgAfter(s) \in Orgs
<1>1. org \in Orgs
  BY DEF TypeOK, Orgs
<1>2. \A p \in {"free", "pro"} : SetPlan(p) \in Orgs /\ Renewed(p) \in Orgs
  BY <1>1 DEF SetPlan, Renewed, Orgs
<1>3. Canceled \in Orgs /\ [org EXCEPT !.status = "past_due"] \in Orgs
      /\ [org EXCEPT !.userTiers = "none"] \in Orgs
  BY <1>1 DEF Canceled, Orgs
<1>4. clampBy[s] \in {"free", "pro"}
  BY DEF TypeOK
<1> QED
  BY <1>1, <1>2, <1>3, <1>4 DEF OrgAfter

\* A statement about the row of an event leaves a status.
LEMMA RowAfterType ==
  ASSUME TypeOK, Assigned, NEW s \in Slots, pc[s] # "idle"
  PROVE  RowAfter(s) \in Statuses
BY DEF TypeOK, Assigned, RowAfter, Released, Statuses

LEMMA NextStatementType ==
  ASSUME NEW s \in Slots
  PROVE  NextStatement(s) \in {"seats", "billing", "users", "complete"}
BY DEF NextStatement

LEMMA InitType == Init => TypeOK
<1> SUFFICES ASSUME Init PROVE TypeOK
  OBVIOUS
<1>1. org \in Orgs
  BY DEF Init, Orgs
<1>2. faults \in 0 .. MaxFaults
  BY WebhookAssumption DEF Init
<1>3. overlap \in BOOLEAN
  BY DEF Init
<1>4. applied \in [Events -> Nat] /\ undone \in [Events -> Nat]
  BY DEF Init
<1> QED
  BY <1>1, <1>2, <1>3, <1>4 DEF Init, TypeOK, Orgs

LEMMA TypeStep == TypeOK /\ Assigned /\ [Next]_vars => TypeOK' /\ Assigned'
<1> SUFFICES ASSUME TypeOK, Assigned, [Next]_vars
             PROVE  TypeOK' /\ Assigned'
  OBVIOUS
<1> USE DEF Claiming, Writing, Handling
<1>1. ASSUME NEW s \in Slots, NEW e \in Events, Deliver(s, e)
      PROVE  TypeOK' /\ Assigned'
  BY <1>1 DEF Deliver, TypeOK, Assigned
<1>2. ASSUME NEW s \in Slots, Claim(s)
      PROVE  TypeOK' /\ Assigned'
  <2>1. pc[s] # "idle" /\ RowAfter(s) \in Statuses
    BY <1>2, RowAfterType DEF Claim
  <2>2. rows' \in [Events -> Statuses]
    BY <1>2, <2>1 DEF Claim, WriteRow, TypeOK, Statuses
  <2>3. overlap' \in BOOLEAN
    BY <1>2 DEF Claim
  <2>4. pc' \in [Slots -> {"idle"} \cup Claiming \cup Handling]
    BY <1>2 DEF Claim, TypeOK, FirstStatement
  <2> QED
    BY <1>2, <2>1, <2>2, <2>3, <2>4 DEF Claim, TypeOK, Assigned, Statuses
<1>3. ASSUME NEW s \in Slots, Answer(s)
      PROVE  TypeOK' /\ Assigned'
  BY <1>3 DEF Answer, Finish, TypeOK, Assigned
<1>4. ASSUME NEW s \in Slots, Work(s)
      PROVE  TypeOK' /\ Assigned'
  <2>1. pc[s] # "idle" /\ OrgAfter(s) \in Orgs
    BY <1>4, OrgAfterType DEF Work
  <2>2. ev[s] \in Events
    BY <2>1 DEF Assigned
  <2>3. applied' \in [Events -> Nat]
    BY <1>4, <2>2 DEF Work, TypeOK
  <2>4. clampBy' \in [Slots -> {"free", "pro"}]
    BY <1>4 DEF Work, TypeOK
  <2>5. pc' \in [Slots -> {"idle"} \cup Claiming \cup Handling]
    BY <1>4, NextStatementType DEF Work, TypeOK
  <2>6. Assigned'
    BY <1>4, <2>1 DEF Work, TypeOK, Assigned
  <2> QED
    BY <1>4, <2>1, <2>3, <2>4, <2>5, <2>6 DEF Work, TypeOK, Orgs
<1>5. ASSUME NEW s \in Slots, Complete(s)
      PROVE  TypeOK' /\ Assigned'
  <2>1. pc[s] # "idle" /\ ev[s] \in Events /\ RowAfter(s) \in Statuses
    BY <1>5, RowAfterType DEF Complete, Assigned
  <2> QED
    BY <1>5, <2>1 DEF Complete, Finish, WriteRow, TypeOK, Assigned, Statuses
<1>6. ASSUME NEW s \in Slots, Release(s)
      PROVE  TypeOK' /\ Assigned'
  <2>1. RowAfter(s) \in Statuses
    BY <1>6, RowAfterType DEF Release
  <2> QED
    BY <1>6, <2>1 DEF Release, Finish, WriteRow, TypeOK, Assigned, Statuses
<1>7. ASSUME NEW s \in Slots, StatementFails(s)
      PROVE  TypeOK' /\ Assigned'
  <2>1. pc[s] # "idle" /\ ev[s] \in Events
    BY <1>7 DEF StatementFails, Assigned
  <2>2. RowAfter(s) \in Statuses /\ OrgAfter(s) \in Orgs
    BY <2>1, RowAfterType, OrgAfterType
  <2>3. rows' \in [Events -> Statuses] /\ org' \in Orgs
    BY <1>7, <2>1, <2>2 DEF StatementFails, WriteRow, TypeOK, Statuses, Orgs
  <2>4. undone' \in [Events -> Nat] /\ faults' \in 0 .. MaxFaults
    BY <1>7, <2>1, WebhookAssumption DEF StatementFails, TypeOK
  <2>5. /\ pc' \in [Slots -> {"idle"} \cup Claiming \cup Handling]
        /\ ev' \in [Slots -> Events \cup {"none"}]
        /\ clampBy' \in [Slots -> {"free", "pro"}]
    BY <1>7 DEF StatementFails, AfterError, Finish, TypeOK
  <2>6. Assigned'
    BY <1>7, <2>1 DEF StatementFails, AfterError, Finish, TypeOK, Assigned
  <2> QED
    BY <1>7, <2>3, <2>4, <2>5, <2>6 DEF StatementFails, TypeOK, Statuses, Orgs
<1>8. CASE Crash
  BY <1>8, WebhookAssumption DEF Crash, TypeOK, Assigned
<1>9. CASE UNCHANGED vars
  BY <1>9 DEF vars, TypeOK, Assigned
<1> QED
  BY <1>1, <1>2, <1>3, <1>4, <1>5, <1>6, <1>7, <1>8, <1>9 DEF Next, Advance

-----------------------------------------------------------------------------
(* Claims *)

\* The request s alone moves, to the statement q of the same event or out of
\* handling, and leaves its row to another handler only by leaving it.
LEMMA ClaimStep ==
  ASSUME IInv, NEW s \in Slots, pc[s] # "idle",
         rows' = [rows EXCEPT ![ev[s]] = RowAfter(s)] \/ rows' = rows,
         \A t \in Slots \ {s} : pc'[t] = pc[t] /\ ev'[t] = ev[t],
         Handles(s)' => ev'[s] = ev[s],
         Handles(s)' /\ ~Handles(s) => rows[ev[s]] \in {"none", "failed"},
         Handles(s)' => rows'[ev[s]] = "processing"
                        \/ (pc'[s] = "fail" /\ rows'[ev[s]] = "completed"),
         Handles(s) \/ rows'[ev[s]] = rows[ev[s]]
           \/ rows[ev[s]] \in {"none", "failed"}
  PROVE  ClaimHeld' /\ OneHandler'
<1>1. \A t \in Slots : Handles(t) => ev[t] \in Events
  BY DEF IInv, Assigned, Handles, Handling, Writing
<1>2. \A t \in Slots \ {s} : Handles(t)' <=> Handles(t)
  BY DEF Handles
<1>3. ASSUME NEW t \in Slots \ {s}, Handles(t), Handles(s)'
      PROVE  ev[t] # ev[s]
  BY <1>3 DEF IInv, OneHandler, ClaimHeld
<1>4. OneHandler'
  BY <1>2, <1>3 DEF IInv, OneHandler
<1>5. ASSUME NEW t \in Slots \ {s}, Handles(t)
      PROVE  rows'[ev[t]] = rows[ev[t]]
  <2>1. CASE ev[t] # ev[s]
    BY <2>1, <1>1, <1>5 DEF IInv, TypeOK
  <2>2. CASE ev[t] = ev[s]
    BY <2>2, <1>5 DEF IInv, OneHandler, ClaimHeld
  <2> QED
    BY <2>1, <2>2
<1>6. ClaimHeld'
  BY <1>2, <1>5 DEF IInv, ClaimHeld
<1> QED
  BY <1>4, <1>6

\* The claim of an event succeeds only when nobody handles it.
LEMMA ClaimStepClaim ==
  ASSUME IInv, NEW s \in Slots, Claim(s)
  PROVE  ClaimHeld' /\ OneHandler'
<1>1. ev[s] \in Events /\ pc[s] \in {"insert", "reclaim"}
  BY DEF Claim, IInv, Assigned
<1>2. \A t \in Slots \ {s} : pc'[t] = pc[t] /\ ev'[t] = ev[t]
  BY DEF Claim
<1>3. ev' = ev /\ rows' = [rows EXCEPT ![ev[s]] = RowAfter(s)]
  BY DEF Claim, WriteRow
<1>4. ~Handles(s)
  BY <1>1 DEF Handles, Handling, Writing
<1>5. rows'[ev[s]] = RowAfter(s)
  BY <1>1, <1>3 DEF IInv, TypeOK
<1>6. CASE rows'[ev[s]] = rows[ev[s]] /\ ~Handles(s)'
  BY <1>1, <1>2, <1>3, <1>4, <1>6, ClaimStep
<1>7. CASE rows'[ev[s]] = "processing" /\ rows[ev[s]] \in {"none", "failed"}
  BY <1>1, <1>2, <1>3, <1>4, <1>7, ClaimStep
<1>8. \/ rows'[ev[s]] = rows[ev[s]] /\ ~Handles(s)'
      \/ rows'[ev[s]] = "processing" /\ rows[ev[s]] \in {"none", "failed"}
  <2>1. pc'[s] \in {FirstStatement(ev[s]), "reclaim", "select"}
    BY DEF Claim, IInv, TypeOK
  <2>2. CASE pc[s] = "insert" /\ rows[ev[s]] = "none"
    BY <2>2, <1>5 DEF RowAfter
  <2>3. CASE pc[s] = "reclaim" /\ Reclaimable(rows[ev[s]])
    BY <2>3, <1>5 DEF RowAfter, Reclaimable
  <2>4. CASE ~(pc[s] = "insert" /\ rows[ev[s]] = "none")
             /\ ~(pc[s] = "reclaim" /\ Reclaimable(rows[ev[s]]))
    BY <2>4, <1>1, <1>5 DEF RowAfter, Claim, Handles, Handling, Writing,
                            IInv, TypeOK
  <2> QED
    BY <2>2, <2>3, <2>4
<1> QED
  BY <1>6, <1>7, <1>8

LEMMA ClaimStepFails ==
  ASSUME IInv, NEW s \in Slots, StatementFails(s)
  PROVE  ClaimHeld' /\ OneHandler'
<1>1. ev[s] \in Events /\ pc[s] # "idle"
  BY DEF StatementFails, IInv, Assigned
<1>2. \A t \in Slots \ {s} : pc'[t] = pc[t] /\ ev'[t] = ev[t]
  BY DEF StatementFails, AfterError, Finish, IInv, TypeOK
<1>3. rows' = rows \/ rows' = [rows EXCEPT ![ev[s]] = RowAfter(s)]
  BY DEF StatementFails, WriteRow
<1>4. rows'[ev[s]] = rows[ev[s]] \/ rows'[ev[s]] = RowAfter(s)
  BY <1>1, <1>3 DEF IInv, TypeOK
<1>5. CASE pc[s] \in Claiming \cup {"fail"}
  <2>1. ~Handles(s)'
    BY <1>5 DEF StatementFails, AfterError, Finish, IInv, TypeOK,
                Handles, Handling, Writing
  <2>2. Handles(s) \/ rows'[ev[s]] = rows[ev[s]]
          \/ rows[ev[s]] \in {"none", "failed"}
    BY <1>4, <1>5 DEF RowAfter, Reclaimable, Claiming, Handles, Handling
  <2> QED
    BY <1>1, <1>2, <1>3, <2>1, <2>2, ClaimStep
<1>6. CASE pc[s] \in Writing \cup {"complete"}
  <2>1. pc'[s] = "fail" /\ ev'[s] = ev[s] /\ Handles(s)
    BY <1>6 DEF StatementFails, AfterError, IInv, TypeOK, Claiming,
                Handles, Handling, Writing
  <2>2. rows[ev[s]] = "processing"
    BY <1>6, <2>1 DEF IInv, ClaimHeld, Writing
  <2>3. rows'[ev[s]] \in {"processing", "completed"}
    BY <1>4, <1>6, <2>2 DEF RowAfter, Writing
  <2> QED
    BY <1>1, <1>2, <1>3, <2>1, <2>3, ClaimStep
<1> QED
  BY <1>1, <1>5, <1>6 DEF IInv, TypeOK, Handling

\* No two requests come to handle one event.
LEMMA ClaimInvariant == IInv /\ [Next]_vars => ClaimHeld' /\ OneHandler'
<1> SUFFICES ASSUME IInv, [Next]_vars PROVE ClaimHeld' /\ OneHandler'
  OBVIOUS
<1>1. ASSUME NEW s \in Slots, NEW e \in Events, Deliver(s, e)
      PROVE  ClaimHeld' /\ OneHandler'
  <2>1. ~Handles(s)'
    BY <1>1 DEF Deliver, IInv, TypeOK, Handles, Handling, Writing
  <2>2. \A t \in Slots \ {s} : pc'[t] = pc[t] /\ ev'[t] = ev[t]
    BY <1>1 DEF Deliver
  <2> QED
    BY <1>1, <2>1, <2>2 DEF Deliver, IInv, ClaimHeld, OneHandler, Handles
<1>2. ASSUME NEW s \in Slots, Claim(s)
      PROVE  ClaimHeld' /\ OneHandler'
  BY <1>2, ClaimStepClaim
<1>3. ASSUME NEW s \in Slots, Answer(s)
      PROVE  ClaimHeld' /\ OneHandler'
  <2>1. ~Handles(s)'
    BY <1>3 DEF Answer, Finish, IInv, TypeOK, Handles, Handling, Writing
  <2>2. \A t \in Slots \ {s} : pc'[t] = pc[t] /\ ev'[t] = ev[t]
    BY <1>3 DEF Answer, Finish
  <2> QED
    BY <1>3, <2>1, <2>2 DEF Answer, IInv, ClaimHeld, OneHandler, Handles
<1>4. ASSUME NEW s \in Slots, Work(s)
      PROVE  ClaimHeld' /\ OneHandler'
  <2>1. pc[s] \in Writing /\ ev' = ev /\ rows' = rows
    BY <1>4 DEF Work
  <2>2. Handles(s) /\ rows[ev[s]] = "processing"
    BY <2>1 DEF IInv, ClaimHeld, Handles, Handling, Writing
  <2>3. \A t \in Slots \ {s} : pc'[t] = pc[t] /\ ev'[t] = ev[t]
    BY <1>4 DEF Work, IInv, TypeOK
  <2>4. pc[s] # "idle" /\ rows'[ev[s]] = "processing" /\ ev'[s] = ev[s]
    BY <2>1, <2>2 DEF Writing
  <2> QED
    BY <2>1, <2>2, <2>3, <2>4, ClaimStep
<1>5. ASSUME NEW s \in Slots, Complete(s) \/ Release(s)
      PROVE  ClaimHeld' /\ OneHandler'
  <2>1. Handles(s) /\ rows' = [rows EXCEPT ![ev[s]] = RowAfter(s)]
    BY <1>5 DEF Complete, Release, WriteRow, Handles, Handling
  <2>2. ~Handles(s)' /\ pc[s] # "idle"
    BY <1>5 DEF Complete, Release, Finish, IInv, TypeOK, Handles, Handling, Writing
  <2>3. \A t \in Slots \ {s} : pc'[t] = pc[t] /\ ev'[t] = ev[t]
    BY <1>5 DEF Complete, Release, Finish, IInv, TypeOK
  <2> QED
    BY <2>1, <2>2, <2>3, ClaimStep
<1>6. ASSUME NEW s \in Slots, StatementFails(s)
      PROVE  ClaimHeld' /\ OneHandler'
  BY <1>6, ClaimStepFails
<1>7. CASE Crash
  <2>1. \A t \in Slots : ~Handles(t)'
    BY <1>7 DEF Crash, Handles, Handling, Writing
  <2> QED
    BY <2>1 DEF ClaimHeld, OneHandler
<1>8. CASE UNCHANGED vars
  BY <1>8 DEF vars, IInv, ClaimHeld, OneHandler, Handles
<1> QED
  BY <1>1, <1>2, <1>3, <1>4, <1>5, <1>6, <1>7, <1>8 DEF Next, Advance

-----------------------------------------------------------------------------
(* Effects *)

Effects == DoneIsApplied /\ AckedIsDone /\ RunsCounted

\* A statement about the row of an event keeps a completed row, makes one only
\* of a claimed one, and gives a claim up only by failStripeWebhookEvent.
LEMMA RowAfterCases ==
  ASSUME NEW s \in Slots, rows[ev[s]] \in Statuses
  PROVE  /\ rows[ev[s]] = "completed" => RowAfter(s) = "completed"
         /\ RowAfter(s) = "completed" =>
              rows[ev[s]] = "completed" \/ pc[s] = "complete"
         /\ RowAfter(s) \in {"none", "failed"} =>
              rows[ev[s]] = RowAfter(s) \/ pc[s] = "fail"
         /\ pc[s] \in Writing => RowAfter(s) = rows[ev[s]]
BY DEF RowAfter, Released, Reclaimable, Statuses, Writing

\* The run of a handler comes to its end: it is the first since the last
\* completion that was lost.
LEMMA EffectsWork ==
  ASSUME IInv, NEW s \in Slots, Work(s)
  PROVE  Effects'
<1>1. /\ ev[s] \in Events /\ pc[s] \in Writing
      /\ rows' = rows /\ ev' = ev /\ undone' = undone /\ acked' = acked
  BY DEF Work, IInv, Assigned, Writing
<1>2. /\ applied[ev[s]] <= undone[ev[s]]
      /\ rows[ev[s]] = "processing"
      /\ \A t \in Slots \ {s} : Handles(t) => ev[t] # ev[s]
  BY <1>1 DEF IInv, RunsCounted, ClaimHeld, OneHandler, Handles, Handling, Writing
<1>3. \A t \in Slots \ {s} : pc'[t] = pc[t]
  BY DEF Work, IInv, TypeOK
<1>4. pc'[s] = NextStatement(s)
  BY DEF Work, IInv, TypeOK
<1>5. CASE NextStatement(s) = "complete"
  <2>1. applied' = [applied EXCEPT ![ev[s]] = @ + 1]
    BY <1>5 DEF Work
  <2>2. /\ applied'[ev[s]] = applied[ev[s]] + 1
        /\ \A e \in Events \ {ev[s]} : applied'[e] = applied[e]
        /\ applied \in [Events -> Nat] /\ undone \in [Events -> Nat]
    BY <1>1, <2>1 DEF IInv, TypeOK
  <2>3. \A t \in Slots \ {s} : pc'[t] \in Handling => ev[t] \in Events \ {ev[s]}
    BY <1>2, <1>3 DEF IInv, Assigned, Handles, Handling, Writing
  <2>4. DoneIsApplied'
    <3>1. \A e \in Events : rows'[e] = "completed" => applied'[e] > 0
      BY <1>1, <1>2, <2>2 DEF IInv, DoneIsApplied
    <3>2. \A t \in Slots : pc'[t] = "complete" => applied'[ev'[t]] > 0
      BY <1>1, <1>3, <2>2, <2>3 DEF IInv, DoneIsApplied, Handling
    <3> QED
      BY <3>1, <3>2 DEF DoneIsApplied
  <2>5. RunsCounted'
    <3>1. \A e \in Events : applied'[e] <= 1 + undone'[e]
      BY <1>1, <1>2, <2>2 DEF IInv, RunsCounted
    <3>2. \A e \in Events : rows'[e] \in {"none", "failed"} => applied'[e] <= undone'[e]
      BY <1>1, <1>2, <2>2 DEF IInv, RunsCounted
    <3>3. \A t \in Slots :
            pc'[t] \in Writing \/ (pc'[t] = "fail" /\ rows'[ev'[t]] = "processing")
              => applied'[ev'[t]] <= undone'[ev'[t]]
      BY <1>1, <1>3, <1>4, <1>5, <2>2, <2>3 DEF IInv, RunsCounted, Handling, Writing
    <3> QED
      BY <3>1, <3>2, <3>3 DEF RunsCounted
  <2> QED
    BY <1>1, <2>4, <2>5 DEF Effects, IInv, AckedIsDone
<1>6. CASE NextStatement(s) # "complete"
  <2>1. applied' = applied /\ pc'[s] \in Writing
    BY <1>4, <1>6, NextStatementType DEF Work, Writing
  <2> QED
    BY <1>1, <1>2, <1>3, <2>1
    DEF Effects, IInv, DoneIsApplied, AckedIsDone, RunsCounted, Writing
<1> QED
  BY <1>5, <1>6

\* A step that ends or moves request s, with what it does to the row: every
\* event keeps its counts, and s leaves the claim as the counts allow.
LEMMA EffectsStep ==
  ASSUME IInv, NEW s \in Slots, ev[s] \in Events, applied' = applied,
         undone' \in [Events -> Nat],
         \A e \in Events : undone'[e] >= undone[e],
         \A e \in Events \ {ev[s]} : rows'[e] = rows[e],
         \A t \in Slots \ {s} : pc'[t] = pc[t] /\ ev'[t] = ev[t],
         pc'[s] \notin {"idle", "complete"} => ev'[s] = ev[s],
         pc'[s] # "complete",
         rows'[ev[s]] = "completed" =>
           rows[ev[s]] = "completed" \/ pc[s] = "complete",
         rows[ev[s]] = "completed" => rows'[ev[s]] = "completed",
         acked' \subseteq acked \cup {e \in Events : rows'[e] = "completed"},
         rows'[ev[s]] \in {"none", "failed"} => applied[ev[s]] <= undone'[ev[s]],
         pc'[s] \in Writing \/ (pc'[s] = "fail" /\ rows'[ev[s]] = "processing")
           => applied[ev[s]] <= undone'[ev[s]],
         rows'[ev[s]] = "processing" /\ rows[ev[s]] # "processing"
           => applied[ev[s]] <= undone[ev[s]]
  PROVE  Effects'
<1> USE DEF Writing
<1>1. /\ applied \in [Events -> Nat] /\ undone \in [Events -> Nat]
      /\ \A t \in Slots : pc[t] # "idle" => ev[t] \in Events
  BY DEF IInv, TypeOK, Assigned
<1>2. DoneIsApplied'
  <2>1. \A e \in Events : rows'[e] = "completed" => applied'[e] > 0
    BY DEF IInv, DoneIsApplied
  <2>2. \A t \in Slots : pc'[t] = "complete" => applied'[ev'[t]] > 0
    BY DEF IInv, DoneIsApplied
  <2> QED
    BY <2>1, <2>2 DEF DoneIsApplied
<1>3. AckedIsDone'
  BY DEF IInv, AckedIsDone
<1>4. \A e \in Events : applied'[e] <= 1 + undone'[e]
  BY <1>1 DEF IInv, RunsCounted
<1>5. \A e \in Events : rows'[e] \in {"none", "failed"} => applied'[e] <= undone'[e]
  BY <1>1 DEF IInv, RunsCounted
<1>6. ASSUME NEW t \in Slots,
             pc'[t] \in Writing \/ (pc'[t] = "fail" /\ rows'[ev'[t]] = "processing")
      PROVE  applied'[ev'[t]] <= undone'[ev'[t]]
  <2>1. CASE t = s
    BY <1>6, <2>1
  <2>2. CASE t # s
    <3>1. pc[t] = pc'[t] /\ ev'[t] = ev[t] /\ ev[t] \in Events
      BY <1>1, <1>6, <2>2
    <3>2. applied[ev[t]] <= undone[ev[t]]
      BY <1>6, <3>1, <2>2 DEF IInv, RunsCounted
    <3> QED
      BY <1>1, <3>1, <3>2
  <2> QED
    BY <2>1, <2>2
<1>7. RunsCounted'
  BY <1>4, <1>5, <1>6 DEF RunsCounted
<1> QED
  BY <1>2, <1>3, <1>7 DEF Effects

LEMMA EffectsInvariant == IInv /\ [Next]_vars => Effects'
<1> SUFFICES ASSUME IInv, [Next]_vars PROVE Effects'
  OBVIOUS
<1> USE DEF Writing
<1>0. /\ \A s \in Slots : pc[s] # "idle" => ev[s] \in Events
      /\ \A e \in Events : rows[e] \in Statuses
      /\ undone \in [Events -> Nat] /\ applied \in [Events -> Nat]
  BY DEF IInv, TypeOK, Assigned, Statuses
<1>1. ASSUME NEW s \in Slots, NEW e \in Events, Deliver(s, e)
      PROVE  Effects'
  <2>1. /\ pc'[s] = "insert"
        /\ \A t \in Slots \ {s} : pc'[t] = pc[t] /\ ev'[t] = ev[t]
    BY <1>1 DEF Deliver, IInv, TypeOK
  <2> QED
    BY <1>1, <2>1 DEF Deliver, Effects, IInv, DoneIsApplied, AckedIsDone, RunsCounted
<1>2. ASSUME NEW s \in Slots, Claim(s)
      PROVE  Effects'
  <2>1. /\ ev[s] \in Events /\ pc[s] \in {"insert", "reclaim"} /\ ev' = ev
        /\ applied' = applied /\ undone' = undone /\ acked' = acked
        /\ rows' = [rows EXCEPT ![ev[s]] = RowAfter(s)]
        /\ \A t \in Slots \ {s} : pc'[t] = pc[t]
    BY <1>0, <1>2 DEF Claim, WriteRow, IInv, TypeOK
  <2>2. /\ rows'[ev[s]] = RowAfter(s)
        /\ \A e \in Events \ {ev[s]} : rows'[e] = rows[e]
    BY <2>1 DEF IInv, TypeOK
  <2>3. \/ RowAfter(s) = rows[ev[s]] /\ pc'[s] \in {"reclaim", "select"}
        \/ /\ RowAfter(s) = "processing" /\ rows[ev[s]] \in {"none", "failed"}
           /\ pc'[s] \in {"plan", "billing"}
    BY <1>0, <1>2, <2>1
    DEF Claim, RowAfter, FirstStatement, Reclaimable, IInv, TypeOK
  <2>4. rows[ev[s]] \in {"none", "failed"} => applied[ev[s]] <= undone[ev[s]]
    BY <2>1 DEF IInv, RunsCounted
  <2>5. acked' \subseteq {e \in Events : rows'[e] = "completed"}
    BY <2>1, <2>2, <2>3 DEF IInv, AckedIsDone, TypeOK
  <2> QED
    BY <1>0, <2>1, <2>2, <2>3, <2>4, <2>5, EffectsStep
<1>3. ASSUME NEW s \in Slots, Answer(s)
      PROVE  Effects'
  <2>1. /\ pc'[s] = "idle" /\ ev[s] \in Events
        /\ \A t \in Slots \ {s} : pc'[t] = pc[t] /\ ev'[t] = ev[t]
    BY <1>0, <1>3 DEF Answer, Finish, IInv, TypeOK
  <2>2. acked' \subseteq acked \cup {e \in Events : rows[e] = "completed"}
    BY <1>3, <2>1 DEF Answer, Duplicate
  <2> QED
    BY <1>0, <1>3, <2>1, <2>2
    DEF Answer, Effects, IInv, DoneIsApplied, AckedIsDone, RunsCounted
<1>4. ASSUME NEW s \in Slots, Work(s)
      PROVE  Effects'
  BY <1>4, EffectsWork
<1>5. ASSUME NEW s \in Slots, Complete(s)
      PROVE  Effects'
  <2>1. /\ pc'[s] = "idle" /\ pc[s] = "complete" /\ ev[s] \in Events
        /\ \A t \in Slots \ {s} : pc'[t] = pc[t] /\ ev'[t] = ev[t]
    BY <1>0, <1>5 DEF Complete, Finish, IInv, TypeOK
  <2>2. rows[ev[s]] = "processing"
    BY <2>1 DEF IInv, ClaimHeld, Handles, Handling
  <2>3. RowAfter(s) = "completed"
    BY <2>1, <2>2 DEF RowAfter
  <2>4. /\ rows'[ev[s]] = "completed"
        /\ \A e \in Events \ {ev[s]} : rows'[e] = rows[e]
    BY <1>5, <2>1, <2>3 DEF Complete, WriteRow, IInv, TypeOK
  <2>5. acked' \subseteq acked \cup {e \in Events : rows'[e] = "completed"}
    BY <1>5, <2>1, <2>4 DEF Complete
  <2> QED
    BY <1>0, <1>5, <2>1, <2>4, <2>5, EffectsStep DEF Complete
<1>6. ASSUME NEW s \in Slots, Release(s)
      PROVE  Effects'
  <2>1. /\ pc'[s] = "idle" /\ pc[s] = "fail" /\ ev[s] \in Events
        /\ \A t \in Slots \ {s} : pc'[t] = pc[t] /\ ev'[t] = ev[t]
    BY <1>0, <1>6 DEF Release, Finish, IInv, TypeOK
  <2>2. /\ rows'[ev[s]] = RowAfter(s)
        /\ \A e \in Events \ {ev[s]} : rows'[e] = rows[e]
    BY <1>6, <2>1 DEF Release, WriteRow, IInv, TypeOK
  <2>3. \/ rows[ev[s]] = "processing" /\ RowAfter(s) = "failed"
        \/ rows[ev[s]] = "completed" /\ RowAfter(s) = "completed"
    BY <2>1 DEF IInv, ClaimHeld, Handles, Handling, RowAfter, Released
  <2>4. rows[ev[s]] = "processing" => applied[ev[s]] <= undone[ev[s]]
    BY <2>1 DEF IInv, RunsCounted
  <2> QED
    BY <1>0, <1>6, <2>1, <2>2, <2>3, <2>4, EffectsStep DEF Release
<1>7. ASSUME NEW s \in Slots, StatementFails(s)
      PROVE  Effects'
  <2>1. /\ pc[s] # "idle" /\ ev[s] \in Events
        /\ applied' = applied /\ acked' = acked
        /\ \A t \in Slots \ {s} : pc'[t] = pc[t] /\ ev'[t] = ev[t]
    BY <1>0, <1>7 DEF StatementFails, AfterError, Finish, IInv, TypeOK
  <2>2. \/ pc'[s] = "idle" /\ pc[s] \in Claiming \cup {"fail"}
        \/ pc'[s] = "fail" /\ ev'[s] = ev[s] /\ pc[s] \in Writing \cup {"complete"}
    BY <1>7 DEF StatementFails, AfterError, Finish, IInv, TypeOK, Claiming, Handling
  <2>3. pc[s] \in Handling =>
          \/ rows[ev[s]] = "processing"
          \/ pc[s] = "fail" /\ rows[ev[s]] = "completed"
    BY DEF IInv, ClaimHeld, Handles
  <2>4. /\ rows[ev[s]] \in {"none", "failed"} => applied[ev[s]] <= undone[ev[s]]
        /\ pc[s] \in Writing => applied[ev[s]] <= undone[ev[s]]
        /\ pc[s] = "fail" /\ rows[ev[s]] = "processing"
             => applied[ev[s]] <= undone[ev[s]]
        /\ applied[ev[s]] <= 1 + undone[ev[s]]
    BY <2>1 DEF IInv, RunsCounted
  <2>5. CASE rows' = rows /\ undone' = IF pc[s] = "complete"
                                       THEN [undone EXCEPT ![ev[s]] = @ + 1]
                                       ELSE undone
    <3>1. /\ undone' \in [Events -> Nat]
          /\ \A e \in Events : undone'[e] >= undone[e]
          /\ pc[s] = "complete" => undone'[ev[s]] = undone[ev[s]] + 1
      BY <1>0, <2>1, <2>5
    <3>2. pc'[s] = "fail" => applied[ev[s]] <= undone'[ev[s]]
      BY <1>0, <2>1, <2>2, <2>4, <3>1
    <3>3. rows[ev[s]] \in {"none", "failed"} => applied[ev[s]] <= undone'[ev[s]]
      BY <1>0, <2>1, <2>4, <3>1
    <3>4. acked' \subseteq acked \cup {e \in Events : rows'[e] = "completed"}
      BY <2>1
    <3> QED
      BY <2>1, <2>2, <2>5, <3>1, <3>2, <3>3, <3>4, EffectsStep
  <2>6. CASE rows' = [rows EXCEPT ![ev[s]] = RowAfter(s)] /\ undone' = undone
    <3>1. /\ rows'[ev[s]] = RowAfter(s)
          /\ \A e \in Events \ {ev[s]} : rows'[e] = rows[e]
      BY <2>1, <2>6 DEF IInv, TypeOK
    <3>2. /\ pc[s] = "complete" => RowAfter(s) = "completed"
          /\ pc[s] \in Writing => RowAfter(s) = rows[ev[s]]
      BY <2>3 DEF RowAfter, Handling
    <3>3. RowAfter(s) \in {"none", "failed"} => applied[ev[s]] <= undone[ev[s]]
      BY <1>0, <2>1, <2>3, <2>4, RowAfterCases DEF Handling
    <3>4. RowAfter(s) = "processing" /\ rows[ev[s]] # "processing"
            => applied[ev[s]] <= undone[ev[s]]
      BY <1>0, <2>1, <2>4 DEF RowAfter, Reclaimable, Released, Statuses
    <3>5. /\ rows[ev[s]] = "completed" => RowAfter(s) = "completed"
          /\ RowAfter(s) = "completed" =>
               rows[ev[s]] = "completed" \/ pc[s] = "complete"
      BY <1>0, <2>1, RowAfterCases
    <3>6. acked' \subseteq acked \cup {e \in Events : rows'[e] = "completed"}
      BY <2>1
    <3> QED
      BY <1>0, <2>1, <2>2, <2>4, <2>6, <3>1, <3>2, <3>3, <3>4, <3>5, <3>6, EffectsStep
  <2> QED
    BY <1>7, <2>5, <2>6 DEF StatementFails, WriteRow
<1>8. CASE Crash
  BY <1>8 DEF Crash, Effects, IInv, DoneIsApplied, AckedIsDone, RunsCounted
<1>9. CASE UNCHANGED vars
  BY <1>9 DEF vars, Effects, IInv, DoneIsApplied, AckedIsDone, RunsCounted
<1> QED
  BY <1>1, <1>2, <1>3, <1>4, <1>5, <1>6, <1>7, <1>8, <1>9 DEF Next, Advance

-----------------------------------------------------------------------------
(* Theorems *)

LEMMA InitInvariant == Init => IInv
<1> SUFFICES ASSUME Init PROVE IInv
  OBVIOUS
<1>1. TypeOK /\ \A s \in Slots : pc[s] = "idle"
  BY InitType DEF Init
<1>2. ClaimHeld /\ OneHandler /\ Assigned
  BY <1>1 DEF ClaimHeld, OneHandler, Assigned, Handles, Handling, Writing
<1>3. Effects
  BY <1>1 DEF Init, Effects, DoneIsApplied, AckedIsDone, RunsCounted, Writing
<1> QED
  BY <1>1, <1>2, <1>3 DEF IInv, Effects

LEMMA Invariant == Spec => []IInv
<1>1. Init => IInv
  BY InitInvariant
<1>2. IInv /\ [Next]_vars => IInv'
  BY TypeStep, ClaimInvariant, EffectsInvariant DEF IInv, Effects
<1> QED
  BY <1>1, <1>2, PTL DEF Spec

\* Every reachable state has the declared types, whatever the events, their
\* kinds, the requests in flight and the faults are.
THEOREM WebhookTypes == Spec => []TypeOK
BY Invariant, PTL DEF IInv

\* No two requests ever handle one event: claimStripeWebhookEvent is a lock.
THEOREM EventHasOneHandler == Spec => []OneHandler
BY Invariant, PTL DEF IInv

\* Stripe is told 2xx only of events that are recorded as completed and whose
\* handler ran to its end.
THEOREM AcknowledgedWasApplied == Spec => []AckMeansApplied
<1>1. IInv => AckMeansApplied
  BY DEF IInv, AckedIsDone, DoneIsApplied, AckMeansApplied
<1> QED
  BY <1>1, Invariant, PTL

\* A handler runs to its end at most once more than completions were lost.
THEOREM HandlersRunOnce == Spec => []AppliedOnce
<1>1. IInv => AppliedOnce
  BY DEF IInv, RunsCounted, AppliedOnce
<1> QED
  BY <1>1, Invariant, PTL

-----------------------------------------------------------------------------
(* Orphans *)

\* Only a fault leaves the row of an event in progress with nobody at work on
\* it: every other step that gives up a claim writes the row first.
THEOREM OrphansComeFromFaults == Spec => OrphansAreFaults
<1>1. ASSUME IInv, [Next]_vars, ~(faults' > faults), NEW e \in Events, Orphan(e)'
      PROVE  Orphan(e)
  <2>0. /\ rows'[e] = "processing"
        /\ \A s \in Slots : ~(Handles(s)' /\ ev'[s] = e)
        /\ TypeOK /\ faults \in Nat
    BY <1>1 DEF Orphan, Busy, IInv, TypeOK
  <2>s. ASSUME rows[e] = "processing", \A s \in Slots : Handles(s) => ev[s] # e
        PROVE  Orphan(e)
    BY <2>s DEF Orphan, Busy
  <2>1. ASSUME NEW s \in Slots, NEW f \in Events, Deliver(s, f) PROVE Orphan(e)
    <3>1. ~Handles(s) /\ rows' = rows
      BY <2>1 DEF Deliver, Handles, Handling, Writing
    <3>2. \A t \in Slots \ {s} : Handles(t)' = Handles(t) /\ ev'[t] = ev[t]
      BY <2>1 DEF Deliver, Handles
    <3> QED
      BY <2>0, <2>s, <3>1, <3>2
  <2>2. ASSUME NEW s \in Slots, Claim(s) PROVE Orphan(e)
    <3>1. /\ ~Handles(s) /\ ev' = ev /\ ev[s] \in Events
          /\ \A t \in Slots \ {s} : Handles(t)' = Handles(t)
      BY <1>1, <2>2 DEF Claim, Handles, Handling, Writing, IInv, Assigned
    <3>2. CASE e # ev[s]
      <4>1. rows[e] = "processing"
        BY <2>0, <2>2, <3>1, <3>2 DEF Claim, WriteRow, TypeOK
      <4> QED
        BY <2>0, <2>s, <3>1, <3>2, <4>1
    <3>3. CASE e = ev[s] /\ rows'[e] = rows[e]
      BY <2>0, <2>s, <3>1, <3>3
    <3>4. CASE e = ev[s] /\ rows'[e] # rows[e]
      <4>1. rows'[e] = RowAfter(s)
        BY <2>0, <2>2, <3>1, <3>4 DEF Claim, WriteRow, TypeOK
      <4>2. \/ pc[s] = "insert" /\ rows[e] = "none"
            \/ pc[s] = "reclaim" /\ Reclaimable(rows[e])
        BY <2>2, <3>4, <4>1 DEF Claim, RowAfter
      <4>3. pc'[s] = FirstStatement(e)
        BY <2>0, <2>2, <3>4, <4>2 DEF Claim, TypeOK
      <4>4. Handles(s)'
        BY <4>3 DEF FirstStatement, Handles, Handling, Writing
      <4> QED
        BY <2>0, <3>1, <3>4, <4>4
    <3> QED
      BY <3>2, <3>3, <3>4
  <2>3. ASSUME NEW s \in Slots, Answer(s) PROVE Orphan(e)
    <3>1. ~Handles(s) /\ rows' = rows
      BY <2>3 DEF Answer, Handles, Handling, Writing
    <3>2. \A t \in Slots \ {s} : Handles(t)' = Handles(t) /\ ev'[t] = ev[t]
      BY <2>3 DEF Answer, Finish, Handles
    <3> QED
      BY <2>0, <2>s, <3>1, <3>2
  <2>4. ASSUME NEW s \in Slots, Work(s) PROVE Orphan(e)
    <3>1. rows' = rows /\ ev' = ev /\ Handles(s)'
      BY <2>0, <2>4, NextStatementType DEF Work, TypeOK, Handles, Handling, Writing
    <3>2. \A t \in Slots \ {s} : Handles(t)' = Handles(t)
      BY <2>4 DEF Work, Handles
    <3> QED
      BY <2>0, <2>s, <3>1, <3>2
  <2>5. ASSUME NEW s \in Slots, Complete(s) \/ Release(s) PROVE Orphan(e)
    <3>1. /\ ev[s] \in Events /\ rows' = [rows EXCEPT ![ev[s]] = RowAfter(s)]
          /\ pc[s] \in {"complete", "fail"}
      BY <1>1, <2>5 DEF Complete, Release, WriteRow, IInv, Assigned
    <3>2. RowAfter(s) # "processing"
      BY <3>1 DEF RowAfter, Released
    <3>3. e # ev[s] /\ rows[e] = "processing"
      BY <2>0, <3>1, <3>2 DEF TypeOK
    <3>4. \A t \in Slots \ {s} : Handles(t)' = Handles(t) /\ ev'[t] = ev[t]
      BY <2>0, <2>5 DEF Complete, Release, Finish, Handles, TypeOK
    <3> QED
      BY <2>0, <2>s, <3>3, <3>4
  <2>6. ASSUME (\E s \in Slots : StatementFails(s)) \/ Crash PROVE FALSE
    BY <1>1, <2>0, <2>6 DEF StatementFails, Crash
  <2>7. CASE UNCHANGED vars
    BY <1>1, <2>7 DEF vars, Orphan, Busy, Handles
  <2> QED
    BY <1>1, <2>1, <2>2, <2>3, <2>4, <2>5, <2>6, <2>7 DEF Next, Advance
<1>2. IInv /\ [Next]_vars
        => [\A e \in Events : Orphan(e)' => Orphan(e) \/ faults' > faults]_vars
  BY <1>1
<1> QED
  BY <1>2, Invariant, PTL DEF Spec, OrphansAreFaults

-----------------------------------------------------------------------------
(* Settled organizations *)

\* Paid in every column, or free in every column.
Whole(o) ==
  IF o.plan = "pro"
  THEN o.tier = "max" /\ o.inventory = "paid" /\ o.seats = "many"
  ELSE o.tier = "none" /\ o.inventory = "none" /\ o.seats = "one"
       /\ o.userTiers = "none"

\* Some event that changes the plan is not recorded as done: Stripe repeats it.
Unfinished == \E e \in Events : rows[e] # "completed" /\ Kind[e] # "past_due"

\* What the statements so far of a handler have made of the organization.
PartWay(s) ==
  /\ Kind[ev[s]] = "past_due" => pc[s] \in {"billing", "complete", "fail"}
  /\ Kind[ev[s]] = "active" =>
       /\ pc[s] \in {"seats", "billing"} => org.plan = "pro"
       /\ pc[s] = "billing" => clampBy[s] = "pro"
       /\ pc[s] # "users"
  /\ Kind[ev[s]] = "terminal" =>
       /\ pc[s] \in {"seats", "billing", "users"} => org.plan = "free"
       /\ pc[s] = "users" =>
            org.tier = "none" /\ org.inventory = "none" /\ org.seats = "one"
  /\ Kind[ev[s]] # "past_due" /\ pc[s] = "complete" => Whole(org)

\* As long as no two handlers interleave, an organization that is not whole
\* owes it to an event that will be handled again.
WholeInv ==
  ~overlap =>
    /\ \A s, t \in Slots : Handles(s) /\ Handles(t) => s = t
    /\ \A s \in Slots : Handles(s) => PartWay(s)
    /\ Whole(org) \/ Unfinished

\* What the statements of one handler make of the organization, in order.
LEMMA StatementOfHandler ==
  ASSUME IInv, NEW s \in Slots, pc[s] \in Writing, PartWay(s),
         org' = OrgAfter(s)
  PROVE  /\ Kind[ev[s]] = "past_due" => (Whole(org) => Whole(org'))
         /\ Kind[ev[s]] = "active" =>
              /\ org'.plan = "pro"
              /\ pc[s] = "billing" => Whole(org')
         /\ Kind[ev[s]] = "terminal" =>
              /\ org'.plan = "free"
              /\ pc[s] = "billing" =>
                   org'.tier = "none" /\ org'.inventory = "none" /\ org'.seats = "one"
              /\ pc[s] = "users" => Whole(org')
<1>1. org \in Orgs /\ clampBy[s] \in {"free", "pro"}
  BY DEF IInv, TypeOK, Orgs
<1>2. CASE Kind[ev[s]] = "past_due"
  <2>1. org' = [org EXCEPT !.status = "past_due"]
    BY <1>2 DEF PartWay, OrgAfter, Writing
  <2> QED
    BY <1>1, <1>2, <2>1 DEF Orgs, Whole
<1>3. CASE Kind[ev[s]] = "active"
  <2>1. CASE pc[s] = "plan"
    <3>1. org' = SetPlan("pro")
      BY <1>3, <2>1 DEF OrgAfter
    <3> QED
      BY <1>1, <1>3, <2>1, <3>1 DEF SetPlan, Orgs
  <2>2. CASE pc[s] = "seats"
    BY <1>3, <2>2 DEF OrgAfter, PartWay
  <2>3. CASE pc[s] = "billing"
    <3>1. org' = Renewed("pro") /\ org.plan = "pro"
      BY <1>3, <2>3 DEF OrgAfter, PartWay
    <3> QED
      BY <1>1, <1>3, <2>3, <3>1 DEF Renewed, Orgs, Whole
  <2> QED
    BY <1>3, <2>1, <2>2, <2>3 DEF PartWay, Writing
<1>4. CASE Kind[ev[s]] = "terminal"
  <2>1. CASE pc[s] = "plan"
    <3>1. org' = SetPlan("free")
      BY <1>4, <2>1 DEF OrgAfter
    <3> QED
      BY <1>1, <1>4, <2>1, <3>1 DEF SetPlan, Orgs
  <2>2. CASE pc[s] = "seats"
    BY <1>4, <2>2 DEF OrgAfter, PartWay
  <2>3. CASE pc[s] = "billing"
    <3>1. org' = Canceled /\ org.plan = "free"
      BY <1>4, <2>3 DEF OrgAfter, PartWay
    <3> QED
      BY <1>1, <1>4, <2>3, <3>1 DEF Canceled, Orgs
  <2>4. CASE pc[s] = "users"
    <3>1. /\ org' = [org EXCEPT !.userTiers = "none"] /\ org.plan = "free"
          /\ org.tier = "none" /\ org.inventory = "none" /\ org.seats = "one"
      BY <1>4, <2>4 DEF OrgAfter, PartWay
    <3> QED
      BY <1>1, <1>4, <2>4, <3>1 DEF Orgs, Whole
  <2> QED
    BY <1>4, <2>1, <2>2, <2>3, <2>4 DEF Writing
<1> QED
  BY <1>2, <1>3, <1>4

LEMMA WholeStep == IInv /\ WholeInv /\ [Next]_vars => WholeInv'
<1> SUFFICES ASSUME IInv, WholeInv, [Next]_vars, ~overlap' PROVE WholeInv'
  BY DEF WholeInv
<1>0. /\ TypeOK
      /\ \A s \in Slots : pc[s] # "idle" => ev[s] \in Events
      /\ \A e \in Events : Kind[e] \in {"active", "terminal", "past_due"}
  BY WebhookAssumption DEF IInv, Assigned
<1>a. ~overlap
  BY DEF Next, Advance, Deliver, Claim, Answer, Work, Complete, Release,
         StatementFails, Crash, vars
<1>b. /\ \A s, t \in Slots : Handles(s) /\ Handles(t) => s = t
      /\ \A s \in Slots : Handles(s) => PartWay(s)
      /\ Whole(org) \/ Unfinished
  BY <1>a DEF WholeInv
<1>u. ASSUME \A e \in Events : rows[e] # "completed" => rows'[e] # "completed",
             Whole(org) => Whole(org')
      PROVE  Whole(org') \/ Unfinished'
  BY <1>b, <1>u DEF Unfinished
\* The request that moves is the only one that matters.
<1>o. ASSUME NEW s \in Slots,
             \A t \in Slots \ {s} :
               pc'[t] = pc[t] /\ ev'[t] = ev[t] /\ clampBy'[t] = clampBy[t],
             org' = org \/ Handles(s),
             Handles(s)' => PartWay(s)',
             Handles(s)' /\ ~Handles(s) => \A t \in Slots : ~Handles(t),
             Whole(org') \/ Unfinished'
      PROVE  WholeInv'
  <2>1. \A t \in Slots \ {s} : Handles(t)' => Handles(t)
    BY <1>o DEF Handles
  <2>2. \A t, v \in Slots : Handles(t)' /\ Handles(v)' => t = v
    BY <1>b, <1>o, <2>1
  <2>3. ASSUME NEW t \in Slots \ {s}, Handles(t)' PROVE PartWay(t)'
    <3>1. Handles(t) /\ ~Handles(s)
      BY <1>b, <2>1, <2>3
    <3>2. org' = org /\ PartWay(t)
      BY <1>b, <1>o, <3>1
    <3> QED
      BY <1>o, <3>2 DEF PartWay, Whole
  <2> QED
    BY <1>o, <2>2, <2>3 DEF WholeInv
<1>1. ASSUME NEW s \in Slots, NEW e \in Events, Deliver(s, e) PROVE WholeInv'
  <2>1. /\ ~Handles(s)' /\ org' = org /\ rows' = rows
        /\ \A t \in Slots \ {s} :
             pc'[t] = pc[t] /\ ev'[t] = ev[t] /\ clampBy'[t] = clampBy[t]
    BY <1>0, <1>1 DEF Deliver, Handles, Handling, Writing, TypeOK
  <2> QED
    BY <1>o, <1>u, <2>1
<1>2. ASSUME NEW s \in Slots, Claim(s) PROVE WholeInv'
  <2>1. /\ org' = org /\ ev' = ev /\ clampBy' = clampBy
        /\ \A t \in Slots \ {s} : pc'[t] = pc[t]
        /\ ev[s] \in Events /\ pc[s] \in {"insert", "reclaim"}
        /\ rows' = [rows EXCEPT ![ev[s]] = RowAfter(s)]
    BY <1>0, <1>2 DEF Claim, WriteRow, TypeOK
  <2>2. RowAfter(s) \in {rows[ev[s]], "processing"}
    BY <2>1 DEF RowAfter
  <2>3. Whole(org') \/ Unfinished'
    BY <1>0, <1>u, <2>1, <2>2 DEF TypeOK
  <2>4. ASSUME Handles(s)'
        PROVE  PartWay(s)' /\ \A t \in Slots : ~Handles(t)
    <3>1. /\ pc'[s] = FirstStatement(ev[s])
          /\ rows[ev[s]] \in {"none", "failed"}
      BY <1>0, <1>2, <2>1, <2>4
         DEF Claim, Reclaimable, Handles, Handling, Writing, TypeOK
    <3>2. \A o \in Slots : Handles(o) => ev[o] = ev[s]
      BY <1>0, <1>2, <2>1, <2>4 DEF Claim, Handles, Handling, Writing, TypeOK
    <3>3. \A o \in Slots : Handles(o) =>
            rows[ev[o]] = "processing" \/ rows[ev[o]] = "completed"
      BY DEF IInv, ClaimHeld
    <3>4. PartWay(s)'
      BY <2>1, <3>1 DEF PartWay, FirstStatement
    <3> QED
      BY <3>1, <3>2, <3>3, <3>4
  <2> QED
    BY <1>o, <2>1, <2>3, <2>4
<1>3. ASSUME NEW s \in Slots, Answer(s) PROVE WholeInv'
  <2>1. /\ ~Handles(s)' /\ org' = org /\ rows' = rows
        /\ \A t \in Slots \ {s} :
             pc'[t] = pc[t] /\ ev'[t] = ev[t] /\ clampBy'[t] = clampBy[t]
    BY <1>0, <1>3 DEF Answer, Finish, Handles, Handling, Writing, TypeOK
  <2> QED
    BY <1>o, <1>u, <2>1
<1>4. ASSUME NEW s \in Slots, Work(s) PROVE WholeInv'
  <2>1. /\ pc[s] \in Writing /\ Handles(s) /\ ev[s] \in Events
        /\ rows' = rows /\ ev' = ev /\ org' = OrgAfter(s)
        /\ pc'[s] = NextStatement(s)
        /\ clampBy'[s] = IF pc[s] = "seats" THEN org.plan ELSE "free"
        /\ \A t \in Slots \ {s} :
             pc'[t] = pc[t] /\ ev'[t] = ev[t] /\ clampBy'[t] = clampBy[t]
    BY <1>0, <1>4 DEF Work, Handles, Handling, Writing, TypeOK
  <2>2. PartWay(s) /\ rows[ev[s]] = "processing"
    BY <1>b, <2>1 DEF IInv, ClaimHeld, Writing
  <2>3. Whole(org') \/ Unfinished'
    <3>1. CASE Kind[ev[s]] = "past_due"
      BY <1>u, <2>1, <2>2, <3>1, StatementOfHandler
    <3>2. CASE Kind[ev[s]] # "past_due"
      BY <2>1, <2>2, <3>2 DEF Unfinished
    <3> QED
      BY <3>1, <3>2
  <2>4. PartWay(s)'
    <3>1. CASE Kind[ev[s]] = "past_due"
      BY <2>1, <2>2, <3>1 DEF PartWay, NextStatement, Writing
    <3>2. CASE Kind[ev[s]] = "active"
      <4>1. org'.plan = "pro" /\ (pc[s] = "billing" => Whole(org'))
        BY <2>1, <2>2, <3>2, StatementOfHandler
      <4>2. pc[s] = "seats" => org.plan = "pro"
        BY <2>2, <3>2 DEF PartWay
      <4>3. pc[s] \in {"plan", "seats", "billing"}
        BY <2>1, <2>2, <3>2 DEF PartWay, Writing
      <4>4. /\ pc[s] = "plan" => pc'[s] = "seats"
            /\ pc[s] = "seats" => pc'[s] = "billing"
            /\ pc[s] = "billing" => pc'[s] = "complete"
        BY <2>1, <3>2 DEF NextStatement
      <4> QED
        BY <2>1, <3>2, <4>1, <4>2, <4>3, <4>4 DEF PartWay
    <3>3. CASE Kind[ev[s]] = "terminal"
      <4>1. /\ org'.plan = "free"
            /\ pc[s] = "billing" =>
                 org'.tier = "none" /\ org'.inventory = "none" /\ org'.seats = "one"
            /\ pc[s] = "users" => Whole(org')
        BY <2>1, <2>2, <3>3, StatementOfHandler
      <4>2. /\ pc[s] = "plan" => pc'[s] = "seats"
            /\ pc[s] = "seats" => pc'[s] = "billing"
            /\ pc[s] = "billing" => pc'[s] = "users"
            /\ pc[s] = "users" => pc'[s] = "complete"
        BY <2>1, <3>3 DEF NextStatement
      <4> QED
        BY <2>1, <3>3, <4>1, <4>2 DEF PartWay, Writing
    <3> QED
      BY <1>0, <2>1, <3>1, <3>2, <3>3
  <2> QED
    BY <1>o, <2>1, <2>3, <2>4
\* A handler's run is recorded as done: if it changes the plan, the
\* organization is whole now.
<1>c. ASSUME NEW s \in Slots, pc[s] = "complete", org' = org,
             \A e \in Events \ {ev[s]} : rows'[e] = rows[e]
      PROVE  Whole(org') \/ Unfinished'
  <2>1. PartWay(s)
    BY <1>b, <1>c DEF Handles, Handling
  <2>2. CASE Kind[ev[s]] = "past_due"
    BY <1>b, <1>c, <2>2 DEF Unfinished
  <2>3. CASE Kind[ev[s]] # "past_due"
    BY <1>c, <2>1, <2>3 DEF PartWay
  <2> QED
    BY <2>2, <2>3
<1>5. ASSUME NEW s \in Slots, Complete(s) PROVE WholeInv'
  <2>1. /\ ~Handles(s)' /\ org' = org /\ pc[s] = "complete"
        /\ \A e \in Events \ {ev[s]} : rows'[e] = rows[e]
        /\ \A t \in Slots \ {s} :
             pc'[t] = pc[t] /\ ev'[t] = ev[t] /\ clampBy'[t] = clampBy[t]
    BY <1>0, <1>5 DEF Complete, Finish, WriteRow, Handles, Handling, Writing, TypeOK
  <2> QED
    BY <1>c, <1>o, <2>1
<1>6. ASSUME NEW s \in Slots, Release(s) PROVE WholeInv'
  <2>1. /\ ~Handles(s)' /\ org' = org /\ pc[s] = "fail" /\ ev[s] \in Events
        /\ rows' = [rows EXCEPT ![ev[s]] = RowAfter(s)]
        /\ \A t \in Slots \ {s} :
             pc'[t] = pc[t] /\ ev'[t] = ev[t] /\ clampBy'[t] = clampBy[t]
    BY <1>0, <1>6 DEF Release, Finish, WriteRow, Handles, Handling, Writing, TypeOK
  <2>2. RowAfter(s) = "completed" => rows[ev[s]] = "completed"
    BY <2>1 DEF RowAfter, Released
  <2> QED
    BY <1>0, <1>o, <1>u, <2>1, <2>2 DEF TypeOK
<1>7. ASSUME NEW s \in Slots, StatementFails(s) PROVE WholeInv'
  <2>1. /\ ev[s] \in Events /\ pc[s] # "idle" /\ pc'[s] \in {"idle", "fail"}
        /\ pc'[s] = "fail" => ev'[s] = ev[s] /\ pc[s] \notin Claiming \cup {"fail"}
        /\ \/ rows' = rows /\ org' = org
           \/ rows' = [rows EXCEPT ![ev[s]] = RowAfter(s)] /\ org' = OrgAfter(s)
        /\ \A t \in Slots \ {s} :
             pc'[t] = pc[t] /\ ev'[t] = ev[t] /\ clampBy'[t] = clampBy[t]
    BY <1>0, <1>7 DEF StatementFails, AfterError, Finish, WriteRow, TypeOK
  <2>2. Handles(s) \/ pc[s] \in Claiming
    BY <1>0, <2>1 DEF Handles, TypeOK
  <2>3. Handles(s)' => PartWay(s)' /\ Handles(s)
    BY <2>1, <2>2 DEF Handles, Handling, Writing, PartWay
  <2>4. \A e \in Events \ {ev[s]} : rows'[e] = rows[e]
    BY <1>0, <2>1 DEF TypeOK
  <2>5. (org' = org \/ Handles(s)) /\ (Whole(org') \/ Unfinished')
    <3>1. CASE pc[s] \in Claiming \cup {"fail"}
      <4>1. org' = org
        BY <2>1, <3>1 DEF OrgAfter, Claiming
      <4>2. RowAfter(s) = "completed" => rows[ev[s]] = "completed"
        BY <3>1 DEF RowAfter, Released, Claiming
      <4> QED
        BY <1>0, <1>u, <2>1, <4>1, <4>2 DEF TypeOK
    <3>2. CASE pc[s] = "complete"
      <4>1. org' = org
        BY <2>1, <3>2 DEF OrgAfter
      <4> QED
        BY <1>c, <2>4, <3>2, <4>1
    <3>3. CASE pc[s] \in Writing
      <4>1. /\ Handles(s) /\ PartWay(s) /\ rows[ev[s]] = "processing"
        BY <1>b, <3>3 DEF IInv, ClaimHeld, Handles, Handling, Writing
      <4>2. rows'[ev[s]] = "processing"
        BY <1>0, <2>1, <3>3, <4>1 DEF RowAfter, Writing, TypeOK
      <4>3. CASE Kind[ev[s]] = "past_due"
        <5>1. Whole(org) => Whole(org')
          BY <2>1, <3>3, <4>1, <4>3, StatementOfHandler
        <5> QED
          BY <1>u, <2>4, <4>1, <4>2, <5>1
      <4>4. CASE Kind[ev[s]] # "past_due"
        BY <2>1, <4>1, <4>2, <4>4 DEF Unfinished
      <4> QED
        BY <4>3, <4>4
    <3> QED
      BY <2>2, <3>1, <3>2, <3>3 DEF Handles, Handling
  <2> QED
    BY <1>o, <2>1, <2>3, <2>5
<1>8. CASE Crash
  <2>1. \A s \in Slots : ~Handles(s)'
    BY <1>8 DEF Crash, Handles, Handling, Writing
  <2>2. Whole(org') \/ Unfinished'
    BY <1>8, <1>u DEF Crash
  <2> QED
    BY <2>1, <2>2 DEF WholeInv
<1>9. CASE UNCHANGED vars
  BY <1>b, <1>9 DEF vars, WholeInv, Handles, PartWay, Whole, Unfinished
<1> QED
  BY <1>1, <1>2, <1>3, <1>4, <1>5, <1>6, <1>7, <1>8, <1>9 DEF Next, Advance

\* An organization whose events are all acknowledged and whose handlers never
\* interleaved is paid, or free, in every column.
THEOREM SettledMeansWhole == Spec => []SettledOrgIsWhole
<1>1. Init => WholeInv
  <2> SUFFICES ASSUME Init PROVE WholeInv
    OBVIOUS
  <2>1. Whole(org)
    BY DEF Init, Whole
  <2>2. \A s \in Slots : ~Handles(s)
    BY DEF Init, Handles, Handling, Writing
  <2> QED
    BY <2>1, <2>2 DEF WholeInv
<1>2. IInv /\ WholeInv /\ [Next]_vars => WholeInv'
  BY WholeStep
<1>3. IInv /\ WholeInv => SettledOrgIsWhole
  BY DEF IInv, AckedIsDone, WholeInv, Whole, Unfinished, SettledOrgIsWhole
<1> QED
  BY <1>1, <1>2, <1>3, Invariant, PTL DEF Spec
=============================================================================
