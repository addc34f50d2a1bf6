--------------------------- MODULE StripeWebhook ---------------------------
(***************************************************************************)
(* Deliveries of Stripe events about one organization that has a           *)
(* subscription: the claim of an event in stripe_webhook_events, the       *)
(* statements of its handler, its completion or release, and the answer    *)
(* Stripe's retries depend on.                                             *)
(*                                                                         *)
(* Code: handleStripeWebhook, handleSubscriptionChange,                    *)
(* handleInvoicePaymentFailed and the three event functions of             *)
(* src/src/server/billing/billingApi.ts, with setOrganizationPlan and      *)
(* updateOrganizationBilling of orgStore.ts.  Checkout sessions, the       *)
(* remaining kind of event, are the module Checkout.                       *)
(*                                                                         *)
(* Every step is one statement on the database.  A statement may fail      *)
(* after it took effect.                                                   *)
(***************************************************************************)
EXTENDS Naturals, FiniteSets

CONSTANTS
  Events,     \* Stripe events, all of the organization's customer
  Kind,       \* of each event: the handler it gets
  Slots,      \* webhook requests that may be in flight at once
  MaxFaults   \* bound: failed statements and crashes of the server

ASSUME WebhookAssumption ==
  /\ Kind \in [Events -> {"active", "terminal", "past_due"}]
  /\ MaxFaults \in Nat

VARIABLES
  rows,      \* status in stripe_webhook_events, "none" without a row
  pc,        \* per request, the statement it is about to issue
  ev,        \* per request, its event, "none" while it is idle
  clampBy,   \* per request, the plan it read for clampSeatCountForPlan
  org,       \* the billing columns of the organization and of its users
  acked,     \* events that Stripe got a 2xx for
  applied,   \* per event, how often its handler ran to the end
  undone,    \* per event, how often only its completion was lost
  overlap,   \* have the handlers of two events interleaved?
  faults     \* faults so far

vars == <<rows, pc, ev, clampBy, org, acked, applied, undone, overlap, faults>>

Claiming == {"insert", "reclaim", "select"}
Writing  == {"plan", "seats", "billing", "users"}
Handling == Writing \cup {"complete", "fail"}

\* The request is answered.
Finish(s) ==
  /\ pc' = [pc EXCEPT ![s] = "idle"]
  /\ ev' = [ev EXCEPT ![s] = "none"]

\* The request works on an event that it claimed.
Handles(s) == pc[s] \in Handling
Busy(e) == \E s \in Slots : Handles(s) /\ ev[s] = e

----------------------------------------------------------------------------
(* The handlers' statements *)

\* setOrganizationPlan: a pro organization keeps a tier it has.
SetPlan(plan) ==
  [org EXCEPT !.plan = plan,
              !.tier = IF plan = "free" THEN "none"
                       ELSE IF @ = "none" THEN "pro" ELSE @]

\* Mutant of Canceled: the purchased inventory lingers.
CanceledKeepsInventory ==
  [org EXCEPT !.tier = "none", !.seats = "one", !.status = "canceled"]

\* Mutant of Canceled: billingStatus as Stripe names it.
CanceledRawStatus ==
  [org EXCEPT !.tier = "none", !.inventory = "none", !.seats = "one",
              !.status = "incomplete_expired"]

\* updateOrganizationBilling of a subscription that ended.
Canceled ==
  [org EXCEPT !.tier = "none", !.inventory = "none", !.seats = "one",
              !.status = "canceled"]

\* updateOrganizationBilling of one in force; its seats are clamped.
Renewed(plan) ==
  [org EXCEPT !.tier = "max", !.inventory = "paid",
              !.seats = IF plan = "free" THEN "one" ELSE "many",
              !.status = "active"]

\* What the statement of a request leaves in the organization.
OrgAfter(s) ==
  CASE pc[s] = "plan"    -> SetPlan(IF Kind[ev[s]] = "active" THEN "pro" ELSE "free")
    [] pc[s] = "billing" -> CASE Kind[ev[s]] = "active"   -> Renewed(clampBy[s])
                              [] Kind[ev[s]] = "terminal" -> Canceled
                              [] OTHER -> [org EXCEPT !.status = "past_due"]
    [] pc[s] = "users"   -> [org EXCEPT !.userTiers = "none"]
    [] OTHER             -> org

FirstStatement(e) == IF Kind[e] = "past_due" THEN "billing" ELSE "plan"

NextStatement(s) ==
  CASE pc[s] = "plan"    -> "seats"
    [] pc[s] = "seats"   -> "billing"
    [] pc[s] = "billing" -> IF Kind[ev[s]] = "terminal" THEN "users" ELSE "complete"
    [] OTHER             -> "complete"

----------------------------------------------------------------------------
(* The event's row *)

\* Mutant of Reclaimable: an event in progress is claimed again.
ReclaimableAnyOpen(status) == status \in {"failed", "processing"}

\* Mutant of Reclaimable: a failed event stays failed.
ReclaimableNever(status) == FALSE

Reclaimable(status) == status = "failed"

\* Mutant of Released: without AND status = 'processing'.
ReleasedAlways(status) == "failed"

\* Mutant of Released: the claim is kept.
ReleasedNever(status) == status

\* failStripeWebhookEvent.
Released(status) == IF status = "processing" THEN "failed" ELSE status

\* What the statement of a request leaves in the row of its event.
RowAfter(s) ==
  LET row == rows[ev[s]] IN
  CASE pc[s] = "insert"   -> IF row = "none" THEN "processing" ELSE row
    [] pc[s] = "reclaim"  -> IF Reclaimable(row) THEN "processing" ELSE row
    [] pc[s] = "complete" -> IF row = "processing" THEN "completed" ELSE row
    [] pc[s] = "fail"     -> Released(row)
    [] OTHER              -> row

WriteRow(s) == rows' = [rows EXCEPT ![ev[s]] = RowAfter(s)]

----------------------------------------------------------------------------
(* handleStripeWebhook *)

\* Stripe delivers an event: at first, again without a 2xx, or twice.
Deliver(s, e) ==
  /\ pc[s] = "idle"
  /\ pc' = [pc EXCEPT ![s] = "insert"]
  /\ ev' = [ev EXCEPT ![s] = e]
  /\ UNCHANGED <<rows, clampBy, org, acked, applied, undone, overlap, faults>>

\* claimStripeWebhookEvent: the INSERT, then the UPDATE of a failed row.
Claim(s) ==
  LET e == ev[s]
      claimed == IF pc[s] = "insert" THEN rows[e] = "none"
                                     ELSE Reclaimable(rows[e]) IN
  /\ pc[s] \in {"insert", "reclaim"}
  /\ WriteRow(s)
  /\ pc' = [pc EXCEPT ![s] = IF claimed THEN FirstStatement(e)
                             ELSE IF @ = "insert" THEN "reclaim" ELSE "select"]
  /\ overlap' = (overlap \/ (claimed /\ \E o \in Slots : Handles(o) /\ ev[o] # e))
  /\ UNCHANGED <<ev, clampBy, org, acked, applied, undone, faults>>

\* Mutant of Duplicate: 2xx for an event whose handler still runs.
DuplicateOrInProgress(status) == status \in {"completed", "processing"}

Duplicate(status) == status = "completed"

\* claimStripeWebhookEvent: the SELECT, and the answer that follows.
Answer(s) ==
  /\ pc[s] = "select"
  /\ acked' = IF Duplicate(rows[ev[s]]) THEN acked \cup {ev[s]} ELSE acked
  /\ Finish(s)
  /\ UNCHANGED <<rows, clampBy, org, applied, undone, overlap, faults>>

\* A statement of the handler; "seats" reads the plan for the next one.
Work(s) ==
  /\ pc[s] \in Writing
  /\ org' = OrgAfter(s)
  /\ clampBy' = [clampBy EXCEPT ![s] = IF pc[s] = "seats" THEN org.plan ELSE "free"]
  /\ pc' = [pc EXCEPT ![s] = NextStatement(s)]
  /\ applied' = IF NextStatement(s) = "complete"
                THEN [applied EXCEPT ![ev[s]] = @ + 1] ELSE applied
  /\ UNCHANGED <<rows, ev, acked, undone, overlap, faults>>

\* completeStripeWebhookEvent, then 200.
Complete(s) ==
  /\ pc[s] = "complete"
  /\ WriteRow(s)
  /\ acked' = acked \cup {ev[s]}
  /\ Finish(s)
  /\ UNCHANGED <<clampBy, org, applied, undone, overlap, faults>>

\* failStripeWebhookEvent after an error of the handler, then 500.
Release(s) ==
  /\ pc[s] = "fail"
  /\ WriteRow(s)
  /\ Finish(s)
  /\ UNCHANGED <<clampBy, org, acked, applied, undone, overlap, faults>>

\* An error while claiming is a 503, one of the release is logged, one of the
\* handler releases the claim.
AfterError(s) ==
  IF pc[s] \in Claiming \cup {"fail"} THEN Finish(s)
  ELSE /\ pc' = [pc EXCEPT ![s] = "fail"]
       /\ UNCHANGED ev

\* A statement fails, before or after it took effect.
StatementFails(s) ==
  /\ pc[s] # "idle"
  /\ faults < MaxFaults
  /\ faults' = faults + 1
  /\ \/ /\ UNCHANGED <<rows, org>>
        /\ undone' = IF pc[s] = "complete" THEN [undone EXCEPT ![ev[s]] = @ + 1]
                                           ELSE undone
     \/ /\ WriteRow(s)
        /\ org' = OrgAfter(s)
        /\ UNCHANGED undone
  /\ AfterError(s)
  /\ clampBy' = [clampBy EXCEPT ![s] = "free"]
  /\ UNCHANGED <<acked, applied, overlap>>

\* The server dies and takes its requests with it.
Crash ==
  /\ \E s \in Slots : pc[s] # "idle"
  /\ faults < MaxFaults
  /\ faults' = faults + 1
  /\ pc' = [s \in Slots |-> "idle"]
  /\ ev' = [s \in Slots |-> "none"]
  /\ clampBy' = [s \in Slots |-> "free"]
  /\ UNCHANGED <<rows, org, acked, applied, undone, overlap>>

Init ==
  /\ rows = [e \in Events |-> "none"]
  /\ pc = [s \in Slots |-> "idle"]
  /\ ev = [s \in Slots |-> "none"]
  /\ clampBy = [s \in Slots |-> "free"]
  /\ org = [plan |-> "pro", tier |-> "max", inventory |-> "paid",
            seats |-> "many", status |-> "active", userTiers |-> "some"]
  /\ acked = {}
  /\ applied = [e \in Events |-> 0]
  /\ undone = [e \in Events |-> 0]
  /\ overlap = FALSE
  /\ faults = 0

Advance(s) == Claim(s) \/ Answer(s) \/ Work(s) \/ Complete(s) \/ Release(s)

Next ==
  \/ \E s \in Slots : \/ \E e \in Events : Deliver(s, e)
                      \/ Advance(s)
                      \/ StatementFails(s)
  \/ Crash

Redeliver(e) == e \notin acked /\ \E s \in Slots : Deliver(s, e)

\* The server answers every request it does not die in, and Stripe repeats an
\* event until it gets a 2xx.
Fairness ==
  /\ \A s \in Slots : WF_vars(Advance(s))
  /\ \A e \in Events : SF_vars(Redeliver(e))

Spec == Init /\ [][Next]_vars /\ Fairness

----------------------------------------------------------------------------
(* Properties *)

TypeOK ==
  /\ rows \in [Events -> {"none", "processing", "completed", "failed"}]
  /\ pc \in [Slots -> {"idle"} \cup Claiming \cup Handling]
  /\ ev \in [Slots -> Events \cup {"none"}]
  /\ clampBy \in [Slots -> {"free", "pro"}]
  /\ org \in [plan : {"free", "pro"}, tier : {"none", "pro", "max"},
              inventory : {"none", "paid"}, seats : {"one", "many"},
              status : {"active", "past_due", "canceled"},
              userTiers : {"none", "some"}]
  /\ acked \subseteq Events
  /\ applied \in [Events -> Nat]
  /\ undone \in [Events -> Nat]
  /\ overlap \in BOOLEAN
  /\ faults \in 0 .. MaxFaults

\* However deliveries of one event overlap, fail and repeat, no two requests
\* handle it at once: the three statements of claimStripeWebhookEvent let one
\* of them through.
OneHandler ==
  \A s, t \in Slots : Handles(s) /\ Handles(t) /\ ev[s] = ev[t] => s = t

\* Stripe stops retrying only what is recorded as done, and what is done was
\* done by a handler that ran to its end.
AckMeansApplied ==
  \A e \in Events : e \in acked => rows[e] = "completed" /\ applied[e] > 0

\* A handler runs to its end again only after the completion of a run was
\* lost: neither duplicates nor a late release repeat what took effect.
AppliedOnce == \A e \in Events : applied[e] <= 1 + undone[e]

\* A row is left in progress with no request at work on it only by a fault.
Orphan(e) == rows[e] = "processing" /\ ~Busy(e)
OrphansAreFaults ==
  [][\A e \in Events : Orphan(e)' => Orphan(e) \/ faults' > faults]_vars

\* Unless handlers of two events interleaved, an organization whose events
\* are all acknowledged is whole: paid in every column, or free with neither
\* tier, inventory, seats nor users' tiers lingering.
SettledOrgIsWhole ==
  /\ acked = Events /\ ~overlap /\ \A s \in Slots : ~Handles(s)
  => IF org.plan = "pro"
     THEN org.tier = "max" /\ org.inventory = "paid" /\ org.seats = "many"
     ELSE org.tier = "none" /\ org.inventory = "none" /\ org.seats = "one"
          /\ org.userTiers = "none"

\* Every event is acknowledged in the end, or left in progress by a fault,
\* for which the code has no remedy.
EventsEnd == \A e \in Events : <>(e \in acked \/ Orphan(e))
=============================================================================
