------------------------------ MODULE Checkout ------------------------------
(***************************************************************************)
(* Fulfilment of one paid checkout session: by the webhook request that    *)
(* holds the claim on its checkout.session.completed event, which Stripe   *)
(* repeats until it succeeds, and by the requests of the success page.     *)
(*                                                                         *)
(* Code: handleCheckoutStatus and handleCheckoutCompleted of               *)
(* src/src/server/billing/billingApi.ts, fulfillCheckout.ts,               *)
(* provisionOrg.ts and the statements they issue in orgStore.ts and        *)
(* userStore.ts.  That one webhook request at a time works on the event is *)
(* OneHandler of StripeWebhook.  Tiers, seats and prices decide nothing    *)
(* here and are left out, and so are sessions that cannot be fulfilled:    *)
(* without a customer or an address, or for an organization that is gone.  *)
(***************************************************************************)
EXTENDS Naturals, FiniteSets

CONSTANTS
  Pages,      \* success-page requests that may be in flight at once
  Situations, \* who pays, see Init
  MaxFaults   \* bound: failed statements and crashes of the server

ASSUME CheckoutAssumption ==
  /\ Situations \subseteq {"newcomer", "upgrade", "free", "paying"}
  /\ "hook" \notin Pages
  /\ MaxFaults \in Nat

VARIABLES
  situation,  \* of the payer
  orgs,       \* "home": of the payer, if any; "made": for this session
  pc,         \* per request, the statement it is about to issue
  org,        \* per request, the organization it provisions
  acked,      \* Stripe got a 2xx
  orphaned,   \* the event stays in progress: Stripe's retries are refused
  invites,    \* invitation tokens created for the payer
  mailed,     \* organizations a welcome or upgrade mail was sent for
  faults      \* faults so far

vars == <<situation, orgs, pc, org, acked, orphaned, invites, mailed, faults>>

Requests == {"hook"} \cup Pages
OrgIds   == {"home", "made"}
NoOrg    == [exists |-> FALSE, plan |-> "free", linked |-> FALSE,
             user |-> FALSE, member |-> FALSE]
Reading  == {"ready", "existing", "free", "onOrg", "active"}
Writing  == {"plan", "bill", "make", "rebill", "user", "member", "join", "token"}

\* The organization whose stripe_customer_id is the session's customer.
Linked == {o \in OrgIds : orgs[o].linked}

\* findActiveUserByEmail: the organization of the payer's oldest user.
ActiveIn == IF orgs["home"].user THEN {"home"}
            ELSE {o \in {"made"} : orgs[o].user}

\* Mutant of PaidPlan: the plan's name before migration 005.
PaidPlanTeam == "team"

PaidPlan == "pro"

\* Mutant of LinkOrder: the customer is linked before the plan is set.
LinkOrderSwapped == <<"bill", "plan">>

\* linkPaidCheckoutToExistingOrg: the plan, then the link to the customer.
LinkOrder == <<"plan", "bill">>

\* A session that names the organization to upgrade skips the search for one.
First == IF situation = "upgrade" THEN LinkOrder[1] ELSE "existing"

GoTo(r, next) == pc' = [pc EXCEPT ![r] = next]

----------------------------------------------------------------------------
(* Statements *)

\* Mutant of NextStatement: an existing organization needs no administrator.
NextStatementSkipsAdmin(s) ==
  CASE s = LinkOrder[1] -> LinkOrder[2]
    [] s = "make" -> "onOrg"
    [] s = "user" -> "member"
    [] s = "member" -> "token"
    [] OTHER -> "email"

\* Mutant of NextStatement: the new user does not become a member.
NextStatementNoMember(s) ==
  CASE s = LinkOrder[1] -> LinkOrder[2]
    [] s \in {"make", "rebill"} -> "onOrg"
    [] s = "user" -> "token"
    [] OTHER -> "email"

\* An organization that is made or found is given its administrator by
\* ensureCheckoutAdmin; one that is upgraded has one.
NextStatement(s) ==
  CASE s = LinkOrder[1] -> LinkOrder[2]
    [] s \in {"make", "rebill"} -> "onOrg"
    [] s = "user" -> "member"
    [] s = "member" -> "token"
    [] OTHER -> "email"

\* What the statement of a request leaves in the tables.
OrgsAfter(r) ==
  LET o == org[r] IN
  CASE pc[r] = "plan" -> [orgs EXCEPT ![o].plan = PaidPlan]
    [] pc[r] = "bill" -> [orgs EXCEPT ![o].linked = TRUE]
    [] pc[r] = "make" /\ Linked = {} ->
         [orgs EXCEPT !["made"] = [NoOrg EXCEPT !.exists = TRUE, !.plan = PaidPlan,
                                                !.linked = TRUE]]
    [] pc[r] = "user" -> [orgs EXCEPT ![o].user = TRUE]
    [] pc[r] \in {"member", "join"} -> [orgs EXCEPT ![o].member = TRUE]
    [] OTHER -> orgs

\* Mutant of Rejected: a second user row of one address is let through.
RejectedOnlyLinks(r) == pc[r] = "bill" /\ Linked \ {org[r]} # {}

\* A unique index refuses a second organization of the customer, or a second
\* user of one address.
Rejected(r) == \/ pc[r] = "bill" /\ Linked \ {org[r]} # {}
               \/ pc[r] = "user" /\ orgs[org[r]].user

\* Mutant of Drop: an error of a statement is only logged.
DropGoesOn(r) == GoTo(r, "email")

\* After an error the webhook releases its claim, to be retried.
Drop(r) == GoTo(r, "idle")

----------------------------------------------------------------------------
(* Requests *)

\* Stripe delivers the event, again and again without a 2xx.
Deliver ==
  /\ pc["hook"] = "idle" /\ ~acked /\ ~orphaned
  /\ GoTo("hook", First)
  /\ org' = [org EXCEPT !["hook"] = "home"]
  /\ UNCHANGED <<situation, orgs, acked, orphaned, invites, mailed, faults>>

\* The success page asks for the state of the session.
Ask(r) ==
  /\ r \in Pages /\ pc[r] = "idle"
  /\ GoTo(r, "ready")
  /\ org' = [org EXCEPT ![r] = "home"]
  /\ UNCHANGED <<situation, orgs, acked, orphaned, invites, mailed, faults>>

\* Where a query leads, and the organization that is provisioned then.
Read(r) ==
  LET o == org[r]
      linked == CHOOSE l \in OrgIds : l \in Linked
      active == CHOOSE a \in OrgIds : a \in ActiveIn IN
  CASE pc[r] = "ready" ->      \* findReadyCheckoutOrg
         <<IF \E l \in Linked : orgs[l].plan = "pro" THEN "idle" ELSE First, o>>
    [] pc[r] = "existing" ->   \* findOrganizationByStripeCustomerId
         IF Linked # {} THEN <<"rebill", linked>> ELSE <<"free", o>>
    [] pc[r] = "free" ->       \* findFreeOrgForCheckoutAdmin
         IF \E a \in ActiveIn : orgs[a].plan = "free" THEN <<LinkOrder[1], active>>
         ELSE <<"make", "made">>
    [] pc[r] = "onOrg" ->      \* findOrgUserByEmail
         <<IF orgs[o].user THEN "email" ELSE "active", o>>
    [] pc[r] = "active" ->     \* findActiveUserByEmail
         <<IF ActiveIn = {} THEN "user"
           ELSE IF o \in ActiveIn THEN "email" ELSE "join", o>>

Lookup(r) ==
  /\ pc[r] \in Reading
  /\ GoTo(r, Read(r)[1])
  /\ org' = [org EXCEPT ![r] = Read(r)[2]]
  /\ UNCHANGED <<situation, orgs, acked, orphaned, invites, mailed, faults>>

\* createOrganizationForCheckout falls back to the organization that won.
Write(r) ==
  /\ pc[r] \in Writing /\ ~Rejected(r)
  /\ orgs' = OrgsAfter(r)
  /\ org' = IF pc[r] = "make" /\ Linked # {}
            THEN [org EXCEPT ![r] = CHOOSE l \in OrgIds : l \in Linked] ELSE org
  /\ invites' = IF pc[r] = "token" THEN invites + 1 ELSE invites
  /\ GoTo(r, NextStatement(pc[r]))
  /\ UNCHANGED <<situation, acked, orphaned, mailed, faults>>

Reject(r) ==
  /\ Rejected(r)
  /\ Drop(r)
  /\ UNCHANGED <<situation, orgs, org, acked, orphaned, invites, mailed, faults>>

\* sendCheckoutEmail, whose errors are only logged.
Email(r) ==
  /\ pc[r] = "email"
  /\ mailed' \in {mailed, mailed \cup {org[r]}}
  /\ GoTo(r, "finish")
  /\ UNCHANGED <<situation, orgs, org, acked, orphaned, invites, faults>>

\* The webhook completes the event and answers 200; the page is answered.
Finish(r) ==
  /\ pc[r] = "finish"
  /\ acked' = (acked \/ r = "hook")
  /\ GoTo(r, "idle")
  /\ UNCHANGED <<situation, orgs, org, orphaned, invites, mailed, faults>>

\* A statement of a request fails, before or after it took effect.
StatementFails(r) ==
  /\ pc[r] \notin {"idle", "email"} /\ ~Rejected(r)
  /\ faults < MaxFaults
  /\ faults' = faults + 1
  /\ \/ UNCHANGED <<orgs, invites>>
     \/ /\ orgs' = OrgsAfter(r)
        /\ invites' = IF pc[r] = "token" THEN invites + 1 ELSE invites
  /\ Drop(r)
  /\ UNCHANGED <<situation, org, acked, orphaned, mailed>>

\* The server dies.  An event it was at work on stays in progress.
Crash ==
  /\ \E r \in Requests : pc[r] # "idle"
  /\ faults < MaxFaults
  /\ faults' = faults + 1
  /\ pc' = [r \in Requests |-> "idle"]
  /\ orphaned' = (orphaned \/ pc["hook"] # "idle")
  /\ UNCHANGED <<situation, orgs, org, acked, invites, mailed>>

\* A newcomer has no user yet.  The others have one in a free organization,
\* which an "upgrade" session names, or in one that pays already.
Init ==
  /\ situation \in Situations
  /\ orgs = [made |-> NoOrg,
             home |-> IF situation = "newcomer" THEN NoOrg
                      ELSE [exists |-> TRUE, linked |-> FALSE, user |-> TRUE,
                            member |-> TRUE,
                            plan |-> IF situation = "paying" THEN "pro" ELSE "free"]]
  /\ pc = [r \in Requests |-> "idle"]
  /\ org = [r \in Requests |-> "home"]
  /\ acked = FALSE /\ orphaned = FALSE
  /\ invites = 0 /\ mailed = {} /\ faults = 0

Advance(r) == Lookup(r) \/ Write(r) \/ Reject(r) \/ Email(r) \/ Finish(r)

Next ==
  \/ Deliver
  \/ \E r \in Requests : Ask(r) \/ Advance(r) \/ StatementFails(r)
  \/ Crash

\* Stripe repeats the event and the server works; nobody need see the page.
Fairness == WF_vars(Deliver) /\ \A r \in Requests : WF_vars(Advance(r))

Spec == Init /\ [][Next]_vars /\ Fairness

----------------------------------------------------------------------------
(* Properties *)

TypeOK ==
  /\ situation \in Situations
  /\ orgs \in [OrgIds -> [exists : BOOLEAN, plan : {"free", "pro"},
                          linked : BOOLEAN, user : BOOLEAN, member : BOOLEAN]]
  /\ pc \in [Requests -> {"idle", "email", "finish"} \cup Reading \cup Writing]
  /\ org \in [Requests -> OrgIds]
  /\ acked \in BOOLEAN /\ orphaned \in BOOLEAN
  /\ invites \in Nat /\ mailed \subseteq OrgIds /\ faults \in 0 .. MaxFaults

\* An organization is linked to the customer only once it is pro.  Whoever
\* fails in between is retried by a request that finds the organization by its
\* customer and does not look at its plan again.
LinkedIsPro == \A o \in Linked : orgs[o].exists /\ orgs[o].plan = "pro"

\* Once Stripe is told that all is well, one organization has the paid plan
\* and the payer has a user or a membership in it, whichever of the requests
\* did which part of the work and wherever the others failed.
AckedIsServed ==
  acked => \E o \in Linked : orgs[o].plan = "pro" /\ (orgs[o].user \/ orgs[o].member)

\* However many requests find the payer missing, one of them invites.
OneInvite == invites <= 1

\* A mail goes out only for the organization that the customer is linked to.
MailedIsLinked == mailed \subseteq Linked

Served == \E o \in Linked : orgs[o].plan = "pro" /\ orgs[o].member

\* createUser got no further than the user's row: no retry adds the membership.
HalfUser == \E o \in OrgIds : /\ orgs[o].user /\ ~orgs[o].member
                              /\ \A r \in Requests : pc[r] # "member" \/ org[r] # o

\* Who pays is a member of a paid organization in the end, unless a crash
\* leaves the event in progress or the user without its membership.
PayersAreServed == <>(Served \/ orphaned \/ (faults > 0 /\ HalfUser))

\* A test names it "replay checkout keeps one org and one admin": a session
\* leaves either the payer's own organization upgraded or a new one.
OneOrganization ==
  orgs["made"].exists => situation \in {"newcomer", "paying"}
                         \/ orgs["home"].plan = "free"
=============================================================================
