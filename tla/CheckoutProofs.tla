--------------------------- MODULE CheckoutProofs ---------------------------
(***************************************************************************)
(* Proofs about Checkout, for any number of overlapping success-page       *)
(* requests and any number of failed statements and crashes: what a        *)
(* request has read stays true while other requests go on, so what it      *)
(* writes, mails and acknowledges is right.                                *)
(***************************************************************************)
EXTENDS Checkout, TLAPS

(* The inductive invariant. *)

\* The payer's own organization is there from the start, with its user; the
\* one made for the session is paid and linked from its first row; and the
\* unique index allows one link.
OrgsSound ==
  /\ orgs["home"].exists <=> situation # "newcomer"
  /\ IF orgs["home"].exists
     THEN /\ orgs["home"].user /\ orgs["home"].member
          /\ orgs["home"].linked => orgs["home"].plan = "pro"
     ELSE orgs["home"] = NoOrg
  /\ \/ orgs["made"] = NoOrg
     \/ orgs["made"].exists /\ orgs["made"].linked /\ orgs["made"].plan = "pro"
  /\ ~(orgs["home"].linked /\ orgs["made"].linked)

Provisioning == {"rebill", "onOrg", "active", "user", "member", "join", "token"}

\* What a request has established by the statement it is about to issue.
RequestSound(r) ==
  /\ pc[r] \in {"ready", "existing", "free"} => org[r] = "home"
  /\ pc[r] = "plan" => org[r] = "home" /\ orgs["home"].exists
  /\ pc[r] = "bill" =>
       org[r] = "home" /\ orgs["home"].exists /\ orgs["home"].plan = "pro"
  /\ pc[r] = "make" => org[r] = "made"
  /\ pc[r] \in Provisioning \cup {"email", "finish"} => orgs[org[r]].linked
  /\ pc[r] = "member" => org[r] = "made"
  /\ pc[r] = "token" => orgs[org[r]].member
  /\ pc[r] \in {"email", "finish"} => orgs[org[r]].user \/ orgs[org[r]].member

Inviting == {r \in Requests : pc[r] \in {"member", "token"}}

\* One request gets to invite, because one gets to create the payer's user.
InvitesSound ==
  /\ Inviting # {} \/ invites > 0 => orgs["made"].user
  /\ Inviting # {} => invites = 0
  /\ invites <= 1
  /\ \A r, q \in Inviting : r = q

CheckoutInv ==
  /\ TypeOK /\ OrgsSound
  /\ \A r \in Requests : RequestSound(r)
  /\ InvitesSound
  /\ AckedIsServed /\ MailedIsLinked

-----------------------------------------------------------------------------
(* Types and tables *)

OrgRow == [exists : BOOLEAN, plan : {"free", "pro"}, linked : BOOLEAN,
           user : BOOLEAN, member : BOOLEAN]
Pcs == {"idle", "email", "finish"} \cup Reading \cup Writing

\* What one organization's row says, a later row says as well.
Grows(a, b) ==
  /\ a.exists => b.exists
  /\ a.linked => b.linked
  /\ a.user => b.user
  /\ a.member => b.member
  /\ a.plan = "pro" => b.plan = "pro"

OrgsGrow == \A o \in OrgIds : Grows(orgs[o], orgs'[o])

\* The writes of the statements.
LEMMA RowWrites ==
  ASSUME NEW a \in OrgRow
  PROVE  /\ [a EXCEPT !.plan = "pro"] \in OrgRow
         /\ [a EXCEPT !.linked = TRUE] \in OrgRow
         /\ [a EXCEPT !.user = TRUE] \in OrgRow
         /\ [a EXCEPT !.member = TRUE] \in OrgRow
         /\ Grows(a, [a EXCEPT !.plan = "pro"])
         /\ Grows(a, [a EXCEPT !.linked = TRUE])
         /\ Grows(a, [a EXCEPT !.user = TRUE])
         /\ Grows(a, [a EXCEPT !.member = TRUE])
  BY DEF OrgRow, Grows

\* A statement that is not refused leaves the tables sound and takes nothing
\* back; most of a request's later steps rest on this.
LEMMA StatementGrows ==
  ASSUME CheckoutInv, NEW r \in Requests, ~Rejected(r),
         situation' = situation, orgs' = OrgsAfter(r)
  PROVE  orgs' \in [OrgIds -> OrgRow] /\ OrgsSound' /\ OrgsGrow
<1>0. /\ orgs \in [OrgIds -> OrgRow] /\ org[r] \in OrgIds
      /\ orgs["home"] \in OrgRow /\ orgs["made"] \in OrgRow
      /\ OrgsSound /\ RequestSound(r)
  BY DEF CheckoutInv, TypeOK, OrgRow, OrgIds
<1> USE DEF Provisioning
\* One row is written, and the rest follows from what it says then.
<1>w. ASSUME NEW o \in OrgIds, NEW b \in OrgRow, orgs' = [orgs EXCEPT ![o] = b],
             Grows(orgs[o], b)
      PROVE  /\ orgs' \in [OrgIds -> OrgRow] /\ OrgsGrow
             /\ orgs'["home"] = IF o = "home" THEN b ELSE orgs["home"]
             /\ orgs'["made"] = IF o = "made" THEN b ELSE orgs["made"]
  BY <1>0, <1>w DEF OrgsGrow, OrgIds, Grows
<1>1. CASE pc[r] = "plan"
  <2> DEFINE b == [orgs["home"] EXCEPT !.plan = "pro"]
  <2>1. orgs' = [orgs EXCEPT !["home"] = b] /\ orgs["home"].exists
    BY <1>0, <1>1 DEF OrgsAfter, RequestSound, PaidPlan
  <2>2. /\ orgs' \in [OrgIds -> OrgRow] /\ OrgsGrow
        /\ orgs'["home"] = b /\ orgs'["made"] = orgs["made"]
    BY <1>0, <1>w, <2>1, RowWrites DEF OrgIds
  <2>3. b.exists /\ b.plan = "pro" /\ b.user /\ b.member
        /\ b.linked = orgs["home"].linked
    BY <1>0, <2>1 DEF OrgRow, OrgsSound
  <2> QED
    BY <1>0, <2>1, <2>2, <2>3 DEF OrgsSound, NoOrg
<1>2. CASE pc[r] = "bill"
  <2> DEFINE b == [orgs["home"] EXCEPT !.linked = TRUE]
  <2>1. /\ orgs' = [orgs EXCEPT !["home"] = b]
        /\ orgs["home"].exists /\ orgs["home"].plan = "pro" /\ org[r] = "home"
    BY <1>0, <1>2 DEF OrgsAfter, RequestSound
  <2>2. /\ orgs' \in [OrgIds -> OrgRow] /\ OrgsGrow
        /\ orgs'["home"] = b /\ orgs'["made"] = orgs["made"]
    BY <1>0, <1>w, <2>1, RowWrites DEF OrgIds
  <2>3. b.exists /\ b.plan = "pro" /\ b.user /\ b.member
    BY <1>0, <2>1 DEF OrgRow, OrgsSound
  <2>4. Linked \ {"home"} = {}
    BY <1>2, <2>1 DEF Rejected
  <2>5. ~orgs["made"].linked
    BY <2>4 DEF Linked, OrgIds
  <2> QED
    BY <1>0, <2>1, <2>2, <2>3, <2>5 DEF OrgsSound, NoOrg
<1>3. CASE pc[r] = "make" /\ Linked = {}
  <2> DEFINE b == [NoOrg EXCEPT !.exists = TRUE, !.plan = "pro", !.linked = TRUE]
  <2>1. orgs' = [orgs EXCEPT !["made"] = b]
    BY <1>3 DEF OrgsAfter, PaidPlan
  <2>2. orgs["made"] = NoOrg /\ ~orgs["home"].linked
    BY <1>0, <1>3 DEF OrgsSound, Linked, OrgIds
  <2>3. b \in OrgRow /\ b.exists /\ b.plan = "pro" /\ b.linked
    <3>1. NoOrg \in OrgRow
      BY DEF NoOrg, OrgRow
    <3> QED
      BY <3>1 DEF OrgRow
  <2>4. Grows(orgs["made"], b)
    BY <2>2, <2>3 DEF Grows, NoOrg
  <2>5. /\ orgs' \in [OrgIds -> OrgRow] /\ OrgsGrow
        /\ orgs'["made"] = b /\ orgs'["home"] = orgs["home"]
    BY <1>w, <2>1, <2>3, <2>4 DEF OrgIds
  <2> QED
    BY <1>0, <2>2, <2>3, <2>5 DEF OrgsSound, NoOrg
<1>4. CASE pc[r] \in {"user", "member", "join"}
  <2> PICK b \in OrgRow :
        /\ orgs' = [orgs EXCEPT ![org[r]] = b]
        /\ Grows(orgs[org[r]], b)
        /\ b.linked = orgs[org[r]].linked
        /\ b.plan = orgs[org[r]].plan /\ b.exists = orgs[org[r]].exists
    <3>0. orgs[org[r]] \in OrgRow
      BY <1>0
    <3>1. CASE pc[r] = "user"
      <4> DEFINE b == [orgs[org[r]] EXCEPT !.user = TRUE]
      <4>1. /\ orgs' = [orgs EXCEPT ![org[r]] = b]
            /\ b.linked = orgs[org[r]].linked
            /\ b.plan = orgs[org[r]].plan /\ b.exists = orgs[org[r]].exists
        BY <3>0, <3>1 DEF OrgsAfter, OrgRow
      <4> QED
        BY <3>0, <4>1, RowWrites
    <3>2. CASE pc[r] # "user"
      <4> DEFINE b == [orgs[org[r]] EXCEPT !.member = TRUE]
      <4>1. /\ orgs' = [orgs EXCEPT ![org[r]] = b]
            /\ b.linked = orgs[org[r]].linked
            /\ b.plan = orgs[org[r]].plan /\ b.exists = orgs[org[r]].exists
        BY <1>4, <3>0, <3>2 DEF OrgsAfter, OrgRow
      <4> QED
        BY <3>0, <4>1, RowWrites
    <3> QED
      BY <3>1, <3>2
  <2>1. orgs[org[r]].linked
    BY <1>0, <1>4 DEF RequestSound
  <2>2. /\ orgs' \in [OrgIds -> OrgRow] /\ OrgsGrow
        /\ orgs'["home"] = IF org[r] = "home" THEN b ELSE orgs["home"]
        /\ orgs'["made"] = IF org[r] = "made" THEN b ELSE orgs["made"]
    BY <1>0, <1>w
  <2>3. \A o \in OrgIds : orgs[o].linked => orgs[o].exists
    BY <1>0 DEF OrgsSound, OrgIds, NoOrg
  <2>4. OrgsSound'
    <3>1. CASE org[r] = "home"
      BY <1>0, <2>1, <2>2, <2>3, <3>1 DEF OrgsSound, OrgIds, NoOrg, Grows
    <3>2. CASE org[r] = "made"
      <4>1. orgs'["home"] = orgs["home"] /\ orgs'["made"] = b
        BY <2>2, <3>2
      <4>2. b.exists /\ b.linked /\ b.plan = "pro"
        BY <1>0, <2>1, <3>2 DEF OrgsSound, NoOrg
      <4>3. ~orgs["home"].linked
        BY <1>0, <2>1, <3>2 DEF OrgsSound
      <4> QED
        BY <1>0, <4>1, <4>2, <4>3 DEF OrgsSound, NoOrg
    <3> QED
      BY <1>0, <3>1, <3>2 DEF OrgIds
  <2> QED
    BY <2>2, <2>4
<1>5. CASE pc[r] \notin {"plan", "bill", "user", "member", "join"}
           /\ ~(pc[r] = "make" /\ Linked = {})
  <2>1. orgs' = orgs
    BY <1>5 DEF OrgsAfter
  <2> QED
    BY <1>0, <2>1 DEF OrgsSound, OrgsGrow, Grows, NoOrg
<1> QED
  BY <1>1, <1>2, <1>3, <1>4, <1>5

\* What a request has established is not undone by what others write.
LEMMA RequestStaysSound ==
  ASSUME CheckoutInv, OrgsGrow, NEW r \in Requests,
         pc'[r] = pc[r], org'[r] = org[r]
  PROVE  RequestSound(r)'
<1>1. RequestSound(r) /\ org[r] \in OrgIds /\ "home" \in OrgIds
  BY DEF CheckoutInv, TypeOK, OrgIds
<1> QED
  BY <1>1 DEF RequestSound, OrgsGrow, Grows

\* The promises to Stripe and to the payer survive too.
LEMMA PromisesStay ==
  ASSUME CheckoutInv, OrgsGrow
  PROVE  /\ acked' = acked => AckedIsServed'
         /\ mailed' = mailed => MailedIsLinked'
  BY DEF CheckoutInv, OrgsGrow, Grows, AckedIsServed, MailedIsLinked, Linked

\* A step of request r that writes no table.
LEMMA ReadingStep ==
  ASSUME CheckoutInv, NEW r \in Requests, NEW x \in Pcs \ {"member", "token"},
         NEW o \in OrgIds,
         pc' = [pc EXCEPT ![r] = x], org' = [org EXCEPT ![r] = o],
         UNCHANGED <<situation, orgs, invites>>,
         RequestSound(r)', orphaned' \in BOOLEAN, faults' \in 0 .. MaxFaults,
         acked' \in BOOLEAN, AckedIsServed', MailedIsLinked'
  PROVE  CheckoutInv'
<1>0. TypeOK /\ OrgsSound /\ InvitesSound
  BY DEF CheckoutInv
<1>1. TypeOK'
  BY <1>0 DEF TypeOK, Pcs, MailedIsLinked, Linked
<1>2. OrgsSound'
  BY <1>0 DEF OrgsSound, NoOrg
<1>3. OrgsGrow
  BY DEF OrgsGrow, Grows
<1>4. \A q \in Requests : RequestSound(q)'
  <2>1. \A q \in Requests \ {r} : pc'[q] = pc[q] /\ org'[q] = org[q]
    BY <1>0 DEF TypeOK
  <2> QED
    BY <1>3, <2>1, RequestStaysSound
<1>5. InvitesSound'
  <2>1. Inviting' \subseteq Inviting
    BY <1>0 DEF TypeOK, Inviting
  <2> QED
    BY <1>0, <2>1 DEF InvitesSound
<1> QED
  BY <1>1, <1>2, <1>4, <1>5 DEF CheckoutInv

-----------------------------------------------------------------------------
(* Initially, and step by step *)

LEMMA CheckoutInit == Init => CheckoutInv
<1> SUFFICES ASSUME Init PROVE CheckoutInv
  OBVIOUS
<1> DEFINE h == [exists |-> TRUE, linked |-> FALSE, user |-> TRUE, member |-> TRUE,
                 plan |-> IF situation = "paying" THEN "pro" ELSE "free"]
<1>1. /\ orgs["made"] = NoOrg
      /\ orgs["home"] = IF situation = "newcomer" THEN NoOrg ELSE h
      /\ orgs \in [OrgIds -> OrgRow]
  <2>1. NoOrg \in OrgRow /\ h \in OrgRow
    BY DEF OrgRow, NoOrg
  <2>2. orgs["made"] = NoOrg /\ orgs["home"] = IF situation = "newcomer" THEN NoOrg ELSE h
    BY DEF Init
  <2>3. \A a, b \in OrgRow : [made |-> a, home |-> b] \in [OrgIds -> OrgRow]
    BY DEF OrgIds
  <2> DEFINE b == IF situation = "newcomer" THEN NoOrg ELSE h
  <2>4. b \in OrgRow /\ orgs = [made |-> NoOrg, home |-> b]
    BY <2>1 DEF Init
  <2> HIDE DEF b, h
  <2> QED
    BY <2>1, <2>2, <2>3, <2>4
<1>2. TypeOK
  <2>1. orgs \in [OrgIds -> [exists : BOOLEAN, plan : {"free", "pro"},
                            linked : BOOLEAN, user : BOOLEAN, member : BOOLEAN]]
    BY <1>1 DEF OrgRow
  <2>2. 0 \in 0 .. MaxFaults
    BY CheckoutAssumption
  <2> QED
    BY <2>1, <2>2 DEF Init, TypeOK, OrgIds
<1>3. OrgsSound
  BY <1>1 DEF OrgsSound, NoOrg
<1>4. \A r \in Requests : RequestSound(r)
  BY DEF Init, RequestSound, Provisioning
<1>5. InvitesSound
  BY DEF Init, InvitesSound, Inviting
<1> QED
  BY <1>2, <1>3, <1>4, <1>5 DEF Init, CheckoutInv, AckedIsServed, MailedIsLinked

\* A request begins with the statements that suit who pays.
LEMMA FirstStatement ==
  ASSUME CheckoutInv
  PROVE  /\ First \in {"plan", "existing"}
         /\ First = "plan" => orgs["home"].exists
  BY DEF First, LinkOrder, CheckoutInv, OrgsSound

LEMMA DeliverStep == CheckoutInv /\ Deliver => CheckoutInv'
<1> SUFFICES ASSUME CheckoutInv, Deliver PROVE CheckoutInv'
  OBVIOUS
<1>1. /\ "hook" \in Requests /\ First \in Pcs \ {"member", "token"} /\ "home" \in OrgIds
      /\ pc' = [pc EXCEPT !["hook"] = First] /\ org' = [org EXCEPT !["hook"] = "home"]
      /\ UNCHANGED <<situation, orgs, invites, orphaned, faults, acked, mailed>>
  BY FirstStatement DEF Deliver, GoTo, Requests, OrgIds, Pcs, Reading, Writing
<1>2. RequestSound("hook")'
  BY <1>1, FirstStatement DEF CheckoutInv, TypeOK, RequestSound, Provisioning
<1>3. /\ orphaned' \in BOOLEAN /\ faults' \in 0 .. MaxFaults /\ acked' \in BOOLEAN
      /\ AckedIsServed' /\ MailedIsLinked'
  BY <1>1 DEF CheckoutInv, TypeOK, AckedIsServed, MailedIsLinked, Linked
<1> QED
  BY <1>1, <1>2, <1>3, ReadingStep

LEMMA AskStep ==
  ASSUME CheckoutInv, NEW r \in Requests, Ask(r) PROVE CheckoutInv'
<1>1. /\ "ready" \in Pcs \ {"member", "token"} /\ "home" \in OrgIds
      /\ pc' = [pc EXCEPT ![r] = "ready"] /\ org' = [org EXCEPT ![r] = "home"]
      /\ UNCHANGED <<situation, orgs, invites, orphaned, faults, acked, mailed>>
  BY DEF Ask, GoTo, OrgIds, Pcs, Reading
<1>2. RequestSound(r)'
  BY <1>1 DEF CheckoutInv, TypeOK, RequestSound, Provisioning
<1>3. /\ orphaned' \in BOOLEAN /\ faults' \in 0 .. MaxFaults /\ acked' \in BOOLEAN
      /\ AckedIsServed' /\ MailedIsLinked'
  BY <1>1 DEF CheckoutInv, TypeOK, AckedIsServed, MailedIsLinked, Linked
<1> QED
  BY <1>1, <1>2, <1>3, ReadingStep

\* What each query establishes for the statement it leads to.
LEMMA QueryIsSound ==
  ASSUME CheckoutInv, NEW r \in Requests, pc[r] \in Reading,
         NEW x, NEW o, Read(r) = <<x, o>>
  PROVE  /\ x \in Pcs \ {"bill", "member", "token", "finish"} /\ o \in OrgIds
         /\ x \in {"existing", "free"} => o = "home"
         /\ x = "plan" => o = "home" /\ orgs["home"].exists
         /\ x = "make" => o = "made"
         /\ x \in Provisioning \cup {"email"} => orgs[o].linked
         /\ x = "email" => orgs[o].user \/ orgs[o].member
         /\ x # "ready"
<1>0. /\ org[r] \in OrgIds /\ RequestSound(r) /\ OrgsSound
  BY DEF CheckoutInv, TypeOK
<1> USE DEF Provisioning, Pcs, Reading, Writing, OrgIds
<1>1. CASE pc[r] = "ready"
  <2>1. x \in {"idle", First} /\ o = org[r]
    BY <1>1 DEF Read
  <2> QED
    BY <1>0, <1>1, <2>1, FirstStatement DEF RequestSound
<1>2. CASE pc[r] = "existing"
  <2>1. CASE Linked # {}
    <3> DEFINE l == CHOOSE l \in OrgIds : l \in Linked
    <3>1. l \in Linked
      BY <2>1 DEF Linked
    <3>2. x = "rebill" /\ o = l
      BY <1>2, <2>1 DEF Read
    <3> QED
      BY <3>1, <3>2 DEF Linked
  <2>2. CASE Linked = {}
    <3>1. x = "free" /\ o = org[r]
      BY <1>2, <2>2 DEF Read
    <3> QED
      BY <1>0, <1>2, <3>1 DEF RequestSound
  <2> QED
    BY <2>1, <2>2
<1>3. CASE pc[r] = "free"
  <2>1. CASE \E a \in ActiveIn : orgs[a].plan = "free"
    <3>1. ActiveIn = {"home"} /\ orgs["home"].exists
      BY <1>0, <2>1 DEF ActiveIn, OrgsSound, NoOrg
    <3>2. (CHOOSE a \in OrgIds : a \in ActiveIn) = "home"
      BY <3>1
    <3>3. x = "plan" /\ o = "home"
      BY <1>3, <2>1, <3>2 DEF Read, LinkOrder
    <3> QED
      BY <3>1, <3>3
  <2>2. CASE ~ \E a \in ActiveIn : orgs[a].plan = "free"
    <3>1. x = "make" /\ o = "made"
      BY <1>3, <2>2 DEF Read
    <3> QED
      BY <3>1
  <2> QED
    BY <2>1, <2>2
<1>4. CASE pc[r] = "onOrg"
  <2>1. o = org[r] /\ x = IF orgs[o].user THEN "email" ELSE "active"
    BY <1>4 DEF Read
  <2> QED
    BY <1>0, <1>4, <2>1 DEF RequestSound
<1>5. CASE pc[r] = "active"
  <2>1. /\ o = org[r]
        /\ x = IF ActiveIn = {} THEN "user" ELSE IF o \in ActiveIn THEN "email" ELSE "join"
    BY <1>5 DEF Read
  <2>2. o \in ActiveIn => orgs[o].user
    BY DEF ActiveIn
  <2> QED
    BY <1>0, <1>5, <2>1, <2>2 DEF RequestSound
<1> QED
  BY <1>1, <1>2, <1>3, <1>4, <1>5

LEMMA LookupStep ==
  ASSUME CheckoutInv, NEW r \in Requests, Lookup(r) PROVE CheckoutInv'
<1> PICK x, o : Read(r) = <<x, o>>
  BY DEF Lookup, Read, Reading
<1>1. /\ pc[r] \in Reading
      /\ pc' = [pc EXCEPT ![r] = x] /\ org' = [org EXCEPT ![r] = o]
      /\ UNCHANGED <<situation, orgs, invites, orphaned, faults, acked, mailed>>
  BY DEF Lookup, GoTo
<1>2. RequestSound(r)'
  <2>1. pc'[r] = x /\ org'[r] = o
    BY <1>1 DEF CheckoutInv, TypeOK
  <2> QED
    BY <1>1, <2>1, QueryIsSound DEF RequestSound
<1>3. /\ orphaned' \in BOOLEAN /\ faults' \in 0 .. MaxFaults /\ acked' \in BOOLEAN
      /\ AckedIsServed' /\ MailedIsLinked'
  BY <1>1 DEF CheckoutInv, TypeOK, AckedIsServed, MailedIsLinked, Linked
<1>4. x \in Pcs \ {"member", "token"} /\ o \in OrgIds
  BY <1>1, QueryIsSound
<1> QED
  BY <1>1, <1>2, <1>3, <1>4, ReadingStep

\* A step by which a request gives up.
LEMMA IdleIsSound ==
  ASSUME CheckoutInv, NEW r \in Requests, GoTo(r, "idle")
  PROVE  RequestSound(r)'
BY DEF GoTo, CheckoutInv, TypeOK, RequestSound, Provisioning

LEMMA RejectStep ==
  ASSUME CheckoutInv, NEW r \in Requests, Reject(r) PROVE CheckoutInv'
<1>1. /\ "idle" \in Pcs \ {"member", "token"} /\ org[r] \in OrgIds
      /\ pc' = [pc EXCEPT ![r] = "idle"] /\ org' = [org EXCEPT ![r] = org[r]]
      /\ UNCHANGED <<situation, orgs, invites, orphaned, faults, acked, mailed>>
  BY DEF Reject, Drop, GoTo, Pcs, CheckoutInv, TypeOK
<1>2. RequestSound(r)'
  BY <1>1, IdleIsSound DEF GoTo
<1>3. /\ orphaned' \in BOOLEAN /\ faults' \in 0 .. MaxFaults /\ acked' \in BOOLEAN
      /\ AckedIsServed' /\ MailedIsLinked'
  BY <1>1 DEF CheckoutInv, TypeOK, AckedIsServed, MailedIsLinked, Linked
<1> QED
  BY <1>1, <1>2, <1>3, ReadingStep

LEMMA EmailStep ==
  ASSUME CheckoutInv, NEW r \in Requests, Email(r) PROVE CheckoutInv'
<1>1. /\ "finish" \in Pcs \ {"member", "token"} /\ org[r] \in OrgIds
      /\ pc[r] = "email"
      /\ pc' = [pc EXCEPT ![r] = "finish"] /\ org' = [org EXCEPT ![r] = org[r]]
      /\ UNCHANGED <<situation, orgs, invites, orphaned, faults, acked>>
      /\ mailed' \in {mailed, mailed \cup {org[r]}}
  BY DEF Email, GoTo, Pcs, CheckoutInv, TypeOK
<1>2. RequestSound(r)
  BY DEF CheckoutInv
<1>3. RequestSound(r)'
  BY <1>1, <1>2 DEF CheckoutInv, TypeOK, RequestSound, Provisioning
<1>4. org[r] \in Linked
  BY <1>1, <1>2 DEF RequestSound, Linked
<1>5. /\ orphaned' \in BOOLEAN /\ faults' \in 0 .. MaxFaults /\ acked' \in BOOLEAN
      /\ AckedIsServed' /\ MailedIsLinked'
  BY <1>1, <1>4 DEF CheckoutInv, TypeOK, AckedIsServed, MailedIsLinked, Linked
<1> QED
  BY <1>1, <1>3, <1>5, ReadingStep

\* The answer to Stripe: the organization of the request is linked and paid,
\* and the payer is in it.
LEMMA FinishStep ==
  ASSUME CheckoutInv, NEW r \in Requests, Finish(r) PROVE CheckoutInv'
<1>1. /\ "idle" \in Pcs \ {"member", "token"} /\ org[r] \in OrgIds
      /\ pc[r] = "finish"
      /\ pc' = [pc EXCEPT ![r] = "idle"] /\ org' = [org EXCEPT ![r] = org[r]]
      /\ UNCHANGED <<situation, orgs, invites, orphaned, faults, mailed>>
  BY DEF Finish, GoTo, Pcs, CheckoutInv, TypeOK
<1>2. RequestSound(r)'
  BY <1>1, IdleIsSound DEF GoTo
<1>3. orgs[org[r]].linked /\ (orgs[org[r]].user \/ orgs[org[r]].member)
  BY <1>1 DEF CheckoutInv, RequestSound
<1>4. org[r] \in Linked /\ orgs[org[r]].plan = "pro"
  BY <1>1, <1>3 DEF CheckoutInv, OrgsSound, Linked, OrgIds, NoOrg
<1>5. AckedIsServed'
  BY <1>1, <1>3, <1>4 DEF AckedIsServed, Linked
<1>6. /\ orphaned' \in BOOLEAN /\ faults' \in 0 .. MaxFaults /\ acked' \in BOOLEAN
      /\ MailedIsLinked'
  BY <1>1 DEF CheckoutInv, TypeOK, MailedIsLinked, Linked, Finish
<1> QED
  BY <1>1, <1>2, <1>5, <1>6, ReadingStep

\* The user's row is created once: it is for the organization made for the
\* session, and the unique index refuses a second.
LEMMA UserIsNew ==
  ASSUME CheckoutInv, NEW r \in Requests, pc[r] = "user", ~Rejected(r)
  PROVE  org[r] = "made" /\ ~orgs["made"].user /\ invites = 0 /\ Inviting = {}
<1>1. orgs[org[r]].linked /\ ~orgs[org[r]].user /\ org[r] \in OrgIds
  BY DEF CheckoutInv, TypeOK, RequestSound, Provisioning, Rejected
<1>2. org[r] # "home"
  BY <1>1 DEF CheckoutInv, OrgsSound, NoOrg
<1>3. invites \in Nat
  BY DEF CheckoutInv, TypeOK
<1> QED
  BY <1>1, <1>2, <1>3 DEF CheckoutInv, InvitesSound, OrgIds

LEMMA WriteStep ==
  ASSUME CheckoutInv, NEW r \in Requests, Write(r) PROVE CheckoutInv'
<1>0. /\ pc[r] \in Writing /\ ~Rejected(r) /\ orgs' = OrgsAfter(r)
      /\ pc' = [pc EXCEPT ![r] = NextStatement(pc[r])]
      /\ UNCHANGED <<situation, acked, orphaned, mailed, faults>>
      /\ invites' = IF pc[r] = "token" THEN invites + 1 ELSE invites
      /\ pc \in [Requests -> Pcs] /\ org \in [Requests -> OrgIds]
      /\ org[r] \in OrgIds /\ OrgsSound /\ RequestSound(r) /\ invites \in Nat
  BY DEF Write, GoTo, CheckoutInv, TypeOK, Pcs
<1>1. orgs' \in [OrgIds -> OrgRow] /\ OrgsSound' /\ OrgsGrow
  BY <1>0, StatementGrows
<1>n. NextStatement(pc[r]) \in Pcs
  BY <1>0 DEF NextStatement, LinkOrder, Pcs, Reading, Writing
<1>2. /\ org' \in [Requests -> OrgIds]
      /\ \A q \in Requests \ {r} : org'[q] = org[q]
      /\ org'[r] = IF pc[r] = "make" /\ Linked # {}
                   THEN CHOOSE l \in OrgIds : l \in Linked ELSE org[r]
  <2>1. Linked # {} => (CHOOSE l \in OrgIds : l \in Linked) \in OrgIds
    BY DEF Linked
  <2> QED
    BY <1>0, <2>1 DEF Write
<1>3. TypeOK'
  <2>1. pc' \in [Requests -> Pcs] /\ invites' \in Nat
    BY <1>0, <1>n
  <2> QED
    BY <1>0, <1>1, <1>2, <2>1 DEF CheckoutInv, TypeOK, Pcs, OrgRow
<1>4. pc'[r] = NextStatement(pc[r]) /\ \A q \in Requests \ {r} : pc'[q] = pc[q]
  BY <1>0
<1>5. RequestSound(r)'
  <2> USE DEF Provisioning
  <2>1. CASE pc[r] = "plan"
    <3>1. pc'[r] = "bill" /\ org'[r] = "home" /\ orgs["home"].exists
      BY <1>0, <1>2, <1>4, <2>1 DEF NextStatement, LinkOrder, RequestSound
    <3>2. orgs'["home"].exists /\ orgs'["home"].plan = "pro"
      BY <1>0, <1>1, <2>1, <3>1
         DEF OrgsAfter, PaidPlan, OrgsGrow, Grows, OrgIds, RequestSound, CheckoutInv,
             TypeOK
    <3> QED
      BY <3>1, <3>2 DEF RequestSound
  <2>2. CASE pc[r] = "bill"
    <3>1. /\ pc'[r] = "email" /\ org'[r] = "home" /\ org[r] = "home"
          /\ orgs["home"].exists
      BY <1>0, <1>2, <1>4, <2>2 DEF NextStatement, LinkOrder, RequestSound
    <3>2. orgs'["home"].linked /\ orgs'["home"].user
      BY <1>0, <1>1, <2>2, <3>1
         DEF OrgsAfter, OrgsGrow, Grows, OrgIds, OrgsSound, CheckoutInv, TypeOK
    <3> QED
      BY <3>1, <3>2 DEF RequestSound
  <2>3. CASE pc[r] = "make"
    <3>1. pc'[r] = "onOrg"
      BY <1>4, <2>3 DEF NextStatement, LinkOrder
    <3>2. CASE Linked # {}
      <4>1. org'[r] \in Linked
        BY <1>2, <2>3, <3>2 DEF Linked
      <4>2. orgs'[org'[r]].linked
        BY <1>1, <4>1 DEF Linked, OrgsGrow, Grows
      <4> QED
        BY <3>1, <4>2 DEF RequestSound
    <3>3. CASE Linked = {}
      <4> DEFINE b == [NoOrg EXCEPT !.exists = TRUE, !.plan = PaidPlan, !.linked = TRUE]
      <4>1. org'[r] = "made" /\ orgs' = [orgs EXCEPT !["made"] = b]
        BY <1>0, <1>2, <2>3, <3>3 DEF OrgsAfter, RequestSound
      <4>2. b.linked
        <5>1. NoOrg \in OrgRow
          BY DEF NoOrg, OrgRow
        <5> QED
          BY <5>1 DEF OrgRow
      <4> HIDE DEF b
      <4>3. orgs'["made"].linked
        BY <4>1, <4>2 DEF OrgIds, CheckoutInv, TypeOK
      <4> QED
        BY <3>1, <4>1, <4>3 DEF RequestSound
    <3> QED
      BY <3>2, <3>3
  <2>4. CASE pc[r] \in {"rebill", "user", "member", "join", "token"}
    <3>1. org'[r] = org[r] /\ orgs[org[r]].linked
      BY <1>0, <1>2, <2>4 DEF RequestSound
    <3>2. orgs'[org'[r]].linked
      BY <1>0, <1>1, <3>1 DEF OrgsGrow, Grows
    <3>3. CASE pc[r] = "rebill"
      BY <1>4, <3>2, <3>3 DEF NextStatement, LinkOrder, RequestSound
    <3>4. CASE pc[r] = "user"
      BY <1>0, <1>4, <3>1, <3>2, <3>4, UserIsNew
         DEF NextStatement, LinkOrder, RequestSound
    <3>5. CASE pc[r] \in {"member", "join"}
      <4>1. orgs'[org'[r]].member
        BY <1>0, <3>1, <3>5 DEF OrgsAfter, CheckoutInv, TypeOK
      <4>2. pc'[r] \in {"token", "email"}
        BY <1>4, <3>5 DEF NextStatement, LinkOrder
      <4> QED
        BY <3>2, <4>1, <4>2 DEF RequestSound
    <3>6. CASE pc[r] = "token"
      <4>1. orgs'[org'[r]].member
        BY <1>0, <1>1, <3>1, <3>6 DEF RequestSound, OrgsGrow, Grows
      <4>2. pc'[r] = "email"
        BY <1>4, <3>6 DEF NextStatement, LinkOrder
      <4> QED
        BY <3>2, <4>1, <4>2 DEF RequestSound
    <3> QED
      BY <2>4, <3>3, <3>4, <3>5, <3>6
  <2> QED
    BY <1>0, <2>1, <2>2, <2>3, <2>4 DEF Writing
<1>6. \A q \in Requests : RequestSound(q)'
  BY <1>1, <1>2, <1>4, <1>5, RequestStaysSound
<1>7. InvitesSound'
  <2>0. InvitesSound /\ (orgs["made"].user => orgs'["made"].user)
    BY <1>1 DEF CheckoutInv, OrgsGrow, Grows, OrgIds
  <2>1. CASE pc[r] = "user"
    <3>1. /\ org[r] = "made" /\ invites = 0 /\ Inviting = {} /\ invites' = 0
          /\ pc'[r] = "member"
      BY <1>0, <1>4, <2>1, UserIsNew DEF NextStatement, LinkOrder
    <3>2. orgs'["made"].user
      BY <1>0, <2>1, <3>1 DEF OrgsAfter, CheckoutInv, TypeOK
    <3>3. Inviting' = {r}
      BY <1>4, <3>1 DEF Inviting
    <3> QED
      BY <3>1, <3>2, <3>3 DEF InvitesSound
  <2>2. CASE pc[r] = "token"
    <3>1. Inviting = {r} /\ invites = 0 /\ invites' = 1 /\ pc'[r] = "email"
      BY <1>0, <1>4, <2>0, <2>2 DEF Inviting, InvitesSound, NextStatement, LinkOrder
    <3>2. Inviting' = {}
      BY <1>4, <3>1 DEF Inviting
    <3> QED
      BY <2>0, <3>1, <3>2 DEF InvitesSound
  <2>3. CASE pc[r] \notin {"user", "token"}
    <3>1. invites' = invites
      BY <1>0, <2>3
    <3>2. pc'[r] \in {"member", "token"} => pc[r] = "member"
      BY <1>0, <1>4, <2>3 DEF NextStatement, LinkOrder, Writing
    <3>3. Inviting' \subseteq Inviting
      BY <1>4, <3>2 DEF Inviting
    <3> QED
      BY <2>0, <3>1, <3>3 DEF InvitesSound
  <2> QED
    BY <2>1, <2>2, <2>3
<1> QED
  BY <1>0, <1>1, <1>3, <1>6, <1>7, PromisesStay DEF CheckoutInv

\* A statement that fails may have taken effect all the same.
LEMMA FailStep ==
  ASSUME CheckoutInv, NEW r \in Requests, StatementFails(r) PROVE CheckoutInv'
<1>0. /\ ~Rejected(r) /\ faults' = faults + 1 /\ faults < MaxFaults
      /\ pc' = [pc EXCEPT ![r] = "idle"]
      /\ UNCHANGED <<situation, org, acked, orphaned, mailed>>
      /\ \/ UNCHANGED <<orgs, invites>>
         \/ /\ orgs' = OrgsAfter(r)
            /\ invites' = IF pc[r] = "token" THEN invites + 1 ELSE invites
      /\ TypeOK /\ InvitesSound
  BY DEF StatementFails, Drop, GoTo, CheckoutInv
<1>1. orgs' \in [OrgIds -> OrgRow] /\ OrgsSound' /\ OrgsGrow
  <2>1. CASE UNCHANGED orgs
    BY <1>0, <2>1 DEF CheckoutInv, TypeOK, OrgRow, OrgsSound, OrgsGrow, Grows, NoOrg
  <2>2. CASE orgs' = OrgsAfter(r)
    BY <1>0, <2>2, StatementGrows
  <2> QED
    BY <1>0, <2>1, <2>2
<1>2. TypeOK'
  <2>1. invites' \in Nat /\ faults' \in 0 .. MaxFaults
    BY <1>0, CheckoutAssumption DEF TypeOK
  <2>2. pc' \in [Requests -> {"idle", "email", "finish"} \cup Reading \cup Writing]
    BY <1>0 DEF TypeOK
  <2> QED
    BY <1>0, <1>1, <2>1, <2>2 DEF TypeOK, OrgRow
<1>3. \A q \in Requests : RequestSound(q)'
  <2>1. \A q \in Requests \ {r} : pc'[q] = pc[q] /\ org'[q] = org[q]
    BY <1>0 DEF TypeOK
  <2> QED
    BY <1>0, <1>1, <2>1, RequestStaysSound, IdleIsSound DEF GoTo
<1>4. InvitesSound'
  <2>1. Inviting' = Inviting \ {r}
    BY <1>0 DEF TypeOK, Inviting
  <2>2. orgs["made"].user => orgs'["made"].user
    BY <1>1 DEF OrgsGrow, Grows, OrgIds
  <2>3. CASE invites' = invites
    BY <1>0, <2>1, <2>2, <2>3 DEF InvitesSound
  <2>4. CASE pc[r] = "token" /\ invites' = invites + 1
    <3>1. Inviting = {r}
      BY <1>0, <2>4 DEF InvitesSound, Inviting
    <3> QED
      BY <1>0, <2>1, <2>2, <2>4, <3>1 DEF InvitesSound
  <2> QED
    BY <1>0, <2>3, <2>4
<1> QED
  BY <1>0, <1>1, <1>2, <1>3, <1>4, PromisesStay DEF CheckoutInv

LEMMA CrashStep == CheckoutInv /\ Crash => CheckoutInv'
<1> SUFFICES ASSUME CheckoutInv, Crash PROVE CheckoutInv'
  OBVIOUS
<1>1. TypeOK'
  BY CheckoutAssumption DEF Crash, CheckoutInv, TypeOK
<1>2. \A r \in Requests : RequestSound(r)'
  BY DEF Crash, RequestSound, Provisioning
<1>3. InvitesSound'
  BY DEF Crash, CheckoutInv, InvitesSound, Inviting
<1> QED
  BY <1>1, <1>2, <1>3
     DEF Crash, CheckoutInv, OrgsSound, NoOrg, AckedIsServed, MailedIsLinked, Linked

-----------------------------------------------------------------------------
(* The theorems *)

LEMMA CheckoutInvariant == Spec => []CheckoutInv
<1>1. CheckoutInv /\ [Next]_vars => CheckoutInv'
  <2> SUFFICES ASSUME CheckoutInv, [Next]_vars PROVE CheckoutInv'
    OBVIOUS
  <2>1. CASE UNCHANGED vars
    BY <2>1 DEF vars, CheckoutInv, TypeOK, OrgsSound, NoOrg, RequestSound, Provisioning,
                InvitesSound, Inviting, AckedIsServed, MailedIsLinked, Linked
  <2> QED
    BY <2>1, DeliverStep, AskStep, LookupStep, WriteStep, RejectStep, EmailStep,
       FinishStep, FailStep, CrashStep DEF Next, Advance
<1> QED
  BY <1>1, CheckoutInit, PTL DEF Spec

\* Every variable of Checkout has its type.
THEOREM CheckoutTypes == Spec => []TypeOK
<1>1. CheckoutInv => TypeOK
  BY DEF CheckoutInv
<1> QED
  BY <1>1, CheckoutInvariant, PTL

\* An organization is linked to the customer only once it is pro, whichever
\* request links it and whichever statements fail.
THEOREM LinkedOrgIsPro == Spec => []LinkedIsPro
<1>1. CheckoutInv => LinkedIsPro
  BY DEF CheckoutInv, OrgsSound, LinkedIsPro, Linked, OrgIds, NoOrg
<1> QED
  BY <1>1, CheckoutInvariant, PTL

\* What Stripe is told is done has been done: a paid organization with the
\* payer in it.
THEOREM AckedPayerIsServed == Spec => []AckedIsServed
<1>1. CheckoutInv => AckedIsServed
  BY DEF CheckoutInv
<1> QED
  BY <1>1, CheckoutInvariant, PTL

\* However many requests find the payer missing, one of them invites.
THEOREM PayerIsInvitedOnce == Spec => []OneInvite
<1>1. CheckoutInv => OneInvite
  BY DEF CheckoutInv, InvitesSound, OneInvite
<1> QED
  BY <1>1, CheckoutInvariant, PTL

\* A mail goes out only for the organization that the customer is linked to.
THEOREM MailsAreLinked == Spec => []MailedIsLinked
<1>1. CheckoutInv => MailedIsLinked
  BY DEF CheckoutInv
<1> QED
  BY <1>1, CheckoutInvariant, PTL
=============================================================================
