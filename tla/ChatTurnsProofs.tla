--------------------------- MODULE ChatTurnsProofs ---------------------------
(***************************************************************************)
(* Proofs about the turns of a chat, for any number of threads and of      *)
(* messages sent: types, that a turn which was cut says nothing, that an   *)
(* answer stays in its thread and with its question, and that no step      *)
(* loses what a turn has said.                                             *)
(***************************************************************************)
EXTENDS ChatTurns, SequenceTheorems, TLAPS

(* The invariants *)

Begun == {"gathering", "writing", "grounding", "stuck"}

\* A thread's turn is of that thread, under way, and was not cut.
RunsSound ==
  \A t \in Threads : run[t] # 0 =>
    /\ home[run[t]] = t
    /\ phase[run[t]] \in Begun
    /\ run[t] \notin cut

\* Only what got as far as a turn is cut; only an ask is replied to directly.
CutsSound ==
  /\ \A i \in cut : phase[i] \notin {"unsent", "planning", "replying"}
  /\ \A i \in Submissions : phase[i] = "replying" => i \in direct

\* Message m is in view, in the store, or in the history of a turn.
Somewhere(m) ==
  \/ m \in ToSet(chat)
  \/ \E t \in Threads : m \in ToSet(store[t])
  \/ \E j \in Submissions : m \in ToSet(hist[j])

\* Nothing is said of a submission before it is sent, and it is not answered
\* while it is not over, nor when it was cut.
SaidInTurn ==
  \A i \in Submissions :
    /\ phase[i] = "unsent" => \A m \in Messages : m.of = i => ~Somewhere(m)
    /\ phase[i] # "ended" \/ i \in cut => ~Somewhere(Answer(i))

\* The history h has only messages of thread t, and their questions, when ds
\* were answered without a turn and at tells the threads of submissions.
Sound(h, t, ds, at) ==
  \A m \in ToSet(h) : m.of \notin ds =>
    /\ at[m.of] = t
    /\ m.role = "assistant" => \E q \in ToSet(h) : q.of = m.of /\ q.role = "user"

Asked(h, i) == \E q \in ToSet(h) : q.of = i /\ q.role = "user"

Placed ==
  /\ Sound(chat, active, direct, home)
  /\ \A t \in Threads : Sound(store[t], t, direct, home)
  /\ \A i \in Submissions :
       /\ Sound(hist[i], home[i], direct, home)
       /\ phase[i] = "unsent" => hist[i] = <<>>
       /\ phase[i] \in Begun => Asked(hist[i], i)
       /\ run[active] = i => Asked(chat, i)

\* What turns have said in h is also said in g, when ds were answered without one.
Within(h, g, ds) ==
  \A m \in ToSet(h) : m.of \notin ds =>
    \E n \in ToSet(g) : n.of = m.of /\ n.role = m.role

\* The view agrees with the history of the turn that is running in it, and the
\* store has that of each turn, where no turn that does not run has overwritten it.
Mirrored ==
  \A t \in Threads : run[t] # 0 =>
    /\ t = active => /\ Within(chat, hist[run[t]], direct)
                     /\ Within(hist[run[t]], chat, direct)
    /\ t \notin spoiled => Within(hist[run[t]], store[t], direct)

ChatInv == TypeOK /\ RunsSound /\ CutsSound /\ SaidInTurn /\ Placed /\ Mirrored

-----------------------------------------------------------------------------
(* Histories *)

LEMMA EmptySays == ToSet(<<>>) = {}
BY DEF ToSet

LEMMA SaysMessages == \A h \in Seq(Messages) : ToSet(h) \subseteq Messages
<1> TAKE h \in Seq(Messages)
<1>1. \A k \in DOMAIN h : h[k] \in Messages
  OBVIOUS
<1> QED
  BY <1>1 DEF ToSet

LEMMA AppendSays ==
  ASSUME NEW h \in Seq(Messages), NEW m \in Messages
  PROVE  /\ Append(h, m) \in Seq(Messages)
         /\ ToSet(Append(h, m)) = ToSet(h) \cup {m}
<1> DEFINE a == Append(h, m)
<1>1. a \in Seq(Messages) /\ Len(a) = Len(h) + 1 /\ a[Len(h) + 1] = m
  OBVIOUS
<1>2. \A k \in 1 .. Len(h) : a[k] = h[k]
  OBVIOUS
<1>3. DOMAIN h = 1 .. Len(h) /\ DOMAIN a = 1 .. (Len(h) + 1) /\ Len(h) \in Nat
  BY <1>1
<1>4. DOMAIN a = DOMAIN h \cup {Len(h) + 1}
  BY <1>3
<1> HIDE DEF a
<1>5. {a[k] : k \in DOMAIN a} = {h[k] : k \in DOMAIN h} \cup {m}
  BY <1>1, <1>2, <1>3, <1>4
<1> QED
  BY <1>1, <1>5 DEF ToSet, a

\* Marking a question changes neither who said what nor an answer.
LEMMA MarkLastSays ==
  ASSUME NEW h \in Seq(Messages)
  PROVE  /\ MarkLast(h) \in Seq(Messages)
         /\ \A m \in ToSet(MarkLast(h)) : \E n \in ToSet(h) :
              n.of = m.of /\ n.role = m.role /\ (m.role = "assistant" => m = n)
         /\ \A n \in ToSet(h) : \E m \in ToSet(MarkLast(h)) :
              m.of = n.of /\ m.role = n.role
<1>1. CASE ~(h # <<>> /\ Last(h).role = "user")
  BY <1>1 DEF MarkLast
<1>2. CASE h # <<>> /\ Last(h).role = "user"
  <2> DEFINE k == Len(h)
             new == [h[k] EXCEPT !.cancelled = TRUE]
             g == [h EXCEPT ![k] = new]
  <2>1. k \in Nat /\ k \in DOMAIN h /\ DOMAIN h = 1 .. k
    BY <1>2, EmptySeq
  <2>2. h[k] \in Messages /\ h[k].role = "user"
    BY <1>2, <2>1 DEF Last
  <2>3. new \in Messages /\ new.of = h[k].of /\ new.role = "user"
    BY <2>2 DEF Messages
  <2>4. MarkLast(h) = g
    BY <1>2 DEF MarkLast
  <2> HIDE DEF new
  <2>5. /\ DOMAIN g = DOMAIN h
        /\ \A j \in DOMAIN h : g[j] = IF j = k THEN new ELSE h[j]
    OBVIOUS
  <2>6. g \in Seq(Messages)
    BY <2>1, <2>3
  <2> HIDE DEF g
  <2>7. \A m \in ToSet(g) : \E n \in ToSet(h) :
          n.of = m.of /\ n.role = m.role /\ (m.role = "assistant" => m = n)
    BY <2>1, <2>2, <2>3, <2>5 DEF ToSet
  <2>8. \A n \in ToSet(h) : \E m \in ToSet(g) : m.of = n.of /\ m.role = n.role
    BY <2>1, <2>2, <2>3, <2>5 DEF ToSet
  <2> QED
    BY <2>4, <2>6, <2>7, <2>8
<1> QED
  BY <1>1, <1>2

\* What is said of a submission, and by whom.
LEMMA MessageTypes ==
  ASSUME NEW i \in Submissions
  PROVE  /\ Question(i) \in Messages /\ Question(i).of = i /\ Question(i).role = "user"
         /\ Answer(i) \in Messages /\ Answer(i).of = i /\ Answer(i).role = "assistant"
         /\ Stopped(i) \in Messages /\ Stopped(i).of = i /\ Stopped(i).role = "assistant"
         /\ i # 0 /\ i \in Nat
         /\ \A j \in Submissions : Answer(i) # Question(j) /\ Answer(i) # Stopped(j)
         /\ \A j \in Submissions : Answer(i) = Answer(j) => i = j
BY ChatAssumption DEF Question, Answer, Stopped, Messages, Submissions, ChatAssumption

-----------------------------------------------------------------------------
(* Types, turns and cuts *)

LEMMA InitChat == Init => ChatInv
<1> SUFFICES ASSUME Init PROVE ChatInv
  OBVIOUS
<1>1. TypeOK
  BY EmptySeq DEF Init, TypeOK
<1>2. RunsSound /\ CutsSound /\ SaidInTurn /\ Mirrored
  BY EmptySays DEF Init, RunsSound, CutsSound, SaidInTurn, Somewhere, Mirrored
<1>3. \A i \in Submissions : run[active] # i
  BY MessageTypes DEF Init
<1>4. Placed
  BY <1>3, EmptySays DEF Init, Placed, Sound, Begun
<1> QED
  BY <1>1, <1>2, <1>4 DEF ChatInv

\* What Show and Abort leave well typed.
LEMMA ShowType ==
  ASSUME TypeOK, NEW h \in Seq(Messages), Show(h)
  PROVE  /\ chat' \in Seq(Messages) /\ store' \in [Threads -> Seq(Messages)]
         /\ spoiled' \subseteq Threads
BY DEF Show, TypeOK

LEMMA PersistType ==
  ASSUME TypeOK, NEW i \in Submissions, NEW h \in Seq(Messages), PersistTurn(i, h)
  PROVE  store' \in [Threads -> Seq(Messages)] /\ spoiled' \subseteq Threads
BY DEF PersistTurn, TypeOK

LEMMA AbortType ==
  ASSUME TypeOK, NEW t \in Threads, NEW n \in Submissions \cup {0}, Abort(t, n)
  PROVE  /\ run' \in [Threads -> Submissions \cup {0}]
         /\ cut' \subseteq Submissions /\ stale' \subseteq Submissions
BY DEF Abort, TypeOK

LEMMA ChatTypeStep == TypeOK /\ [Next]_vars => TypeOK'
<1> SUFFICES ASSUME TypeOK, [Next]_vars PROVE TypeOK'
  OBVIOUS
<1>1. ASSUME NEW i \in Submissions, Send(i) PROVE TypeOK'
  <2>1. active \in Threads /\ Abort(active, 0)
    BY <1>1 DEF Send, TypeOK
  <2> QED
    BY <1>1, <2>1, AbortType DEF Send, Await, TypeOK
<1>2. ASSUME NEW i \in Submissions, Drop(i) \/ Gathered(i) \/ Written(i) \/ GiveUp(i)
      PROVE  TypeOK'
  BY <1>2 DEF Drop, Gathered, Written, GiveUp, Await, TypeOK
<1>3. ASSUME NEW i \in Submissions, AskDirectly(i) PROVE TypeOK'
  <2>1. Append(chat, Question(i)) \in Seq(Messages) /\ Show(Append(chat, Question(i)))
    BY <1>3, MessageTypes, AppendSays DEF AskDirectly, TypeOK
  <2>2. /\ chat' \in Seq(Messages) /\ store' \in [Threads -> Seq(Messages)]
        /\ spoiled' \subseteq Threads
    BY <2>1, ShowType
  <2> QED
    BY <1>3, <2>2 DEF AskDirectly, Await, TypeOK
<1>4. ASSUME NEW i \in Submissions, Reply(i) PROVE TypeOK'
  <2>1. Append(chat, Answer(i)) \in Seq(Messages)
    BY MessageTypes, AppendSays DEF TypeOK
  <2>2. /\ chat' \in Seq(Messages) /\ store' \in [Threads -> Seq(Messages)]
        /\ spoiled' \subseteq Threads
    BY <1>4, <2>1, ShowType DEF Reply, TypeOK
  <2> QED
    BY <1>4, <2>2 DEF Reply, Await, TypeOK
<1>5. ASSUME NEW i \in Submissions, Begin(i) PROVE TypeOK'
  <2>1. /\ Append(chat, Question(i)) \in Seq(Messages) /\ Show(Append(chat, Question(i)))
        /\ active \in Threads /\ Abort(active, i)
    BY <1>5, MessageTypes, AppendSays DEF Begin, TypeOK
  <2>2. /\ chat' \in Seq(Messages) /\ store' \in [Threads -> Seq(Messages)]
        /\ spoiled' \subseteq Threads
    BY <2>1, ShowType
  <2>3. /\ run' \in [Threads -> Submissions \cup {0}]
        /\ cut' \subseteq Submissions /\ stale' \subseteq Submissions
    BY <2>1, AbortType
  <2>4. hist' \in [Submissions -> Seq(Messages)]
    BY <1>5, <2>1 DEF Begin, TurnHistory, TypeOK
  <2> QED
    BY <1>5, <2>2, <2>3, <2>4 DEF Begin, Await, TypeOK
<1>6. ASSUME NEW i \in Submissions, Fail(i) \/ StoreUsage(i) PROVE TypeOK'
  <2>1. hist[i] \in Seq(Messages)
    BY DEF TypeOK
  <2>2. store' \in [Threads -> Seq(Messages)] /\ spoiled' \subseteq Threads
    BY <1>6, <2>1, PersistType DEF Fail, StoreUsage, TypeOK
  <2> QED
    BY <1>6, <2>2 DEF Fail, StoreUsage, Await, TypeOK
<1>7. ASSUME NEW i \in Submissions, Finish(i) PROVE TypeOK'
  <2>1. Append(chat, Answer(i)) \in Seq(Messages) /\ Append(hist[i], Answer(i)) \in Seq(Messages)
    BY MessageTypes, AppendSays DEF TypeOK
  <2>2. /\ chat' \in Seq(Messages) /\ store' \in [Threads -> Seq(Messages)]
        /\ spoiled' \subseteq Threads
    BY <1>7, <2>1, ShowType, PersistType DEF Finish, Publish, TypeOK
  <2>3. hist' \in [Submissions -> Seq(Messages)]
    BY <1>7, <2>1 DEF Finish, TypeOK
  <2> QED
    BY <1>7, <2>2, <2>3 DEF Finish, Await, TypeOK
<1>8. ASSUME NEW i \in Submissions, StaleFinish(i) PROVE TypeOK'
  <2>1. hist[i] \in Seq(Messages) /\ chat \in Seq(Messages)
    BY DEF TypeOK
  <2>2. store' \in [Threads -> Seq(Messages)] /\ spoiled' \subseteq Threads
    BY <1>8, <2>1, ShowType, PersistType DEF StaleFinish, TypeOK
  <2> QED
    BY <1>8, <2>2 DEF StaleFinish, Await, TypeOK
<1>9. ASSUME Stop PROVE TypeOK'
  <2>1. active \in Threads /\ Abort(active, 0)
    BY <1>9 DEF Stop, TypeOK
  <2>2. CASE run[active] # 0
    <3>1. run[active] \in Submissions
      BY <2>1, <2>2 DEF TypeOK
    <3>2. Append(MarkLast(hist[run[active]]), Stopped(run[active])) \in Seq(Messages)
      BY <3>1, MessageTypes, MarkLastSays, AppendSays DEF TypeOK
    <3>3. /\ chat' \in Seq(Messages) /\ store' \in [Threads -> Seq(Messages)]
          /\ spoiled' \subseteq Threads
      BY <1>9, <2>2, <3>2, ShowType DEF Stop
    <3> QED
      BY <1>9, <2>1, <3>3, AbortType DEF Stop, TypeOK
  <2>3. CASE run[active] = 0
    BY <1>9, <2>1, <2>3, AbortType DEF Stop, TypeOK
  <2> QED
    BY <2>2, <2>3
<1>10. ASSUME NEW t \in Threads, Switch(t) PROVE TypeOK'
  <2>1. chat' \in Seq(Messages)
    BY <1>10 DEF Switch, TypeOK
  <2> QED
    BY <1>10, <2>1 DEF Switch, RunsAfterSwitch, TypeOK
<1>11. ASSUME Clear PROVE TypeOK'
  <2>1. active \in Threads /\ Abort(active, 0) /\ <<>> \in Seq(Messages) /\ Show(<<>>)
    BY <1>11, EmptySeq DEF Clear, TypeOK
  <2>2. /\ chat' \in Seq(Messages) /\ store' \in [Threads -> Seq(Messages)]
        /\ spoiled' \subseteq Threads
    BY <2>1, ShowType
  <2> QED
    BY <1>11, <2>1, <2>2, AbortType DEF Clear, TypeOK
<1>12. CASE UNCHANGED vars
  BY <1>12 DEF vars, TypeOK
<1> QED
  BY <1>1, <1>2, <1>3, <1>4, <1>5, <1>6, <1>7, <1>8, <1>9, <1>10, <1>11, <1>12
  DEF Next, Continue

\* The declared types hold for any number of threads and messages.
THEOREM ChatTypes == Spec => []TypeOK
<1>1. Init => TypeOK
  BY InitChat DEF ChatInv
<1> QED
  BY <1>1, ChatTypeStep, PTL DEF Spec

\* The types but those of the histories.
LEMMA PlainTypes ==
  ASSUME TypeOK
  PROVE  /\ active \in Threads /\ 0 \notin Submissions
         /\ run \in [Threads -> Submissions \cup {0}]
         /\ home \in [Submissions -> Threads]
         /\ phase \in [Submissions -> {"unsent", "planning", "replying", "gathering",
                                       "writing", "grounding", "ended", "stuck", "failed"}]
         /\ cut \subseteq Submissions /\ direct \subseteq Submissions
BY MessageTypes DEF TypeOK

\* What storing the view, or a turn, leaves of the other threads.
LEMMA ShowStores ==
  ASSUME TypeOK, NEW h, Show(h)
  PROVE  /\ chat' = h
         /\ \A t \in Threads : store'[t] = IF t = active THEN h ELSE store[t]
         /\ \A t \in Threads : t \notin spoiled' => t \notin spoiled \/ t = active
BY DEF Show, TypeOK

LEMMA PersistStores ==
  ASSUME TypeOK, NEW i \in Submissions, NEW h, PersistTurn(i, h)
  PROVE  /\ \A t \in Threads : store'[t] = IF t = home[i] THEN h ELSE store[t]
         /\ \A t \in Threads : t # home[i] /\ t \notin spoiled' => t \notin spoiled
         /\ ~Active(i) => /\ \A t \in Threads : (t \notin spoiled' => t \notin spoiled)
                          /\ home[i] \in spoiled' \/ store' = store
BY DEF PersistTurn, TypeOK

\* Aborting the turn in view takes a turn out of its thread and cuts it.
LEMMA AbortCuts ==
  ASSUME TypeOK, RunsSound, NEW n \in Submissions \cup {0}, Abort(active, n)
  PROVE  /\ \A t \in Threads : run'[t] = IF t = active THEN n ELSE run[t]
         /\ cut' = cut \cup ({run[active]} \ {0})
         /\ \A t \in Threads : t # active /\ run[t] # 0 => run[t] # run[active]
         /\ \A i \in Submissions : run[active] = i => phase[i] \in Begun
BY PlainTypes DEF Abort, RunsSound

LEMMA RunsStep ==
  ASSUME TypeOK, RunsSound, CutsSound, [Next]_vars
  PROVE  RunsSound' /\ CutsSound'
<1> USE PlainTypes
<1>f. ASSUME run' = run, cut' = cut, phase' = phase, home' = home, direct' = direct
      PROVE  RunsSound' /\ CutsSound'
  BY <1>f DEF RunsSound, CutsSound
<1>1. ASSUME NEW i \in Submissions, Send(i) PROVE RunsSound' /\ CutsSound'
  <2>1. phase[i] = "unsent" /\ \A j \in Submissions :
           /\ phase'[j] = IF j = i THEN "planning" ELSE phase[j]
           /\ home'[j] = IF j = i THEN active ELSE home[j]
    BY <1>1 DEF Send, Await
  <2>2. Abort(active, 0) /\ direct' = direct
    BY <1>1 DEF Send
  <2>3. \A t \in Threads : run[t] # 0 => run[t] \in Submissions /\ run[t] # i
    BY <2>1 DEF RunsSound, Begun
  <2>4. RunsSound'
    BY <2>1, <2>2, <2>3, AbortCuts DEF RunsSound
  <2>5. CutsSound'
    BY <2>1, <2>2, <2>3, AbortCuts DEF CutsSound, Begun
  <2> QED
    BY <2>4, <2>5
<1>2. ASSUME NEW i \in Submissions, Drop(i) \/ AskDirectly(i) \/ Reply(i)
      PROVE  RunsSound' /\ CutsSound'
  <2>1. phase[i] \in {"planning", "replying"} /\ direct \subseteq direct'
        /\ run' = run /\ cut' = cut /\ home' = home
        /\ (phase'[i] = "replying" => i \in direct') /\ phase'[i] # "planning"
        /\ phase'[i] # "unsent"
        /\ \A j \in Submissions : j # i => phase'[j] = phase[j]
    <3>1. CASE Drop(i)
      BY <3>1 DEF Drop, Await
    <3>2. CASE AskDirectly(i)
      BY <3>2 DEF AskDirectly, Await
    <3>3. CASE Reply(i)
      BY <3>3 DEF Reply, Await
    <3> QED
      BY <1>2, <3>1, <3>2, <3>3
  <2>2. \A t \in Threads : run[t] # 0 => run[t] \in Submissions /\ run[t] # i
    BY <2>1 DEF RunsSound, Begun
  <2> QED
    BY <2>1, <2>2 DEF RunsSound, CutsSound
<1>3. ASSUME NEW i \in Submissions, Begin(i) PROVE RunsSound' /\ CutsSound'
  <2>1. phase[i] = "planning" /\ home' = home /\ direct' = direct /\ active = home[i]
        /\ \A j \in Submissions : phase'[j] = IF j = i THEN "gathering" ELSE phase[j]
    BY <1>3 DEF Begin, Await, SubmissionCancelled, Viewing
  <2>2. Abort(active, i)
    BY <1>3 DEF Begin
  <2>3. \A t \in Threads : run[t] # 0 => run[t] \in Submissions /\ run[t] # i
    BY <2>1 DEF RunsSound, Begun
  <2>4. i \notin cut
    BY <2>1 DEF CutsSound
  <2>5. RunsSound'
    BY <2>1, <2>2, <2>3, <2>4, AbortCuts DEF RunsSound, Begun
  <2>6. CutsSound'
    BY <2>1, <2>2, <2>3, AbortCuts DEF CutsSound, Begun
  <2> QED
    BY <2>5, <2>6
<1>4. ASSUME NEW i \in Submissions,
             Gathered(i) \/ Written(i) \/ GiveUp(i) \/ StaleFinish(i)
      PROVE  RunsSound' /\ CutsSound'
  <2>1. phase[i] \in Begun /\ direct' = direct
        /\ run' = run /\ cut' = cut /\ home' = home
        /\ phase'[i] \in Begun \cup {"ended"}
        /\ (phase'[i] = "ended" => ~Active(i))
        /\ \A j \in Submissions : j # i => phase'[j] = phase[j]
    BY <1>4 DEF Gathered, Written, GiveUp, StaleFinish, MayFinish, Await, Begun
  <2>2. \A t \in Threads : run[t] = i => phase'[i] \in Begun
    BY <2>1 DEF Active, RunsSound
  <2>3. RunsSound'
    BY <2>1, <2>2 DEF RunsSound
  <2>4. CutsSound'
    BY <2>1 DEF CutsSound, Begun
  <2> QED
    BY <2>3, <2>4
<1>5. ASSUME NEW i \in Submissions, Fail(i) \/ Finish(i) PROVE RunsSound' /\ CutsSound'
  <2>1. home' = home /\ cut' = cut /\ direct' = direct /\ run[home[i]] = i
        /\ run' = [run EXCEPT ![home[i]] = 0]
        /\ phase'[i] \in {"ended", "failed"}
        /\ \A j \in Submissions : j # i => phase'[j] = phase[j]
    BY <1>5 DEF Fail, Finish, Active, MayFinish, Await
  <2>2. home[i] \in Threads /\ \A t \in Threads : run'[t] = IF t = home[i] THEN 0 ELSE run[t]
    BY <2>1
  <2>3. \A t \in Threads : run'[t] # 0 => run'[t] = run[t] /\ run[t] \in Submissions /\ run[t] # i
    BY <2>1, <2>2 DEF RunsSound
  <2>4. RunsSound'
    BY <2>1, <2>3 DEF RunsSound
  <2>5. CutsSound'
    BY <2>1 DEF CutsSound
  <2> QED
    BY <2>4, <2>5
<1>6. ASSUME Stop \/ Clear PROVE RunsSound' /\ CutsSound'
  <2>1. Abort(active, 0) /\ phase' = phase /\ home' = home /\ direct' = direct
    BY <1>6 DEF Stop, Clear
  <2>2. RunsSound'
    BY <2>1, AbortCuts DEF RunsSound
  <2>3. CutsSound'
    BY <2>1, AbortCuts DEF CutsSound, Begun
  <2> QED
    BY <2>2, <2>3
<1>7. ASSUME NEW t \in Threads, Switch(t) PROVE RunsSound' /\ CutsSound'
  BY <1>7, <1>f DEF Switch, RunsAfterSwitch
<1>8. ASSUME NEW i \in Submissions, StoreUsage(i) PROVE RunsSound' /\ CutsSound'
  BY <1>8, <1>f DEF StoreUsage
<1>9. CASE UNCHANGED vars
  BY <1>9, <1>f DEF vars
<1> QED
  BY <1>1, <1>2, <1>3, <1>4, <1>5, <1>6, <1>7, <1>8, <1>9 DEF Next, Continue

-----------------------------------------------------------------------------
(* What is said *)

\* A submission is sent once and over once, and only the turn in view is cut.
LEMMA PhaseStep ==
  ASSUME TypeOK, [Next]_vars, NEW i \in Submissions
  PROVE  /\ phase'[i] = "unsent" => phase[i] = "unsent"
         /\ phase[i] = "ended" => phase'[i] = "ended"
         /\ i \in cut' => i \in cut \/ run[active] = i
<1> USE PlainTypes
<1>1. ASSUME NEW j \in Submissions, Send(j) \/ Begin(j)
      PROVE  /\ phase[j] \in {"unsent", "planning"} /\ phase'[j] \in {"planning", "gathering"}
             /\ \A k \in Submissions : k # j => phase'[k] = phase[k]
             /\ cut' = cut \cup ({run[active]} \ {0})
  BY <1>1 DEF Send, Begin, Await, Abort
<1>2. ASSUME NEW j \in Submissions, Drop(j) \/ AskDirectly(j) \/ Reply(j)
      PROVE  /\ phase[j] \in {"planning", "replying"} /\ phase'[j] \in {"replying", "ended"}
             /\ \A k \in Submissions : k # j => phase'[k] = phase[k]
             /\ cut' = cut
  BY <1>2 DEF Drop, AskDirectly, Reply, Await
<1>3. ASSUME NEW j \in Submissions, Gathered(j) \/ Written(j) \/ GiveUp(j)
      PROVE  /\ phase[j] \in Begun /\ phase'[j] # "unsent"
             /\ \A k \in Submissions : k # j => phase'[k] = phase[k]
             /\ cut' = cut
  BY <1>3 DEF Gathered, Written, GiveUp, Await, Begun
<1>4. ASSUME NEW j \in Submissions, Fail(j) \/ Finish(j) \/ StaleFinish(j)
      PROVE  /\ phase[j] \in Begun /\ phase'[j] # "unsent"
             /\ \A k \in Submissions : k # j => phase'[k] = phase[k]
             /\ cut' = cut
  BY <1>4 DEF Fail, Finish, StaleFinish, Await, Begun
<1>5. ASSUME \/ Stop \/ Clear \/ (\E t \in Threads : Switch(t))
             \/ (\E j \in Submissions : StoreUsage(j)) \/ UNCHANGED vars
      PROVE  phase' = phase /\ cut' \subseteq cut \cup {run[active]}
  BY <1>5 DEF Stop, Clear, Switch, StoreUsage, Abort, vars
<1>6. CASE \E j \in Submissions : Send(j) \/ Begin(j)
  BY <1>1, <1>6
<1>7. CASE \E j \in Submissions : Drop(j) \/ AskDirectly(j) \/ Reply(j)
  BY <1>2, <1>7
<1>8. CASE \E j \in Submissions : \/ Gathered(j) \/ Written(j) \/ GiveUp(j)
                                  \/ Fail(j) \/ Finish(j) \/ StaleFinish(j)
  BY <1>3, <1>4, <1>8 DEF Begun
<1>9. CASE \/ Stop \/ Clear \/ (\E t \in Threads : Switch(t))
           \/ (\E j \in Submissions : StoreUsage(j)) \/ UNCHANGED vars
  BY <1>5, <1>9
<1> QED
  BY <1>6, <1>7, <1>8, <1>9 DEF Next, Continue

\* What Show leaves somewhere was there, or is in what it shows.
LEMMA ShowSays ==
  ASSUME TypeOK, NEW h, Show(h), NEW m, Somewhere(m)', hist' = hist
  PROVE  Somewhere(m) \/ m \in ToSet(h)
BY PlainTypes DEF Show, Somewhere, TypeOK

\* Messages are moved about; a new one is a question asked, the answer of a
\* submission that ends with it, or what Stop says and marks.
LEMMA NewMessages ==
  ASSUME TypeOK, [Next]_vars, NEW m \in Messages, Somewhere(m)', ~Somewhere(m)
  PROVE  \/ \E i \in Submissions : (AskDirectly(i) \/ Begin(i)) /\ m = Question(i)
         \/ \E i \in Submissions : (Reply(i) \/ Finish(i)) /\ m = Answer(i)
         \/ /\ Stop /\ run[active] \in Submissions
            /\ \/ m = Stopped(run[active])
               \/ m.role # "assistant" /\ \E n \in Messages : Somewhere(n) /\ n.of = m.of
<1> USE PlainTypes
<1>h. chat \in Seq(Messages) /\ hist \in [Submissions -> Seq(Messages)]
      /\ store \in [Threads -> Seq(Messages)]
  BY DEF TypeOK
<1>1. ASSUME chat' = chat, store' = store, hist' = hist PROVE FALSE
  BY <1>1 DEF Somewhere
<1>2. ASSUME NEW i \in Submissions, AskDirectly(i) PROVE m = Question(i)
  <2>1. Show(Append(chat, Question(i))) /\ hist' = hist
    BY <1>2 DEF AskDirectly
  <2>2. ToSet(Append(chat, Question(i))) = ToSet(chat) \cup {Question(i)}
    BY <1>h, MessageTypes, AppendSays
  <2> QED
    BY <2>1, <2>2, ShowSays DEF Somewhere
<1>3. ASSUME NEW i \in Submissions, Reply(i) PROVE m = Answer(i)
  <2>1. Show(Append(chat, Answer(i))) /\ hist' = hist
    BY <1>1, <1>3 DEF Reply
  <2>2. ToSet(Append(chat, Answer(i))) = ToSet(chat) \cup {Answer(i)}
    BY <1>h, MessageTypes, AppendSays
  <2> QED
    BY <2>1, <2>2, ShowSays DEF Somewhere
<1>4. ASSUME NEW i \in Submissions, Begin(i) PROVE m = Question(i)
  <2> DEFINE g == Append(chat, Question(i))
  <2>1. chat' = g /\ store' = [store EXCEPT ![active] = g] /\ hist' = [hist EXCEPT ![i] = g]
    BY <1>4 DEF Begin, Show, TurnHistory
  <2>2. ToSet(g) = ToSet(chat) \cup {Question(i)}
    BY <1>h, MessageTypes, AppendSays
  <2> HIDE DEF g
  <2> QED
    BY <1>h, <2>1, <2>2 DEF Somewhere
<1>5. ASSUME NEW i \in Submissions, Fail(i) \/ StaleFinish(i) \/ StoreUsage(i)
      PROVE  FALSE
  <2>1. chat' = chat /\ hist' = hist
    BY <1>5 DEF Fail, StaleFinish, StoreUsage
  <2>2. \/ store' = store
        \/ store' = [store EXCEPT ![home[i]] = hist[i]]
        \/ store' = [store EXCEPT ![active] = chat]
    BY <1>5 DEF Fail, StaleFinish, StoreUsage, PersistTurn, Show
  <2> QED
    BY <1>h, <2>1, <2>2 DEF Somewhere
<1>6. ASSUME NEW i \in Submissions, Finish(i) PROVE m = Answer(i)
  <2> DEFINE g == Append(hist[i], Answer(i))
             c == Append(chat, Answer(i))
  <2>1. /\ hist' = [hist EXCEPT ![i] = g]
        /\ \/ chat' = c /\ store' = [store EXCEPT ![active] = c]
           \/ chat' = chat /\ store' = [store EXCEPT ![home[i]] = g]
    BY <1>6 DEF Finish, Publish, PersistTurn, Show
  <2>2. ToSet(g) = ToSet(hist[i]) \cup {Answer(i)} /\ ToSet(c) = ToSet(chat) \cup {Answer(i)}
    BY <1>h, MessageTypes, AppendSays
  <2> HIDE DEF g, c
  <2>3. CASE m \in ToSet(chat')
    BY <2>1, <2>2, <2>3 DEF Somewhere
  <2>4. ASSUME NEW t \in Threads, m \in ToSet(store'[t]) PROVE m = Answer(i)
    <3>1. store'[t] \in {store[t], c, g}
      BY <1>h, <2>1
    <3> QED
      BY <2>2, <2>4, <3>1 DEF Somewhere
  <2>5. ASSUME NEW j \in Submissions, m \in ToSet(hist'[j]) PROVE m = Answer(i)
    <3>1. hist'[j] \in {hist[j], g}
      BY <1>h, <2>1
    <3> QED
      BY <2>2, <2>5, <3>1 DEF Somewhere
  <2> QED
    BY <2>3, <2>4, <2>5 DEF Somewhere
<1>7. ASSUME Stop
      PROVE  /\ run[active] \in Submissions
             /\ \/ m = Stopped(run[active])
                \/ m.role # "assistant" /\ \E n \in Messages : Somewhere(n) /\ n.of = m.of
  <2> DEFINE i == run[active]
             g == MarkLast(hist[i])
  <2>1. i \in Submissions /\ Show(Append(g, Stopped(i))) /\ hist' = hist
    BY <1>1, <1>7 DEF Stop
  <2>2. /\ g \in Seq(Messages)
        /\ \A k \in ToSet(g) : \E n \in ToSet(hist[i]) :
             n.of = k.of /\ n.role = k.role /\ (k.role = "assistant" => k = n)
    BY <1>h, <2>1, MarkLastSays
  <2>3. ToSet(Append(g, Stopped(i))) = ToSet(g) \cup {Stopped(i)}
    BY <2>1, <2>2, MessageTypes, AppendSays
  <2>4. m = Stopped(i) \/ m \in ToSet(g)
    BY <2>1, <2>3, ShowSays
  <2>5. ASSUME m \in ToSet(g)
        PROVE  m.role # "assistant" /\ \E n \in Messages : Somewhere(n) /\ n.of = m.of
    <3>1. PICK n \in ToSet(hist[i]) : n.of = m.of /\ (m.role = "assistant" => m = n)
      BY <2>2, <2>5
    <3>2. n \in Messages /\ Somewhere(n)
      BY <1>h, <2>1, <3>1, SaysMessages DEF Somewhere
    <3> QED
      BY <3>1, <3>2
  <2> QED
    BY <2>1, <2>4, <2>5
<1>8. ASSUME NEW t \in Threads, Switch(t) PROVE FALSE
  <2>1. /\ hist' = hist /\ store' = [store EXCEPT ![active] = chat]
        /\ \/ chat' = store[t]
           \/ run[t] \in Submissions /\ chat' = hist[run[t]]
    BY <1>8 DEF Switch
  <2> QED
    BY <1>h, <2>1 DEF Somewhere
<1>9. ASSUME Clear PROVE FALSE
  <2>1. Show(<<>>) /\ hist' = hist
    BY <1>9 DEF Clear
  <2> QED
    BY <2>1, ShowSays, EmptySays
<1>10. ASSUME NEW i \in Submissions,
              Send(i) \/ Drop(i) \/ Gathered(i) \/ Written(i) \/ GiveUp(i)
       PROVE  FALSE
  BY <1>1, <1>10 DEF Send, Drop, Gathered, Written, GiveUp
<1>11. CASE UNCHANGED vars
  BY <1>1, <1>11 DEF vars
<1> QED
  BY <1>2, <1>3, <1>4, <1>5, <1>6, <1>7, <1>8, <1>9, <1>10, <1>11 DEF Next, Continue

LEMMA SaidStep ==
  ASSUME TypeOK, RunsSound, CutsSound, SaidInTurn, [Next]_vars
  PROVE  SaidInTurn'
<1> USE PlainTypes
<1> SUFFICES ASSUME NEW i \in Submissions
             PROVE  /\ phase'[i] = "unsent" =>
                         \A m \in Messages : m.of = i => ~Somewhere(m)'
                    /\ phase'[i] # "ended" \/ i \in cut' => ~Somewhere(Answer(i))'
  BY DEF SaidInTurn
<1>r. run[active] = i => phase[i] \in Begun /\ i \notin cut
  BY MessageTypes DEF RunsSound
<1>1. ASSUME phase'[i] = "unsent", NEW m \in Messages, m.of = i, Somewhere(m)'
      PROVE  FALSE
  <2>1. phase[i] = "unsent" /\ run[active] # i
    BY <1>1, <1>r, PhaseStep DEF Begun
  <2>2. \A n \in Messages : n.of = i => ~Somewhere(n)
    BY <2>1 DEF SaidInTurn
  <2>3. CASE \E j \in Submissions : (AskDirectly(j) \/ Begin(j)) /\ m = Question(j)
    <3>1. AskDirectly(i) \/ Begin(i)
      BY <1>1, <2>3, MessageTypes
    <3> QED
      BY <2>1, <3>1 DEF AskDirectly, Begin
  <2>4. CASE \E j \in Submissions : (Reply(j) \/ Finish(j)) /\ m = Answer(j)
    <3>1. Reply(i) \/ Finish(i)
      BY <1>1, <2>4, MessageTypes
    <3> QED
      BY <2>1, <3>1 DEF Reply, Finish
  <2>5. m # Stopped(run[active]) \/ run[active] \notin Submissions
    BY <1>1, <2>1, MessageTypes
  <2> QED
    BY <1>1, <2>2, <2>3, <2>4, <2>5, NewMessages
<1>2. ASSUME Somewhere(Answer(i))' PROVE phase'[i] = "ended" /\ i \notin cut'
  <2>1. CASE Somewhere(Answer(i))
    <3>1. phase[i] = "ended" /\ i \notin cut
      BY <2>1 DEF SaidInTurn
    <3> QED
      BY <1>r, <3>1, PhaseStep DEF Begun
  <2>2. CASE ~Somewhere(Answer(i))
    <3>1. Answer(i) \in Messages /\ Answer(i).role = "assistant"
          /\ \A j \in Submissions : Answer(i) # Question(j) /\ Answer(i) # Stopped(j)
                                    /\ (Answer(i) = Answer(j) => i = j)
      BY MessageTypes
    <3>2. Reply(i) \/ Finish(i)
      BY <1>2, <2>2, <3>1, NewMessages
    <3>3. phase'[i] = "ended" /\ cut' = cut
      BY <3>2 DEF Reply, Finish, Await
    <3>4. CASE Reply(i)
      BY <3>3, <3>4 DEF Reply, CutsSound
    <3>5. CASE Finish(i)
      <4>1. run[home[i]] = i /\ home[i] \in Threads /\ i # 0
        BY <3>5, MessageTypes DEF Finish, MayFinish, Active
      <4> QED
        BY <3>3, <4>1 DEF RunsSound
    <3> QED
      BY <3>2, <3>4, <3>5
  <2> QED
    BY <2>1, <2>2
<1> QED
  BY <1>1, <1>2

SaidInv == TypeOK /\ RunsSound /\ CutsSound /\ SaidInTurn

LEMMA SaidInvHolds == Spec => []SaidInv
<1>1. Init => SaidInv
  BY InitChat DEF ChatInv, SaidInv
<1>2. SaidInv /\ [Next]_vars => SaidInv'
  BY ChatTypeStep, RunsStep, SaidStep DEF SaidInv
<1> QED
  BY <1>1, <1>2, PTL DEF Spec

\* A turn that the user ended never answers, in whatever await it was caught
\* and whatever happens in the threads until that await is over.
THEOREM CutTurnsAreSilent == Spec => []CutIsSilent
<1>1. SaidInv => CutIsSilent
  <2> SUFFICES ASSUME SaidInv, NEW i \in cut, NEW t \in Threads
               PROVE  Answer(i) \notin Record(t)
    BY DEF CutIsSilent
  <2>1. i \in Submissions /\ ~Somewhere(Answer(i))
    BY PlainTypes DEF SaidInv, SaidInTurn
  <2>2. run[t] # 0 => run[t] \in Submissions
    BY PlainTypes DEF SaidInv
  <2> QED
    BY <2>1, <2>2 DEF Record, Somewhere
<1> QED
  BY <1>1, SaidInvHolds, PTL

-----------------------------------------------------------------------------
(* Answers at home *)

LEMMA SoundAppend ==
  ASSUME NEW h \in Seq(Messages), NEW t, NEW ds, NEW at, NEW i \in Submissions,
         Sound(h, t, ds, at), NEW m \in {Question(i), Answer(i), Stopped(i)},
         i \in ds \/ at[i] = t, i \in ds \/ Asked(h, i) \/ m = Question(i)
  PROVE  Sound(Append(h, m), t, ds, at)
<1>1. m \in Messages /\ m.of = i /\ (m.role = "assistant" => m # Question(i))
  BY MessageTypes
<1>2. ToSet(Append(h, m)) = ToSet(h) \cup {m}
  BY <1>1, AppendSays
<1> QED
  BY <1>1, <1>2 DEF Sound, Asked

LEMMA AskedAppend ==
  ASSUME NEW h \in Seq(Messages), NEW m \in Messages, NEW i \in Submissions,
         Asked(h, i) \/ m = Question(i)
  PROVE  Asked(Append(h, m), i)
BY AppendSays, MessageTypes DEF Asked

LEMMA SoundMark ==
  ASSUME NEW h \in Seq(Messages), NEW t, NEW ds, NEW at, Sound(h, t, ds, at)
  PROVE  /\ Sound(MarkLast(h), t, ds, at)
         /\ \A i \in Submissions : Asked(h, i) => Asked(MarkLast(h), i)
BY MarkLastSays DEF Sound, Asked

\* A history stays sound when more asks are answered without a turn, and when
\* submissions that it says nothing of get their thread.
LEMMA SoundMore ==
  ASSUME NEW h, NEW t, NEW ds, NEW at, Sound(h, t, ds, at), NEW ds2, NEW at2,
         ds \subseteq ds2, \A m \in ToSet(h) : at2[m.of] = at[m.of]
  PROVE  Sound(h, t, ds2, at2)
BY DEF Sound

LEMMA PlacedStep ==
  ASSUME TypeOK, RunsSound, CutsSound, SaidInTurn, Placed, [Next]_vars
  PROVE  Placed'
<1> USE PlainTypes
<1>h. chat \in Seq(Messages) /\ hist \in [Submissions -> Seq(Messages)]
      /\ store \in [Threads -> Seq(Messages)]
  BY DEF TypeOK
<1>f. ASSUME chat' = chat, store' = store, hist' = hist, home' = home, direct' = direct,
             active' = active, run'[active] \in {run[active], 0},
             \A j \in Submissions : phase'[j] \in Begun => phase[j] \in Begun,
             \A j \in Submissions : phase'[j] = "unsent" => phase[j] = "unsent"
      PROVE  Placed'
  BY <1>f DEF Placed
<1>1. ASSUME NEW i \in Submissions, Send(i) PROVE Placed'
  <2>1. /\ chat' = chat /\ store' = store /\ hist' = hist /\ direct' = direct
        /\ active' = active /\ phase[i] = "unsent" /\ Abort(active, 0)
        /\ phase' = [phase EXCEPT ![i] = "planning"] /\ home' = [home EXCEPT ![i] = active]
    BY <1>1 DEF Send, Await
  <2>2. \A m \in Messages : Somewhere(m) => home'[m.of] = home[m.of]
    BY <2>1 DEF SaidInTurn, Messages
  <2>3. \A h \in Seq(Messages), t \in Threads :
          Sound(h, t, direct, home) /\ (\A m \in ToSet(h) : Somewhere(m))
            => Sound(h, t, direct, home')
    BY <2>2, SoundMore, SaysMessages
  <2>4. Sound(chat, active, direct, home')
    BY <1>h, <2>3 DEF Placed, Somewhere
  <2>5. \A t \in Threads : Sound(store[t], t, direct, home')
    BY <1>h, <2>3 DEF Placed, Somewhere
  <2>6. \A j \in Submissions : Sound(hist[j], home'[j], direct, home')
    <3> TAKE j \in Submissions
    <3>1. CASE j = i
      BY <2>1, <3>1, EmptySays DEF Placed, Sound
    <3>2. CASE j # i
      BY <1>h, <2>1, <2>3, <3>2 DEF Placed, Somewhere
    <3> QED
      BY <3>1, <3>2
  <2>7. run'[active] = 0
    BY <2>1, AbortCuts
  <2> QED
    BY <2>1, <2>4, <2>5, <2>6, <2>7 DEF Placed, Begun
<1>2. ASSUME NEW i \in Submissions, Drop(i) \/ Gathered(i) \/ Written(i) \/ GiveUp(i)
      PROVE  Placed'
  <2>1. /\ chat' = chat /\ store' = store /\ hist' = hist /\ home' = home
        /\ direct' = direct /\ active' = active /\ run' = run
    BY <1>2 DEF Drop, Gathered, Written, GiveUp
  <2>2. /\ phase'[i] \in Begun => phase[i] \in Begun
        /\ phase'[i] # "unsent" /\ \A j \in Submissions : j # i => phase'[j] = phase[j]
    BY <1>2 DEF Drop, Gathered, Written, GiveUp, Await, Begun
  <2> QED
    BY <1>f, <2>1, <2>2
<1>3. ASSUME NEW i \in Submissions, AskDirectly(i) \/ Reply(i) PROVE Placed'
  <2>1. /\ hist' = hist /\ home' = home /\ active' = active /\ run' = run
        /\ direct' = direct \cup {i}
        /\ \A j \in Submissions : /\ phase'[j] \in Begun => phase[j] \in Begun
                                  /\ phase'[j] = "unsent" => phase[j] = "unsent"
    BY <1>3 DEF AskDirectly, Reply, Await, Begun, CutsSound
  <2>2. PICK g \in {chat, Append(chat, Question(i)), Append(chat, Answer(i))} :
          chat' = g /\ (store' = store \/ store' = [store EXCEPT ![active] = g])
    BY <1>3 DEF AskDirectly, Reply, Show
  <2>3. \A h, t : Sound(h, t, direct, home) => Sound(h, t, direct \cup {i}, home)
    BY DEF Sound
  <2>4. Sound(g, active, direct \cup {i}, home)
    <3> DEFINE ds == direct \cup {i}
    <3>1. Sound(chat, active, ds, home) /\ i \in ds
      BY <2>3 DEF Placed
    <3> HIDE DEF ds
    <3>2. /\ Sound(Append(chat, Question(i)), active, ds, home)
          /\ Sound(Append(chat, Answer(i)), active, ds, home)
      BY <1>h, <3>1, SoundAppend
    <3>3. g = chat \/ g = Append(chat, Question(i)) \/ g = Append(chat, Answer(i))
      BY <2>2
    <3>4. Sound(g, active, ds, home)
      BY <3>1, <3>2, <3>3, Zenon
    <3> QED
      BY <3>4 DEF ds
  <2>5. \A j \in Submissions : Asked(chat, j) => Asked(g, j)
    <3> TAKE j \in Submissions
    <3>1. /\ Asked(chat, j) => Asked(Append(chat, Question(i)), j)
          /\ Asked(chat, j) => Asked(Append(chat, Answer(i)), j)
      BY <1>h, MessageTypes, AskedAppend
    <3>2. g = chat \/ g = Append(chat, Question(i)) \/ g = Append(chat, Answer(i))
      BY <2>2
    <3> QED
      BY <3>1, <3>2, Zenon
  <2>6. \A t \in Threads : Sound(store'[t], t, direct \cup {i}, home)
    BY <1>h, <2>2, <2>3, <2>4 DEF Placed
  <2>7. \A j \in Submissions : Sound(hist[j], home[j], direct \cup {i}, home)
    BY <2>3 DEF Placed
  <2> QED
    BY <2>1, <2>2, <2>4, <2>5, <2>6, <2>7 DEF Placed
<1>4. ASSUME NEW i \in Submissions, Begin(i) PROVE Placed'
  <2> DEFINE g == Append(chat, Question(i))
  <2>1. /\ chat' = g /\ store' = [store EXCEPT ![active] = g] /\ hist' = [hist EXCEPT ![i] = g]
        /\ home' = home /\ active' = active /\ direct' = direct /\ home[i] = active
        /\ phase' = [phase EXCEPT ![i] = "gathering"] /\ Abort(active, i)
    BY <1>4 DEF Begin, Show, TurnHistory, Await, SubmissionCancelled, Viewing
  <2>2. Sound(g, active, direct, home)
    BY <1>h, <2>1, SoundAppend DEF Placed
  <2>3. Asked(g, i)
    BY <1>h, MessageTypes, AskedAppend
  <2>4. run'[active] = i
    BY <2>1, AbortCuts
  <2> HIDE DEF g
  <2> QED
    BY <1>h, <2>1, <2>2, <2>3, <2>4 DEF Placed
<1>5. ASSUME NEW i \in Submissions, Fail(i) \/ StaleFinish(i) \/ StoreUsage(i)
      PROVE  Placed'
  <2>1. /\ chat' = chat /\ hist' = hist /\ home' = home /\ active' = active
        /\ direct' = direct /\ run'[active] \in {run[active], 0}
        /\ phase'[i] = phase[i] \/ phase'[i] \notin Begun \cup {"unsent"}
        /\ \A j \in Submissions : j # i => phase'[j] = phase[j]
    BY <1>5 DEF Fail, StaleFinish, StoreUsage, Await, Begun
  <2>2. \/ store' = store
        \/ store' = [store EXCEPT ![home[i]] = hist[i]]
        \/ store' = [store EXCEPT ![active] = chat]
    BY <1>5 DEF Fail, StaleFinish, StoreUsage, PersistTurn, Show
  <2>3. \A t \in Threads : Sound(store'[t], t, direct, home)
    BY <1>h, <2>2 DEF Placed
  <2> QED
    BY <2>1, <2>3 DEF Placed
<1>6. ASSUME NEW i \in Submissions, Finish(i) PROVE Placed'
  <2> DEFINE g == Append(hist[i], Answer(i))
             c == Append(chat, Answer(i))
  <2>1. /\ hist' = [hist EXCEPT ![i] = g] /\ home' = home /\ active' = active
        /\ direct' = direct /\ run'[active] \in {run[active], 0}
        /\ phase[i] = "grounding" /\ run[home[i]] = i
        /\ phase'[i] \notin Begun \cup {"unsent"}
        /\ \A j \in Submissions : j # i => phase'[j] = phase[j]
    BY <1>6 DEF Finish, MayFinish, Active, Await, Begun
  <2>2. \/ chat' = c /\ store' = [store EXCEPT ![active] = c] /\ home[i] = active
        \/ chat' = chat /\ store' = [store EXCEPT ![home[i]] = g]
    BY <1>6 DEF Finish, Publish, PersistTurn, Show, Viewing
  <2>3. Sound(g, home[i], direct, home)
    BY <1>h, <2>1, SoundAppend DEF Placed, Begun
  <2>4. home[i] = active => Sound(c, active, direct, home)
    BY <1>h, <2>1, SoundAppend DEF Placed
  <2>5. \A j \in Submissions : Asked(chat, j) => Asked(c, j)
    BY <1>h, MessageTypes, AskedAppend
  <2> HIDE DEF g, c
  <2>6. \A t \in Threads : Sound(store'[t], t, direct, home)
    BY <1>h, <2>2, <2>3, <2>4 DEF Placed
  <2>7. \A j \in Submissions :
          /\ Sound(hist'[j], home[j], direct, home)
          /\ phase'[j] = "unsent" => hist'[j] = <<>>
          /\ phase'[j] \in Begun => Asked(hist'[j], j)
    BY <1>h, <2>1, <2>3 DEF Placed
  <2>8. /\ Sound(chat', active, direct, home)
        /\ \A j \in Submissions : run'[active] = j => Asked(chat', j)
    BY <2>1, <2>2, <2>4, <2>5 DEF Placed
  <2> QED
    BY <2>1, <2>6, <2>7, <2>8 DEF Placed
<1>7. ASSUME Stop PROVE Placed'
  <2>1. /\ hist' = hist /\ home' = home /\ active' = active /\ direct' = direct
        /\ phase' = phase /\ Abort(active, 0)
    BY <1>7 DEF Stop
  <2>2. run'[active] = 0
    BY <2>1, AbortCuts
  <2>3. CASE run[active] = 0
    BY <1>7, <1>f, <2>1, <2>2, <2>3 DEF Stop
  <2>4. CASE run[active] # 0
    <3> DEFINE i == run[active]
               k == MarkLast(hist[i])
               g == Append(k, Stopped(i))
    <3>1. i \in Submissions /\ home[i] = active /\ phase[i] \in Begun
      BY <2>4 DEF RunsSound
    <3>2. chat' = g /\ store' = [store EXCEPT ![active] = g]
      BY <1>7, <2>4 DEF Stop, Show
    <3>3. k \in Seq(Messages) /\ Sound(k, active, direct, home) /\ Asked(k, i)
      BY <1>h, <3>1, MarkLastSays, SoundMark DEF Placed
    <3>4. Sound(g, active, direct, home)
      BY <3>1, <3>3, SoundAppend
    <3> HIDE DEF g
    <3> QED
      BY <1>h, <2>1, <2>2, <3>2, <3>4 DEF Placed
  <2> QED
    BY <2>3, <2>4
<1>8. ASSUME NEW t \in Threads, Switch(t) PROVE Placed'
  <2>1. /\ hist' = hist /\ home' = home /\ active' = t /\ direct' = direct
        /\ phase' = phase /\ run' = run /\ store' = [store EXCEPT ![active] = chat]
        /\ chat' = IF run[t] # 0 THEN hist[run[t]] ELSE store[t]
    BY <1>8 DEF Switch, RunsAfterSwitch
  <2>2. run[t] # 0 => run[t] \in Submissions /\ home[run[t]] = t /\ phase[run[t]] \in Begun
    BY DEF RunsSound
  <2>3. Sound(chat', t, direct, home)
    BY <2>1, <2>2 DEF Placed
  <2>4. \A z \in Threads : Sound(store'[z], z, direct, home)
    BY <1>h, <2>1 DEF Placed
  <2>5. \A j \in Submissions : run[t] = j => Asked(chat', j)
    BY <2>1, <2>2 DEF Placed
  <2> QED
    BY <2>1, <2>3, <2>4, <2>5 DEF Placed
<1>9. ASSUME Clear PROVE Placed'
  <2>1. /\ hist' = hist /\ home' = home /\ active' = active /\ direct' = direct
        /\ phase' = phase /\ Abort(active, 0)
        /\ chat' = <<>> /\ store' = [store EXCEPT ![active] = <<>>]
    BY <1>9 DEF Clear, Show
  <2>2. run'[active] = 0
    BY <2>1, AbortCuts
  <2>3. Sound(<<>>, active, direct, home)
    BY EmptySays DEF Sound
  <2> QED
    BY <1>h, <2>1, <2>2, <2>3 DEF Placed
<1>10. CASE UNCHANGED vars
  BY <1>f, <1>10 DEF vars
<1> QED
  BY <1>1, <1>2, <1>3, <1>4, <1>5, <1>6, <1>7, <1>8, <1>9, <1>10 DEF Next, Continue

\* What a turn says stays in the thread it was asked in, and with its question,
\* whichever threads the user opens, clears and asks again in.
THEOREM TurnsStayAtHome == Spec => []AnswersAtHome
<1> DEFINE Inv == SaidInv /\ Placed
<1>1. Init => Inv
  BY InitChat DEF ChatInv, SaidInv
<1>2. Inv /\ [Next]_vars => Inv'
  BY ChatTypeStep, RunsStep, SaidStep, PlacedStep DEF SaidInv
<1>3. Inv => AnswersAtHome
  <2> SUFFICES ASSUME SaidInv, Placed, NEW t \in Threads PROVE
         \A m \in Record(t) : m.of \notin direct =>
           /\ home[m.of] = t
           /\ m.role = "assistant" => \E q \in Record(t) : q.of = m.of /\ q.role = "user"
    BY DEF AnswersAtHome
  <2>1. run[t] # 0 => run[t] \in Submissions /\ home[run[t]] = t
    BY PlainTypes DEF SaidInv, RunsSound
  <2>2. \/ Record(t) = ToSet(chat) /\ t = active
        \/ Record(t) = ToSet(store[t])
        \/ run[t] # 0 /\ Record(t) = ToSet(hist[run[t]])
    BY DEF Record
  <2> QED
    BY <2>1, <2>2 DEF Placed, Sound
<1> QED
  BY <1>1, <1>2, <1>3, PTL DEF Spec

-----------------------------------------------------------------------------
(* Nothing is lost *)

LEMMA WithinSelf == \A h, ds : Within(h, h, ds)
BY DEF Within

LEMMA WithinTrans ==
  \A h, g, k, ds : Within(h, g, ds) /\ Within(g, k, ds) => Within(h, k, ds)
BY DEF Within

LEMMA WithinMore ==
  \A h, g, ds, ds2 : ds \subseteq ds2 /\ Within(h, g, ds) => Within(h, g, ds2)
BY DEF Within

\* What is appended is no loss, nor a gain if it is of an ask without a turn.
LEMMA WithinAppend ==
  ASSUME NEW h \in Seq(Messages), NEW m \in Messages, NEW ds
  PROVE  /\ Within(h, Append(h, m), ds)
         /\ m.of \in ds => Within(Append(h, m), h, ds)
BY AppendSays DEF Within

LEMMA WithinMark ==
  ASSUME NEW h \in Seq(Messages), NEW ds
  PROVE  Within(h, MarkLast(h), ds)
BY MarkLastSays DEF Within

LEMMA MirroredStep ==
  ASSUME ChatInv, [Next]_vars
  PROVE  Mirrored'
<1> USE PlainTypes DEF ChatInv
<1>h. chat \in Seq(Messages) /\ hist \in [Submissions -> Seq(Messages)]
      /\ store \in [Threads -> Seq(Messages)]
  BY DEF TypeOK
<1>r. \A t \in Threads : run[t] # 0 => /\ run[t] \in Submissions /\ home[run[t]] = t
                                       /\ phase[run[t]] \in Begun
  BY DEF RunsSound
\* A step that leaves the history of the turns that go on, and their threads.
<1>f. ASSUME active' = active, direct' = direct, NEW z \in Threads,
             \A t \in Threads : t # z /\ t \notin spoiled' => t \notin spoiled,
             z # active => chat' = chat,
             \A t \in Threads : run'[t] # 0 => /\ run'[t] = run[t] /\ t # z
                                               /\ hist'[run[t]] = hist[run[t]],
             \A t \in Threads : t # z => store'[t] = store[t]
      PROVE  Mirrored'
  BY <1>f DEF Mirrored
<1>1. ASSUME NEW i \in Submissions, Send(i) PROVE Mirrored'
  <2>1. /\ Abort(active, 0) /\ active' = active /\ direct' = direct /\ spoiled' = spoiled
        /\ chat' = chat /\ hist' = hist /\ store' = store
    BY <1>1 DEF Send
  <2> QED
    BY <1>f, <2>1, AbortCuts
<1>2. ASSUME NEW i \in Submissions, Drop(i) \/ Gathered(i) \/ Written(i) \/ GiveUp(i)
      PROVE  Mirrored'
  BY <1>2 DEF Drop, Gathered, Written, GiveUp, Mirrored
<1>3. ASSUME NEW i \in Submissions, AskDirectly(i) \/ Reply(i) PROVE Mirrored'
  <2> DEFINE ds == direct \cup {i}
             q == Append(chat, Question(i))
             a == Append(chat, Answer(i))
  <2>1. /\ hist' = hist /\ active' = active /\ run' = run
        /\ direct' = ds
    BY <1>3 DEF AskDirectly, Reply, CutsSound
  <2>2. \/ UNCHANGED <<chat, store, spoiled>>
        \/ chat' = q /\ Show(q)
        \/ chat' = a /\ Show(a)
    BY <1>3 DEF AskDirectly, Reply, Show
  <2>3. /\ Within(chat, q, ds) /\ Within(q, chat, ds)
        /\ Within(chat, a, ds) /\ Within(a, chat, ds)
    BY <1>h, MessageTypes, WithinAppend
  <2>4. \A h, g : Within(h, g, direct) => Within(h, g, ds)
    BY WithinMore
  <2> HIDE DEF ds, q, a
  <2>5. Within(chat, chat', ds) /\ Within(chat', chat, ds)
    BY <2>2, <2>3, WithinSelf
  <2>6. \A t \in Threads : run[t] # 0 => Within(hist[run[t]], store[t], ds) \/ t \in spoiled
    BY <2>4 DEF Mirrored
  <2>7. run[active] # 0 => /\ Within(chat', hist[run[active]], ds)
                           /\ Within(hist[run[active]], chat', ds)
    BY <2>4, <2>5, WithinTrans DEF Mirrored
  <2>8. \A t \in Threads :
          \/ store'[t] = store[t] /\ (t \notin spoiled' => t \notin spoiled)
          \/ t = active /\ store'[t] = chat'
    <3>1. CASE UNCHANGED <<chat, store, spoiled>>
      BY <3>1
    <3>2. CASE Show(q) \/ Show(a)
      BY <3>2, ShowStores
    <3> QED
      BY <2>2, <3>1, <3>2
  <2> QED
    BY <2>1, <2>6, <2>7, <2>8 DEF Mirrored
<1>4. ASSUME NEW i \in Submissions, Begin(i) PROVE Mirrored'
  <2> DEFINE g == Append(chat, Question(i))
  <2>1. /\ Show(g) /\ hist' = [hist EXCEPT ![i] = g]
        /\ active' = active /\ direct' = direct
        /\ phase[i] = "planning" /\ Abort(active, i)
    BY <1>4 DEF Begin, TurnHistory
  <2> HIDE DEF g
  <2>2. \A t \in Threads : run'[t] = IF t = active THEN i ELSE run[t]
    BY <2>1, AbortCuts
  <2>3. \A t \in Threads : run[t] # 0 => run[t] # i
    BY <1>r, <2>1 DEF Begun
  <2>4. /\ hist'[i] = g /\ store'[active] = g /\ chat' = g
        /\ \A t \in Threads : t # active => /\ store'[t] = store[t]
                                           /\ (t \notin spoiled' => t \notin spoiled)
        /\ \A j \in Submissions : j # i => hist'[j] = hist[j]
    BY <1>h, <2>1, ShowStores
  <2> QED
    BY <1>r, <2>1, <2>2, <2>3, <2>4, WithinSelf DEF Mirrored
<1>5. ASSUME NEW i \in Submissions, Fail(i) \/ Finish(i) PROVE Mirrored'
  <2>1. /\ active' = active /\ direct' = direct
        /\ run[home[i]] = i /\ run' = [run EXCEPT ![home[i]] = 0]
        /\ home[i] # active => chat' = chat
        /\ \A j \in Submissions : j # i => hist'[j] = hist[j]
    <3>1. CASE Fail(i)
      BY <3>1 DEF Fail, Active
    <3>2. CASE Finish(i)
      <4>1. /\ run[home[i]] = i /\ run' = [run EXCEPT ![home[i]] = IF @ = i THEN 0 ELSE @]
            /\ hist' = [hist EXCEPT ![i] = Append(@, Answer(i))]
        BY <3>2 DEF Finish, MayFinish, Active
      <4>2. \A j \in Submissions : j # i => hist'[j] = hist[j]
        BY <1>h, <4>1
      <4>3. run' = [run EXCEPT ![home[i]] = 0]
        BY <4>1
      <4> QED
        BY <3>2, <4>1, <4>2, <4>3 DEF Finish, Publish, Viewing
    <3> QED
      BY <1>5, <3>1, <3>2
  <2>2. \A t \in Threads : t # home[i] => /\ store'[t] = store[t]
                                          /\ (t \notin spoiled' => t \notin spoiled)
    BY <1>5, ShowStores, PersistStores DEF Fail, Finish, Publish, Viewing
  <2>3. home[i] \in Threads
        /\ \A t \in Threads : run'[t] # 0 => /\ run'[t] = run[t] /\ t # home[i]
                                             /\ hist'[run[t]] = hist[run[t]]
    BY <1>r, <2>1
  <2> QED
    BY <1>f, <2>1, <2>2, <2>3
<1>6. ASSUME NEW i \in Submissions, StaleFinish(i) PROVE Mirrored'
  <2>1. /\ chat' = chat /\ hist' = hist /\ active' = active /\ direct' = direct /\ run' = run
    BY <1>6 DEF StaleFinish
  <2>2. \/ store' = store /\ spoiled' = spoiled
        \/ Show(chat)
        \/ PersistTurn(i, hist[i])
    BY <1>6 DEF StaleFinish
  <2>3. ~Active(i)
    BY <1>6 DEF StaleFinish, MayFinish
  <2>4. CASE store' = store /\ spoiled' = spoiled
    BY <2>1, <2>4 DEF Mirrored
  <2>5. CASE Show(chat)
    BY <2>1, <2>5, ShowStores DEF Mirrored
  <2>6. CASE PersistTurn(i, hist[i])
    BY <2>1, <2>3, <2>6, PersistStores DEF Mirrored
  <2> QED
    BY <2>2, <2>4, <2>5, <2>6
<1>u. ASSUME NEW i \in Submissions, StoreUsage(i) PROVE Mirrored'
  <2>1. /\ chat' = chat /\ hist' = hist /\ active' = active /\ direct' = direct /\ run' = run
        /\ PersistTurn(i, hist[i])
    BY <1>u DEF StoreUsage
  <2>2. CASE Active(i)
    <3>1. run[home[i]] = i /\ home[i] \in Threads
      BY <2>2 DEF Active
    <3> QED
      BY <2>1, <3>1, PersistStores, WithinSelf DEF Mirrored
  <2>3. CASE ~Active(i)
    BY <2>1, <2>3, PersistStores DEF Mirrored
  <2> QED
    BY <2>2, <2>3
<1>7. ASSUME Stop \/ Clear PROVE Mirrored'
  <2>1. /\ hist' = hist /\ active' = active /\ direct' = direct
        /\ Abort(active, 0)
        /\ \A t \in Threads : t # active => /\ store'[t] = store[t]
                                           /\ (t \notin spoiled' => t \notin spoiled)
    BY <1>7, ShowStores DEF Stop, Clear
  <2> QED
    BY <1>f, <2>1, AbortCuts
<1>8. ASSUME NEW t \in Threads, Switch(t) PROVE Mirrored'
  <2>1. /\ hist' = hist /\ active' = t /\ direct' = direct /\ run' = run /\ t # active
        /\ spoiled' = spoiled \ {active} /\ store' = [store EXCEPT ![active] = chat]
        /\ run[t] # 0 => chat' = hist[run[t]]
    BY <1>8 DEF Switch, RunsAfterSwitch
  <2>2. /\ store'[active] = chat
        /\ \A z \in Threads : z # active => store'[z] = store[z]
    BY <1>h, <2>1
  <2> QED
    BY <2>1, <2>2, WithinSelf DEF Mirrored
<1>9. CASE UNCHANGED vars
  BY <1>9 DEF vars, Mirrored
<1> QED
  BY <1>1, <1>2, <1>3, <1>4, <1>5, <1>6, <1>u, <1>7, <1>8, <1>9 DEF Next, Continue

\* The history that Record shows of a thread.
Shown(t) == IF t = active THEN chat
            ELSE IF run[t] # 0 THEN hist[run[t]] ELSE store[t]

LEMMA LossStep ==
  ASSUME ChatInv, [Next]_vars, NEW t \in Threads, t \notin spoiled'
  PROVE  \/ Within(Shown(t), Shown(t)', direct)
         \/ t = active /\ active' = active /\ chat' = <<>>
<1> USE PlainTypes DEF ChatInv
<1>h. chat \in Seq(Messages) /\ hist \in [Submissions -> Seq(Messages)]
      /\ store \in [Threads -> Seq(Messages)]
  BY DEF TypeOK
<1>r. \A z \in Threads : run[z] # 0 => /\ run[z] \in Submissions /\ home[run[z]] = z
                                       /\ phase[run[z]] \in Begun
  BY DEF RunsSound
<1>f. ASSUME Shown(t)' = Shown(t) PROVE Within(Shown(t), Shown(t)', direct)
  BY <1>f, WithinSelf
<1>1. ASSUME NEW i \in Submissions, Send(i) PROVE Within(Shown(t), Shown(t)', direct)
  <2>1. /\ Abort(active, 0) /\ active' = active /\ chat' = chat /\ hist' = hist /\ store' = store
    BY <1>1 DEF Send
  <2> QED
    BY <1>f, <2>1, AbortCuts DEF Shown
<1>2. ASSUME NEW i \in Submissions, Drop(i) \/ Gathered(i) \/ Written(i) \/ GiveUp(i)
      PROVE  Within(Shown(t), Shown(t)', direct)
  BY <1>2, <1>f DEF Drop, Gathered, Written, GiveUp, Shown
<1>3. ASSUME NEW i \in Submissions, AskDirectly(i) \/ Reply(i)
      PROVE  Within(Shown(t), Shown(t)', direct)
  <2>1. /\ hist' = hist /\ active' = active /\ run' = run
        /\ \A z \in Threads : z # active => store'[z] = store[z]
        /\ \/ chat' = chat \/ chat' = Append(chat, Question(i))
           \/ chat' = Append(chat, Answer(i))
    BY <1>3, ShowStores DEF AskDirectly, Reply
  <2>2. /\ Within(chat, Append(chat, Question(i)), direct)
        /\ Within(chat, Append(chat, Answer(i)), direct)
    BY <1>h, MessageTypes, WithinAppend
  <2>3. Within(chat, chat', direct)
    BY <2>1, <2>2, WithinSelf
  <2> QED
    BY <1>f, <2>1, <2>3 DEF Shown
<1>4. ASSUME NEW i \in Submissions, Begin(i) PROVE Within(Shown(t), Shown(t)', direct)
  <2>1. /\ chat' = Append(chat, Question(i)) /\ store' = [store EXCEPT ![active] = chat']
        /\ hist' = [hist EXCEPT ![i] = chat'] /\ active' = active
        /\ phase[i] = "planning" /\ Abort(active, i)
    BY <1>4 DEF Begin, Show, TurnHistory
  <2>2. Within(chat, chat', direct)
    BY <1>h, <2>1, MessageTypes, WithinAppend
  <2>3. t # active => /\ run'[t] = run[t] /\ store'[t] = store[t]
                      /\ run[t] # 0 => hist'[run[t]] = hist[run[t]]
    BY <1>h, <1>r, <2>1, AbortCuts DEF Begun
  <2> QED
    BY <1>f, <2>1, <2>2, <2>3 DEF Shown
<1>5. ASSUME NEW i \in Submissions, Fail(i) PROVE Within(Shown(t), Shown(t)', direct)
  <2>1. /\ active' = active /\ chat' = chat /\ hist' = hist
        /\ run[home[i]] = i /\ run' = [run EXCEPT ![home[i]] = 0]
        /\ \/ store' = store /\ spoiled' = spoiled
           \/ store' = [store EXCEPT ![home[i]] = hist[i]]
    BY <1>5 DEF Fail, Active, PersistTurn
  <2>2. CASE t = active \/ t # home[i]
    BY <1>f, <1>h, <2>1, <2>2 DEF Shown
  <2>3. CASE t # active /\ t = home[i]
    <3>1. /\ run[t] = i /\ i # 0 /\ run'[t] = 0
          /\ \/ store'[t] = store[t] /\ t \notin spoiled
             \/ store'[t] = hist[i]
      BY <1>h, <2>1, <2>3
    <3>2. Within(hist[i], store'[t], direct)
      BY <2>1, <3>1, WithinSelf DEF Mirrored
    <3> QED
      BY <2>1, <2>3, <3>1, <3>2 DEF Shown
  <2> QED
    BY <2>2, <2>3
<1>6. ASSUME NEW i \in Submissions, Finish(i) PROVE Within(Shown(t), Shown(t)', direct)
  <2> DEFINE g == Append(hist[i], Answer(i))
             c == Append(chat, Answer(i))
  <2>1. /\ active' = active /\ hist' = [hist EXCEPT ![i] = g]
        /\ run[home[i]] = i /\ run' = [run EXCEPT ![home[i]] = 0]
        /\ \/ chat' = c /\ store' = [store EXCEPT ![active] = c] /\ home[i] = active
           \/ chat' = chat /\ store' = [store EXCEPT ![home[i]] = g]
    BY <1>6 DEF Finish, MayFinish, Active, Publish, PersistTurn, Show, Viewing
  <2>2. Within(hist[i], g, direct) /\ Within(chat, c, direct)
    BY <1>h, MessageTypes, WithinAppend
  <2> HIDE DEF g, c
  <2>3. CASE t = active
    BY <2>1, <2>2, <2>3, WithinSelf DEF Shown
  <2>4. CASE t # active /\ t = home[i]
    <3>1. Shown(t) = hist[i] /\ Shown(t)' = g
      BY <1>h, <2>1, <2>4 DEF Shown
    <3> QED
      BY <2>2, <3>1
  <2>5. CASE t # active /\ t # home[i]
    <3>1. run'[t] = run[t] /\ store'[t] = store[t]
          /\ (run[t] # 0 => hist'[run[t]] = hist[run[t]])
      BY <1>h, <1>r, <2>1, <2>5
    <3> QED
      BY <1>f, <2>1, <2>5, <3>1 DEF Shown
  <2> QED
    BY <2>3, <2>4, <2>5
<1>7. ASSUME NEW i \in Submissions, StaleFinish(i) \/ StoreUsage(i)
      PROVE  Within(Shown(t), Shown(t)', direct)
  <2>1. /\ chat' = chat /\ hist' = hist /\ active' = active /\ run' = run
        /\ store' = store \/ Show(chat) \/ PersistTurn(i, hist[i])
    BY <1>7 DEF StaleFinish, StoreUsage
  <2>2. store'[t] = store[t] \/ t = active \/ (run[t] = i /\ i # 0)
    BY <2>1, ShowStores, PersistStores DEF Active
  <2> QED
    BY <1>f, <2>1, <2>2 DEF Shown
<1>8. ASSUME Stop PROVE Within(Shown(t), Shown(t)', direct)
  <2>1. hist' = hist /\ active' = active /\ Abort(active, 0)
        /\ \A z \in Threads : z # active => store'[z] = store[z]
    BY <1>8, <1>h DEF Stop, Show
  <2>2. CASE t # active \/ run[active] = 0
    BY <1>8, <1>f, <2>1, <2>2, AbortCuts DEF Stop, Shown
  <2>3. CASE t = active /\ run[active] # 0
    <3> DEFINE i == run[active]
               k == MarkLast(hist[i])
    <3>1. i \in Submissions /\ chat' = Append(k, Stopped(i))
      BY <1>8, <1>r, <2>3 DEF Stop, Show
    <3>2. k \in Seq(Messages) /\ Within(hist[i], k, direct)
      BY <1>h, <3>1, MarkLastSays, WithinMark
    <3>3. Within(k, chat', direct)
      BY <3>1, <3>2, MessageTypes, WithinAppend
    <3>4. Within(chat, hist[i], direct)
      BY <2>3 DEF Mirrored
    <3>5. Within(chat, chat', direct)
      BY <3>2, <3>3, <3>4, WithinTrans
    <3> QED
      BY <2>1, <2>3, <3>5 DEF Shown
  <2> QED
    BY <2>2, <2>3
<1>9. ASSUME NEW z \in Threads, Switch(z) PROVE Within(Shown(t), Shown(t)', direct)
  <2>1. /\ hist' = hist /\ active' = z /\ run' = run /\ z # active
        /\ store' = [store EXCEPT ![active] = chat]
        /\ chat' = IF run[z] # 0 THEN hist[run[z]] ELSE store[z]
    BY <1>9 DEF Switch, RunsAfterSwitch
  <2>2. CASE t # active
    <3>1. store'[t] = store[t]
      BY <1>h, <2>1, <2>2
    <3> QED
      BY <1>f, <2>1, <2>2, <3>1 DEF Shown
  <2>3. CASE t = active
    <3>1. Shown(t)' = IF run[t] # 0 THEN hist[run[t]] ELSE chat
      BY <1>h, <2>1, <2>3 DEF Shown
    <3>2. run[t] # 0 => Within(chat, hist[run[t]], direct)
      BY <2>3 DEF Mirrored
    <3> QED
      BY <2>3, <3>1, <3>2, WithinSelf DEF Shown
  <2> QED
    BY <2>2, <2>3
<1>10. ASSUME Clear
       PROVE  \/ Within(Shown(t), Shown(t)', direct)
              \/ t = active /\ active' = active /\ chat' = <<>>
  <2>1. hist' = hist /\ active' = active /\ Abort(active, 0) /\ chat' = <<>>
        /\ \A z \in Threads : z # active => store'[z] = store[z]
    BY <1>10, <1>h DEF Clear, Show
  <2> QED
    BY <1>f, <2>1, AbortCuts DEF Shown
<1>11. CASE UNCHANGED vars
  BY <1>11, <1>f DEF vars, Shown
<1> QED
  BY <1>1, <1>2, <1>3, <1>4, <1>5, <1>6, <1>7, <1>8, <1>9, <1>10, <1>11 DEF Next, Continue

\* No step makes what a turn has said disappear from its thread, but clearing
\* the chat, and in a thread over which a turn that no longer runs has stored
\* its own history.
THEOREM TurnsAreKept == Spec => NothingIsLost
<1>1. ChatInv /\ [Next]_vars => ChatInv'
  BY ChatTypeStep, RunsStep, SaidStep, PlacedStep, MirroredStep DEF ChatInv
<1>2. ASSUME ChatInv, [Next]_vars
      PROVE  [\A t \in Threads \ spoiled' :
                Lost(t) # {} => t = active /\ active' = active /\ chat' = <<>>]_vars
  <2> SUFFICES ASSUME NEW t \in Threads, t \notin spoiled', NEW m \in Lost(t)
               PROVE  t = active /\ active' = active /\ chat' = <<>>
    OBVIOUS
  <2>1. Record(t) = ToSet(Shown(t)) /\ Record(t)' = ToSet(Shown(t)')
    BY DEF Record, Shown
  <2>2. /\ m \in Record(t) /\ m.of \notin direct
        /\ ~\E n \in Record(t)' : n.of = m.of /\ n.role = m.role
    BY DEF Lost
  <2>3. ~Within(Shown(t), Shown(t)', direct)
    BY <2>1, <2>2 DEF Within
  <2> QED
    BY <1>2, <2>3, LossStep
<1> QED
  BY <1>1, <1>2, InitChat, PTL DEF Spec, NothingIsLost
=============================================================================
