------------------------------ MODULE ChatTurns ------------------------------
(***************************************************************************)
(* The chat of one editor window: submissions, the turns they begin, Stop, *)
(* and the threads the user moves between while turns run on.              *)
(*                                                                         *)
(* Code: ThreadRunManager of src/src/chat/chatTurn.ts, and of              *)
(* CoopChatSession.ts what sends, stops, finishes, stores and shows.       *)
(* JavaScript runs one callback at a time: an action is what happens       *)
(* between two awaits.  A thread without messages stands for a new chat.   *)
(* Not here: attachments, artifacts, what a turn costs (but that it is     *)
(* stored), jobs, the synchronization with the backend, another account    *)
(* signing in, and closing the window.                                     *)
(***************************************************************************)
EXTENDS Naturals, SequencesExt

CONSTANTS
  Threads,  \* chat threads
  MaxSends  \* bound: how many messages the user sends

ASSUME ChatAssumption == MaxSends \in Nat

Submissions == 1 .. MaxSends

VARIABLES
  active,  \* the thread in view
  chat,    \* chatHistory: the messages in view
  store,   \* per thread, its messages in the ChatThreadStore
  run,     \* ThreadRunManager.runs: the turn of each thread, 0 for none
  phase,   \* per submission, what it awaits
  home,    \* per submission, the thread it was sent in
  stale,   \* submissions with a cancellation generation that has passed
  hist,    \* per submission, the history of its turn
  direct,  \* submissions answered without a turn
  cut,     \* turns the user ended: by Stop, by sending again, by clearing
  spoiled  \* threads in whose store a turn that no longer runs has put its own
           \* history, until the view or a turn that runs is stored in it again

vars == <<active, chat, store, run, phase, home, stale, hist, direct, cut,
          spoiled>>

Question(i) == [of |-> i, role |-> "user", cancelled |-> FALSE]
Answer(i)   == [of |-> i, role |-> "assistant", cancelled |-> FALSE]
Stopped(i)  == [of |-> i, role |-> "assistant", cancelled |-> TRUE]

\* isStreamActive.
Active(i) == run[home[i]] = i

Viewing(i) == active = home[i]

Await(i, p) == phase' = [phase EXCEPT ![i] = p]

\* abort: the turn of the thread is taken out, and submissions that are still
\* being planned in it belong to a passed generation.
Abort(t, next) ==
  /\ run' = [run EXCEPT ![t] = next]
  /\ cut' = cut \cup ({run[t]} \ {0})
  /\ stale' = stale \cup
       {i \in Submissions : phase[i] = "planning" /\ home[i] = t}

\* persistActiveThread after the view became h.
Show(h) == /\ chat' = h
           /\ store' = [store EXCEPT ![active] = h]
           /\ spoiled' = spoiled \ {active}

\* persistTurnThread when the history of the turn is h: nobody asks there
\* whether the turn still runs.
PersistTurn(i, h) ==
  /\ store' = [store EXCEPT ![home[i]] = h]
  /\ spoiled' = IF Active(i) THEN spoiled \ {home[i]}
                ELSE IF store' = store THEN spoiled ELSE spoiled \cup {home[i]}

----------------------------------------------------------------------------
(* Sending *)

\* handleChatSend, up to its first await.
Send(i) ==
  /\ phase[i] = "unsent" /\ \A j \in 1 .. i - 1 : phase[j] # "unsent"
  /\ Await(i, "planning")
  /\ home' = [home EXCEPT ![i] = active]
  /\ Abort(active, 0)
  /\ UNCHANGED <<active, chat, store, hist, direct, spoiled>>

\* submissionCancelled.
SubmissionCancelled(i) == i \in stale \/ ~Viewing(i)

\* A submission that was overtaken, blocked or failed is dropped.
Drop(i) ==
  /\ phase[i] = "planning"
  /\ Await(i, "ended")
  /\ UNCHANGED <<active, chat, store, run, home, stale, hist, direct, cut,
                 spoiled>>

\* handleCreatePrChatAsk and completeMissingIntentClarification, first half.
AskDirectly(i) ==
  /\ phase[i] = "planning" /\ ~SubmissionCancelled(i)
  /\ Await(i, "replying")
  /\ direct' = direct \cup {i}
  /\ Show(Append(chat, Question(i)))
  /\ UNCHANGED <<active, run, home, stale, hist, cut>>

\* Their second half: whatever thread is in view by then, or with no reply.
Reply(i) ==
  /\ phase[i] = "replying"
  /\ Await(i, "ended")
  /\ Show(Append(chat, Answer(i))) \/ UNCHANGED <<chat, store, spoiled>>
  /\ UNCHANGED <<active, run, home, stale, hist, direct, cut>>

\* Mutant of TurnHistory: taken before the question is in it.
TurnHistoryTooEarly(i) == chat

\* The history a turn begins with.
TurnHistory(i) == Append(chat, Question(i))

\* The question is shown and stored, then ThreadRunManager.begin.
Begin(i) ==
  /\ phase[i] = "planning" /\ ~SubmissionCancelled(i)
  /\ Await(i, "gathering")
  /\ Show(Append(chat, Question(i)))
  /\ hist' = [hist EXCEPT ![i] = TurnHistory(i)]
  /\ Abort(active, i)
  /\ UNCHANGED <<active, home, direct>>

----------------------------------------------------------------------------
(* A turn *)

\* The context is there: a turn that is still registered goes on.
Gathered(i) ==
  /\ phase[i] = "gathering"
  /\ Await(i, IF Active(i) THEN "writing" ELSE "ended")
  /\ UNCHANGED <<active, chat, store, run, home, stale, hist, direct, cut,
                 spoiled>>

\* The model has answered: finishTurnAssistantMessage grounds the citations.
Written(i) ==
  /\ phase[i] = "writing"
  /\ Await(i, IF Active(i) THEN "grounding" ELSE "ended")
  /\ UNCHANGED <<active, chat, store, run, home, stale, hist, direct, cut,
                 spoiled>>

\* An error while gathering, or an exhausted quota: the turn stays registered.
GiveUp(i) ==
  /\ phase[i] \in {"gathering", "writing"} /\ Active(i)
  /\ Await(i, "stuck")
  /\ UNCHANGED <<active, chat, store, run, home, stale, hist, direct, cut,
                 spoiled>>

\* markError after an error while writing; a misquoting answer is refused
\* after the turn's history is stored.
Fail(i) ==
  /\ phase[i] = "writing" /\ Active(i)
  /\ Await(i, "failed")
  /\ run' = [run EXCEPT ![home[i]] = 0]
  /\ PersistTurn(i, hist[i]) \/ UNCHANGED <<store, spoiled>>
  /\ UNCHANGED <<active, chat, home, stale, hist, direct, cut>>

\* Mutant of MayFinish: not asked again after the await.
MayFinishUnasked(i) == TRUE

MayFinish(i) == Active(i)

\* Mutant of Publish: into the view, whatever it shows.
PublishInView(i, h) == Show(Append(chat, Answer(i)))

\* The answer h ends with: into view and store, or into the store behind it.
Publish(i, h) ==
  IF Viewing(i) THEN Show(Append(chat, Answer(i)))
  ELSE PersistTurn(i, h) /\ UNCHANGED chat

\* finishTurnAssistantMessage after its await.
Finish(i) ==
  /\ phase[i] = "grounding" /\ MayFinish(i)
  /\ Await(i, "ended")
  /\ hist' = [hist EXCEPT ![i] = Append(@, Answer(i))]
  /\ Publish(i, Append(hist[i], Answer(i)))
  /\ run' = [run EXCEPT ![home[i]] = IF @ = i THEN 0 ELSE @]
  /\ UNCHANGED <<active, home, stale, direct, cut>>

\* It does nothing for a turn that ended meanwhile, but continueChatAfterContext
\* may go on to store the history of that turn for its cost.
StaleFinish(i) ==
  /\ phase[i] = "grounding" /\ ~MayFinish(i)
  /\ Await(i, "ended")
  /\ \/ UNCHANGED <<store, spoiled>>
     \/ IF Viewing(i) THEN Show(chat) ELSE PersistTurn(i, hist[i])
  /\ UNCHANGED <<active, chat, run, home, stale, hist, direct, cut>>

\* recordOwnedInference, onFailureUsage, onPartialUsage and what else stores a
\* turn for what a model call cost or found: a call ends when it ends, also
\* when its turn has been cut or is over.
StoreUsage(i) ==
  /\ hist[i] # <<>>
  /\ PersistTurn(i, hist[i])
  /\ UNCHANGED <<active, chat, run, phase, home, stale, hist, direct, cut>>

----------------------------------------------------------------------------
(* The user *)

\* Mutant of MarkLast: the role says it.
MarkLastByRole(h) ==
  IF h # <<>> /\ Last(h).role = "user"
  THEN [h EXCEPT ![Len(h)].role = "cancelled"] ELSE h

\* The question a stopped turn was asked is marked.
MarkLast(h) ==
  IF h # <<>> /\ Last(h).role = "user"
  THEN [h EXCEPT ![Len(h)].cancelled = TRUE] ELSE h

\* handleStreamCancel on the thread in view.
Stop ==
  /\ LET i == run[active] IN
     IF i # 0 THEN Show(Append(MarkLast(hist[i]), Stopped(i)))
              ELSE UNCHANGED <<chat, store, spoiled>>
  /\ Abort(active, 0)
  /\ UNCHANGED <<active, phase, home, hist, direct>>

\* Mutant of RunsAfterSwitch: the turn left behind is aborted.
RunsAfterSwitchAborts == [run EXCEPT ![active] = 0]

\* "Do not abort background turns".
RunsAfterSwitch == run

\* switchThread and newChat: store the view, then activateThread.
Switch(t) ==
  /\ t # active
  /\ active' = t
  /\ store' = [store EXCEPT ![active] = chat]
  /\ spoiled' = spoiled \ {active}
  /\ chat' = IF run[t] # 0 THEN hist[run[t]] ELSE store[t]
  /\ run' = RunsAfterSwitch
  /\ UNCHANGED <<phase, home, stale, hist, direct, cut>>

\* clearChat.
Clear ==
  /\ chat # <<>>
  /\ Abort(active, 0)
  /\ Show(<<>>)
  /\ UNCHANGED <<active, phase, home, hist, direct>>

Init ==
  /\ active \in Threads
  /\ chat = <<>>
  /\ store = [t \in Threads |-> <<>>]
  /\ run = [t \in Threads |-> 0]
  /\ phase = [i \in Submissions |-> "unsent"]
  /\ home = [i \in Submissions |-> active]
  /\ stale = {}
  /\ hist = [i \in Submissions |-> <<>>]
  /\ direct = {}
  /\ cut = {}
  /\ spoiled = {}

Continue(i) == \/ Drop(i) \/ AskDirectly(i) \/ Reply(i) \/ Begin(i)
               \/ Gathered(i) \/ Written(i) \/ GiveUp(i) \/ Fail(i)
               \/ Finish(i) \/ StaleFinish(i)

Next == \/ \E i \in Submissions : Send(i) \/ Continue(i) \/ StoreUsage(i)
        \/ Stop
        \/ \E t \in Threads : Switch(t)
        \/ Clear

\* Assumed of the model and the network: they answer or fail every request in
\* the end.  The code does not see to it: scheduleResponseDeadline does nothing,
\* and an await that hangs ends by Stop only.  Users are not fair, nor is
\* StoreUsage.
Spec == Init /\ [][Next]_vars /\ \A i \in Submissions : WF_vars(Continue(i))

----------------------------------------------------------------------------
(* Properties *)

Messages == [of : Submissions, role : {"user", "assistant"}, cancelled : BOOLEAN]

TypeOK ==
  /\ active \in Threads
  /\ chat \in Seq(Messages)
  /\ store \in [Threads -> Seq(Messages)]
  /\ run \in [Threads -> Submissions \cup {0}]
  /\ phase \in [Submissions -> {"unsent", "planning", "replying", "gathering",
                                "writing", "grounding", "ended", "stuck",
                                "failed"}]
  /\ home \in [Submissions -> Threads]
  /\ hist \in [Submissions -> Seq(Messages)]
  /\ stale \cup direct \cup cut \subseteq Submissions
  /\ spoiled \subseteq Threads

\* What a thread shows, or will when it is opened.
Record(t) == ToSet(IF t = active THEN chat
                   ELSE IF run[t] # 0 THEN hist[run[t]] ELSE store[t])

\* What a turn says stays in the thread that it was asked in, and with its
\* question: moving between threads, clearing and asking again never make an
\* answer appear in another conversation or without what it answers.
AnswersAtHome ==
  \A t \in Threads : \A m \in Record(t) : m.of \notin direct =>
    /\ home[m.of] = t
    /\ m.role = "assistant" => \E q \in Record(t) : q.of = m.of /\ q.role = "user"

\* A turn that the user ended, by Stop, by asking again or by clearing, never
\* answers any more, in whatever await it was caught.
CutIsSilent ==
  \A i \in cut : \A t \in Threads : Answer(i) \notin Record(t)

\* Which question or answer of a thread a step loses, if it was of a turn.
Lost(t) == {m \in Record(t) : /\ m.of \notin direct
                              /\ ~\E n \in Record(t)' : n.of = m.of /\ n.role = m.role}

\* No step makes a question or an answer of a turn disappear from its thread,
\* but clearing the chat, and what a turn that was cut or is over does to it:
\* for the cost of a call that ended late it stores its own history over what
\* came since, and the thread has that until it is stored again.
NothingIsLost ==
  [][\A t \in Threads \ spoiled' :
       Lost(t) # {} => t = active /\ active' = active /\ chat' = <<>>]_vars

\* A turn that the user does not end and that meets no error is answered in
\* the thread it belongs to, though the user may be reading another one: if its
\* requests end, nothing that is done in the threads meanwhile leaves it behind.
TurnsAreAnswered ==
  \A i \in Submissions :
    phase[i] = "gathering"
      ~> Answer(i) \in Record(home[i]) \/ i \in cut \/ phase[i] \in {"stuck", "failed"}
=============================================================================
