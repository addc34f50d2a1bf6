---------------------------- MODULE JobLifecycle ----------------------------
(***************************************************************************)
(* What the job queue promises of the life of a job: it waits, is executed *)
(* by one worker at a time, may come back to the queue when its worker     *)
(* gave up or died, and stays as it is once it has ended.                  *)
(***************************************************************************)
CONSTANT Jobs

VARIABLES
  status,  \* per job: "absent", "queued", "running", "completed", "failed"
  busy     \* the jobs some worker is executing

vars == <<status, busy>>

Init == status = [j \in Jobs |-> "absent"] /\ busy = {}

Submit(j) ==
  /\ status[j] = "absent"
  /\ status' = [status EXCEPT ![j] = "queued"]
  /\ UNCHANGED busy

\* A worker takes a waiting job that nobody executes.
Take(j) ==
  /\ status[j] = "queued" /\ j \notin busy
  /\ status' = [status EXCEPT ![j] = "running"]
  /\ busy' = busy \cup {j}

\* Executions end: returned, thrown, or died together with their process.
Leave(S) ==
  /\ busy' = busy \ S
  /\ UNCHANGED status

\* The outcome of an execution that is over is recorded.
End(j) ==
  /\ status[j] = "running" /\ j \notin busy
  /\ \E s \in {"completed", "failed"} : status' = [status EXCEPT ![j] = s]
  /\ UNCHANGED busy

\* Jobs whose execution is over without an outcome wait again.
Return(S) ==
  /\ \A j \in S : status[j] = "running" /\ j \notin busy
  /\ status' = [j \in Jobs |-> IF j \in S THEN "queued" ELSE status[j]]
  /\ UNCHANGED busy

Next ==
  \/ \E j \in Jobs : Submit(j) \/ Take(j) \/ End(j)
  \/ \E S \in SUBSET Jobs : Leave(S) \/ Return(S)

Spec == Init /\ [][Next]_vars
=============================================================================
