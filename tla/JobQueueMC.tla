----------------------------- MODULE JobQueueMC -----------------------------
(* Values of the constants of JobQueue for TLC. *)
EXTENDS JobQueue, TLC

CONSTANTS j1, j2, api, worker

Symmetric == Permutations(Jobs)

SamePriority == [j \in Jobs |-> 1]
MixedPriority == (j1 :> 1) @@ (j2 :> 0)

\* Any two different faults.
AnyTwo == [e \in Events |-> IF e = "any" THEN 2 ELSE 1]
AnyOne == [e \in Events |-> 1]

\* A crash and a shutdown, and none of what Quiet excludes.
QuietBudget == [e \in Events |-> 
  CASE e = "any" -> 2 [] e \in {"crash", "stop"} -> 1 [] OTHER -> 0]

\* One cancellation by a user and nothing else; nothing at all.
UserCancel == [e \in Events |-> IF e \in {"cancel", "any"} THEN 1 ELSE 0]
NoFault == [e \in Events |-> 0]
=============================================================================
