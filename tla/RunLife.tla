------------------------------ MODULE RunLife ------------------------------
(***************************************************************************)
(* What the run queue promises about the life of a run, without rows,       *)
(* leases, sessions and schedulers.  A run is queued when it is submitted,  *)
(* taken by one worker, and left by that worker for good when it has ended  *)
(* or waits for an external result.  Only a run whose worker was lost goes   *)
(* back into the queue.  The end of a run may submit its retry, in the same  *)
(* step.  The detailed specification is JobRuns.                            *)
(***************************************************************************)
EXTENDS Naturals

CONSTANTS RunIds, Workers, NULL

VARIABLES
    phase,   \* of each run: "absent", "queued", "running", "waiting" or "ended"
    holder,  \* the worker that executes the run, or NULL
    next     \* the id the next submitted run gets

lifeVars == <<phase, holder, next>>

Init ==
    /\ phase = [r \in RunIds |-> "absent"]
    /\ holder = [r \in RunIds |-> NULL]
    /\ next = 1

\* a trigger, or the scheduler finds a job due
Submit ==
    /\ next \in RunIds
    /\ phase' = [phase EXCEPT ![next] = "queued"]
    /\ next' = next + 1
    /\ UNCHANGED holder

\* w is NULL for an HTTP worker, of which nobody knows what it does next
Take(r, w) ==
    /\ phase[r] = "queued"
    /\ phase' = [phase EXCEPT ![r] = "running"]
    /\ holder' = [holder EXCEPT ![r] = w]
    /\ UNCHANGED next

\* the worker reports the result of the run it holds
End(r) ==
    /\ phase[r] = "running" /\ holder[r] # NULL
    /\ holder' = [holder EXCEPT ![r] = NULL]
    /\ \/ /\ phase' = [phase EXCEPT ![r] = "ended"]
          /\ UNCHANGED next
       \/ /\ next \in RunIds
          /\ phase' = [phase EXCEPT ![r] = "ended", ![next] = "queued"]
          /\ next' = next + 1

\* the external service has accepted the run
Await(r) ==
    /\ phase[r] = "running" /\ holder[r] # NULL
    /\ holder' = [holder EXCEPT ![r] = NULL]
    /\ phase' = [phase EXCEPT ![r] = "waiting"]
    /\ UNCHANGED next

\* a worker process dies with the runs in lost
Lose(lost) ==
    /\ \A r \in lost : holder[r] # NULL
    /\ holder' = [r \in RunIds |-> IF r \in lost THEN NULL ELSE holder[r]]
    /\ UNCHANGED <<phase, next>>

\* running runs that nobody holds go back into the queue
Requeue(stale) ==
    /\ \A r \in stale : phase[r] = "running" /\ holder[r] = NULL
    /\ phase' = [r \in RunIds |-> IF r \in stale THEN "queued" ELSE phase[r]]
    /\ UNCHANGED <<holder, next>>

\* a user deletes the runs submitted before some point
Clear(k) ==
    /\ phase' = [r \in RunIds |-> IF r < k THEN "absent" ELSE phase[r]]
    /\ holder' = [r \in RunIds |-> IF r < k THEN NULL ELSE holder[r]]
    /\ UNCHANGED next

Next ==
    \/ Submit
    \/ \E r \in RunIds : End(r) \/ Await(r) \/ \E w \in Workers \cup {NULL} : Take(r, w)
    \/ \E S \in SUBSET RunIds : Lose(S) \/ Requeue(S)
    \/ \E k \in 1..next : Clear(k)

Spec == Init /\ [][Next]_lifeVars
=============================================================================
