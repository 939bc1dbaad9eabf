----------------------------- MODULE WorkerLoop -----------------------------
(***************************************************************************)
(* One worker process: worker_main, event_listener, the run_job_task        *)
(* coroutines and the semaphore that bounds them, on one asyncio event loop. *)
(* An action is what the loop does between two awaits.                      *)
(*                                                                         *)
(* The tasks are interchangeable, so they are counted by stage:             *)
(*   created    scheduled, first step not yet taken                        *)
(*   waiting    queued on the semaphore                                    *)
(*   woken      given a slot by release(), not yet resumed                 *)
(*   executing  a run is dequeued and being executed                       *)
(* The queue is the number of pending runs a dequeue may take; the database *)
(* sends a NOTIFY for every row that becomes pending                        *)
(* (fn_notify_job_run_update).                                             *)
(***************************************************************************)
EXTENDS Integers

CONSTANTS
    MaxConcurrentJobs,  \* MAX_CONCURRENT_JOBS
    MaxArrivals         \* bound on the number of runs that become pending

ASSUME WorkerLoopAssumption ==
    /\ MaxConcurrentJobs \in Nat \ {0}
    /\ MaxArrivals \in Nat

VARIABLES
    pending,    \* pending runs in the queue
    arrivals,   \* runs that have become pending so far
    notified,   \* a NOTIFY waits on the listener's connection
    listener,   \* "starting", "listening", "sleeping" or "dead"
    event,      \* trigger_event is set
    tasks       \* number of tasks in each stage

vars == <<pending, arrivals, notified, listener, event, tasks>>

Stage == {"created", "waiting", "woken", "executing"}

TypeOK ==
    /\ pending \in 0..MaxArrivals
    /\ arrivals \in 0..MaxArrivals
    /\ notified \in BOOLEAN
    /\ listener \in {"starting", "listening", "sleeping", "dead"}
    /\ event \in BOOLEAN
    /\ tasks \in [Stage -> Nat]

Init ==
    /\ pending \in 0..MaxArrivals
    /\ arrivals = pending
    /\ notified = FALSE
    /\ listener = "starting"
    /\ event = TRUE
    /\ tasks = [s \in Stage |-> 0]

-----------------------------------------------------------------------------
(* The semaphore: release() hands its slot to the first waiter.             *)

Slots == tasks["woken"] + tasks["executing"]

SemaphoreLocked == Slots = MaxConcurrentJobs \/ tasks["waiting"] > 0

\* a task leaves stage s for stage d
Moved(s, d) == [tasks EXCEPT ![s] = @ - 1, ![d] = @ + 1]

\* a task in stage s ends and releases its slot
Released(s) ==
    IF tasks["waiting"] > 0
    THEN [tasks EXCEPT ![s] = @ - 1, !["waiting"] = @ - 1,
                       !["woken"] = @ + 1]
    ELSE [tasks EXCEPT ![s] = @ - 1]

-----------------------------------------------------------------------------
(* The database.                                                           *)

\* a row becomes pending; only a connection that LISTENs gets the NOTIFY
RunArrives ==
    /\ arrivals < MaxArrivals
    /\ arrivals' = arrivals + 1
    /\ pending' = pending + 1
    /\ notified' = (notified \/ listener \in {"listening", "sleeping"})
    /\ UNCHANGED <<listener, event, tasks>>

\* a worker of another process takes a run
TakenElsewhere ==
    /\ pending > 0
    /\ pending' = pending - 1
    /\ UNCHANGED <<arrivals, notified, listener, event, tasks>>

-----------------------------------------------------------------------------
(* event_listener.                                                         *)

ListenerStart ==
    /\ listener = "starting"
    /\ listener' = "listening"
    /\ UNCHANGED <<pending, arrivals, notified, event, tasks>>

\* select returns, because of a NOTIFY or after its timeout; the listener
\* sets the event for what it got and sleeps
ListenerPoll ==
    /\ listener = "listening"
    /\ event' = (event \/ notified)
    /\ notified' = FALSE
    /\ listener' = "sleeping"
    /\ UNCHANGED <<pending, arrivals, tasks>>

ListenerWake ==
    /\ listener = "sleeping"
    /\ listener' = "listening"
    /\ UNCHANGED <<pending, arrivals, notified, event, tasks>>

\* the connection breaks: the exception ends the listener for good
ListenerDies ==
    /\ listener # "dead"
    /\ listener' = "dead"
    /\ notified' = FALSE
    /\ UNCHANGED <<pending, arrivals, event, tasks>>

-----------------------------------------------------------------------------
(* worker_main.  The ready queue is first in, first out: the tasks created   *)
(* by one turn take their first step before the loop's next turn.           *)

SpawnAlways == tasks' = [tasks EXCEPT !["created"] = @ + MaxConcurrentJobs]

\* the for loop: semaphore.locked() does not change between its turns
Spawn ==
    tasks' = IF SemaphoreLocked THEN tasks
             ELSE [tasks EXCEPT !["created"] = @ + MaxConcurrentJobs]

MainOnEvent ==
    /\ event /\ tasks["created"] = 0
    /\ event' = FALSE
    /\ Spawn
    /\ UNCHANGED <<pending, arrivals, notified, listener>>

\* POLL_INTERVAL has passed without the event
MainTimeoutOnlyWhileListening ==
    /\ ~event /\ tasks["created"] = 0
    /\ listener # "dead"
    /\ Spawn
    /\ UNCHANGED <<pending, arrivals, notified, listener, event>>

MainTimeout ==
    /\ ~event /\ tasks["created"] = 0
    /\ Spawn
    /\ UNCHANGED <<pending, arrivals, notified, listener, event>>

-----------------------------------------------------------------------------
(* run_job_task.                                                           *)

DequeueUnchecked(s) ==
    /\ pending' = pending - 1
    /\ tasks' = Moved(s, "executing")

DequeueKeepsWaiters(s) ==
    \/ /\ pending > 0
       /\ pending' = pending - 1
       /\ tasks' = Moved(s, "executing")
    \/ /\ pending = 0
       /\ UNCHANGED pending
       /\ tasks' = [tasks EXCEPT ![s] = @ - 1]

\* the dequeue of a task in stage s that has its slot: the task executes the
\* run, or ends when the queue is empty
Dequeue(s) ==
    \/ /\ pending > 0
       /\ pending' = pending - 1
       /\ tasks' = Moved(s, "executing")
    \/ /\ pending = 0
       /\ UNCHANGED pending
       /\ tasks' = IF s = "created" THEN [tasks EXCEPT ![s] = @ - 1] ELSE Released(s)

TaskFirstStep ==
    /\ tasks["created"] > 0
    /\ \/ SemaphoreLocked /\ tasks' = Moved("created", "waiting") /\ UNCHANGED pending
       \/ ~SemaphoreLocked /\ Dequeue("created")
    /\ UNCHANGED <<arrivals, notified, listener, event>>

TaskResumes ==
    /\ tasks["woken"] > 0
    /\ Dequeue("woken")
    /\ UNCHANGED <<arrivals, notified, listener, event>>

\* execute_job and finish_run are done, or have failed
TaskEnds ==
    /\ tasks["executing"] > 0
    /\ tasks' = Released("executing")
    /\ UNCHANGED <<pending, arrivals, notified, listener, event>>

-----------------------------------------------------------------------------
Next ==
    \/ RunArrives \/ TakenElsewhere
    \/ ListenerStart \/ ListenerPoll \/ ListenerWake \/ ListenerDies
    \/ MainOnEvent \/ MainTimeout
    \/ TaskFirstStep \/ TaskResumes \/ TaskEnds

Spec == Init /\ [][Next]_vars

(* The event loop runs every task that is ready, the wait for the event has  *)
(* a timeout, and executions end (execute_job has a timeout).  Nothing is     *)
(* assumed of the listener: it may be dead.                                  *)
Fairness ==
    /\ WF_vars(MainOnEvent \/ MainTimeout)
    /\ WF_vars(TaskFirstStep) /\ WF_vars(TaskResumes) /\ WF_vars(TaskEnds)

FairSpec == Spec /\ Fairness

-----------------------------------------------------------------------------
(* Properties.                                                             *)

\* The semaphore never lets more than MAX_CONCURRENT_JOBS tasks dequeue, and
\* the tasks piled up behind it stay below one more round of the for loop,
\* however often events and timeouts wake the main loop during long
\* executions.
TasksBounded ==
    /\ Slots <= MaxConcurrentJobs
    /\ Slots + tasks["created"] + tasks["waiting"] < 2 * MaxConcurrentJobs

\* Tasks wait on the semaphore only while all its slots are taken: no slot is
\* lost when a task ends without having found a run.
NoIdleSlot == tasks["waiting"] > 0 => Slots = MaxConcurrentJobs

\* Every run that becomes pending leaves the queue, even if its NOTIFY was
\* lost, arrived while all slots were taken, or the listener is dead.
QueueDrains == pending > 0 ~> pending = 0
=============================================================================
