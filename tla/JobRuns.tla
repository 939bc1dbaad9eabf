------------------------------- MODULE JobRuns -------------------------------
(***************************************************************************)
(* The run queue: every process that reads and writes job_runs.            *)
(*                                                                         *)
(*  - worker tasks (worker_loop.run_job_task) and HTTP workers that only    *)
(*    pull: a dequeue transaction that locks rows with FOR UPDATE SKIP      *)
(*    LOCKED, then the execution, then finish_run;                         *)
(*  - scheduler replicas (scheduler_loop.main): release_expired_locks;      *)
(*  - HTTP requests on one run: cancel, finish, retry;                     *)
(*  - HTTP requests on a job or on the whole table: trigger, enable,        *)
(*    disable, clear.                                                      *)
(*                                                                         *)
(* A transaction that reads a row, decides, and writes it back later is two *)
(* actions: what the session loaded stays in the process (the fields        *)
(* "loaded"), everybody may act in between, and the commit writes only the  *)
(* columns that differ from what was loaded (RunTable!WriteBack).           *)
(***************************************************************************)
EXTENDS RunTable

CONSTANTS
    Tasks,        \* concurrent run_job_task coroutines
    Pods,         \* worker processes
    PodOf,        \* the process a task runs in
    PullClients,  \* HTTP workers that call POST /workers/pull
    WorkerIdOf,   \* the worker_id each consumer dequeues with
    Schedulers,   \* scheduler replicas
    Clients,      \* HTTP requests on one run that may be in flight at once
    ClientOps,    \* what they ask for: "retry", or the status of cancel/finish
    AdminOps,     \* which of "trigger", "enable", "clear" users ask for
    MaxCrashes,   \* bound on the number of crashes and of failed transactions
    BoundedExec   \* TRUE: a task ends before its own lease has expired

Consumers == Tasks \cup PullClients

ASSUME JobRunsAssumption ==
    /\ Tasks \cap PullClients = {} /\ NULL \notin Tasks
    /\ PodOf \in [Tasks -> Pods]
    /\ WorkerIdOf \in [Consumers -> WorkerIds]
    /\ ClientOps \subseteq Finished \cup {"running", "retry"}
    /\ AdminOps \subseteq {"trigger", "enable", "clear"}
    /\ MaxCrashes \in Nat
    /\ BoundedExec \in BOOLEAN

VARIABLES
    runs,     \* the job_runs table
    nextRun,  \* the id the next inserted row gets
    enabled,  \* jobs.enabled (with jobs.status, which agrees with it here)
    task,     \* the state of each consumer
    batch,    \* what each scheduler's session loaded in release_expired_locks
    req,      \* the HTTP requests on one run
    clear,    \* the transaction of clear_all_runs, one at a time
    crashes   \* crashes and failed transactions so far

vars == <<runs, nextRun, enabled, task, batch, req, clear, crashes>>

-----------------------------------------------------------------------------
(* Local states.  held: the rows the consumer's open transaction has locked. *)
(* todo: the dependencies of the chosen run that are still to be looked at. *)
(* left: what is left of the lease of the run the task executes.            *)

IdleTask ==
    [pc |-> "idle", run |-> NULL, loaded |-> NoRun, held |-> {}, todo |-> {}, left |-> 0]

SelectingTask(held) ==
    [pc |-> "selecting", run |-> NULL, loaded |-> NoRun, held |-> held, todo |-> {}, left |-> 0]

ClaimedTask(r, row, held, todo) ==
    [pc |-> "claimed", run |-> r, loaded |-> row, held |-> held, todo |-> todo, left |-> 0]

LockedTask(r) ==
    [pc |-> "locked", run |-> r, loaded |-> NoRun, held |-> {}, todo |-> {},
     left |-> LockSeconds]

ExecutingTask(r, row, left) ==
    [pc |-> "executing", run |-> r, loaded |-> row, held |-> {}, todo |-> {}, left |-> left]

TaskState ==
    [pc     : {"idle", "selecting", "claimed", "locked", "executing"},
     run    : RunIds \cup {NULL},
     loaded : Row \cup {NoRun},
     held   : SUBSET RunIds,
     todo   : SUBSET Dependency,
     left   : 0..LockSeconds]

IdleRequest == [op |-> NULL, run |-> NULL, loaded |-> NoRun]

Request ==
    [op : ClientOps \cup {NULL}, run : RunIds \cup {NULL}, loaded : Row \cup {NoRun}]

\* below: the DELETE of clear_all_runs sees the rows with smaller ids, 0 when
\* no clear is in flight; held: the rows it has deleted and not yet
\* committed; last: nextRun at the last commit, which only properties read
ClearState ==
    [below : 0..(MaxRuns + 1), held : SUBSET RunIds, last : 1..(MaxRuns + 1)]

EmptyBatch == [r \in RunIds |-> NoRun]

InBatch(s) == {r \in RunIds : batch[s][r] # NoRun}

TypeOK ==
    /\ runs \in Table
    /\ nextRun \in 1..(MaxRuns + 1)
    /\ enabled \in [Jobs -> BOOLEAN]
    /\ task \in [Consumers -> TaskState]
    /\ batch \in [Schedulers -> Table]
    /\ req \in [Clients -> Request]
    /\ clear \in ClearState
    /\ crashes \in 0..MaxCrashes

Init ==
    /\ runs = EmptyBatch
    /\ nextRun = 1
    /\ enabled = [j \in Jobs |-> TRUE]
    /\ task = [t \in Consumers |-> IdleTask]
    /\ batch = [s \in Schedulers |-> EmptyBatch]
    /\ req = [c \in Clients |-> IdleRequest]
    /\ clear = [below |-> 0, held |-> {}, last |-> 1]
    /\ crashes = 0

-----------------------------------------------------------------------------
(* Row locks.  The SELECT of find_next_run_to_lock joins jobs, so FOR UPDATE *)
(* locks the run's row and the job's row until the transaction ends.  The   *)
(* DELETE of clear_all_runs locks the rows of the runs only.                *)

RowLocked(r) == r \in clear.held \/ \E t \in Consumers : r \in task[t].held

JobLocked(j) == \E t \in Consumers : \E r \in task[t].held : runs[r].job = j

LockedByOther(t, r) ==
    \E u \in Consumers \ {t} : \E q \in task[u].held :
        q = r \/ runs[q].job = runs[r].job

\* Tasks of one process share one event loop; dequeue and the reload after
\* it contain no await.
LoopFree(t) ==
    t \in Tasks => \A u \in Tasks \ {t} :
        PodOf[u] = PodOf[t] => task[u].pc \notin {"selecting", "claimed", "locked"}

Live(t) == task[t].pc \in {"locked", "executing"}

-----------------------------------------------------------------------------
(* JobRunService.update_status, from a row loaded earlier.  A terminal       *)
(* status completes the run and may insert its automatic retry in the same  *)
(* transaction; "running" only starts it.  The insert waits for the job's    *)
(* row (foreign key), the update for the run's row.                         *)

Updated(loaded, status) ==
    IF status = "running" THEN Start(loaded) ELSE Complete(loaded, status)

UpdateStatus(r, loaded, status) ==
    /\ runs[r] # NoRun /\ ~RowLocked(r)
    /\ IF AutoRetry(loaded, status)
       THEN /\ nextRun <= MaxRuns /\ ~JobLocked(loaded.job)
            /\ runs' = [runs EXCEPT ![r] = WriteBack(@, loaded, Updated(loaded, status)),
                                    ![nextRun] = RetryRun(loaded, r)]
            /\ nextRun' = nextRun + 1
       ELSE /\ runs' = [runs EXCEPT ![r] = WriteBack(@, loaded, Updated(loaded, status))]
            /\ UNCHANGED nextRun

\* get_run finds no row, or the UPDATE or the log line's INSERT fails on it
RunGone(r) == runs[r] = NoRun /\ UNCHANGED <<runs, nextRun>>

-----------------------------------------------------------------------------
(* Dequeue.                                                                *)

CandidatesWithoutSkipLocked(t) ==
    {r \in RunIds : /\ runs[r] # NoRun
                    /\ runs[r].status = "pending"
                    /\ enabled[runs[r].job]
                    /\ r \notin task[t].held}

CandidatesUntilOneIsHeld(t) ==
    {r \in RunIds : /\ runs[r] # NoRun
                    /\ runs[r].status = "pending"
                    /\ enabled[runs[r].job]
                    /\ task[t].held = {}
                    /\ r \notin clear.held
                    /\ ~LockedByOther(t, r)}

\* find_next_run_to_lock without its order
Candidates(t) ==
    {r \in RunIds : /\ runs[r] # NoRun
                    /\ runs[r].status = "pending"
                    /\ enabled[runs[r].job]
                    /\ r \notin task[t].held \cup clear.held
                    /\ ~LockedByOther(t, r)}

\* The query of find_next_run_to_lock locks the oldest candidate; the
\* dependencies of its job are looked at in later queries.
DequeueSelect(t) ==
    /\ task[t].pc \in {"idle", "selecting"}
    /\ LoopFree(t)
    /\ \E r \in Candidates(t) :
        /\ \A q \in Candidates(t) : r <= q
        /\ task' = [task EXCEPT ![t] =
               ClaimedTask(r, runs[r], @.held \cup {r}, Deps[runs[r].job])]
    /\ UNCHANGED <<runs, nextRun, enabled, batch, req, clear, crashes>>

\* One query of are_dependencies_satisfied.  At the first dependency that is
\* not satisfied the run is skipped; its row stays locked until the
\* transaction ends.
DequeueCheck(t) ==
    /\ task[t].pc = "claimed"
    /\ \E d \in task[t].todo :
        task' = [task EXCEPT ![t] =
            IF DependencySatisfied(runs, d)
            THEN ClaimedTask(@.run, @.loaded, @.held, @.todo \ {d})
            ELSE SelectingTask(@.held)]
    /\ UNCHANGED <<runs, nextRun, enabled, batch, req, clear, crashes>>

\* the query finds nothing more: return None, the session is closed
DequeueNone(t) ==
    /\ task[t].pc = "selecting"
    /\ Candidates(t) = {}
    /\ task' = [task EXCEPT ![t] = IdleTask]
    /\ UNCHANGED <<runs, nextRun, enabled, batch, req, clear, crashes>>

\* commit of dequeue_next_run; an HTTP worker leaves with the run, a task
\* goes on with it
DequeueCommit(t) ==
    /\ task[t].pc = "claimed" /\ task[t].todo = {}
    /\ LET r == task[t].run IN
       /\ runs' = [runs EXCEPT ![r] =
              WriteBack(@, task[t].loaded, Claim(task[t].loaded, WorkerIdOf[t]))]
       /\ task' = [task EXCEPT ![t] =
              IF t \in PullClients
              THEN IdleTask
              ELSE LockedTask(r)]
    /\ UNCHANGED <<nextRun, enabled, batch, req, clear, crashes>>

\* refresh, add_log, whose INSERT waits for the row (foreign key), and the
\* reload of the expired instance; a row that is gone raises and the task
\* ends without a change
TaskLoad(t) ==
    /\ task[t].pc = "locked"
    /\ ~RowLocked(task[t].run)
    /\ task' = [task EXCEPT ![t] =
           IF runs[@.run] = NoRun
           THEN IdleTask
           ELSE ExecutingTask(@.run, runs[@.run], @.left)]
    /\ UNCHANGED <<runs, nextRun, enabled, batch, req, clear, crashes>>

\* execute_job has returned or raised: finish_run with the row loaded before
TaskFinish(t) ==
    /\ task[t].pc = "executing"
    /\ LoopFree(t)
    /\ \/ RunGone(task[t].run)
       \/ \E status \in {"success", "failed", "timeout"} :
              UpdateStatus(task[t].run, task[t].loaded, status)
    /\ task' = [task EXCEPT ![t] = IdleTask]
    /\ UNCHANGED <<enabled, batch, req, clear, crashes>>

\* the api_poll action was accepted: status awaiting_result, the lock columns
\* stay as they are
TaskAwait(t) ==
    /\ task[t].pc = "executing"
    /\ LoopFree(t)
    /\ LET r == task[t].run IN
       \/ RunGone(r)
       \/ /\ runs[r] # NoRun /\ ~RowLocked(r)
          /\ runs' = [runs EXCEPT ![r] =
                 WriteBack(@, task[t].loaded,
                           [task[t].loaded EXCEPT !.status = "awaiting_result"])]
          /\ UNCHANGED nextRun
    /\ task' = [task EXCEPT ![t] = IdleTask]
    /\ UNCHANGED <<enabled, batch, req, clear, crashes>>

-----------------------------------------------------------------------------
(* release_expired_locks: a SELECT without locks, then one commit.          *)

ReleaseLoad(s) ==
    /\ InBatch(s) = {}
    /\ FindExpired(runs) # {}
    /\ batch' = [batch EXCEPT ![s] =
           [r \in RunIds |-> IF r \in FindExpired(runs) THEN runs[r] ELSE NoRun]]
    /\ UNCHANGED <<runs, nextRun, enabled, task, req, clear, crashes>>

\* A row deleted in between makes the whole commit fail.
ReleaseCommit(s) ==
    /\ InBatch(s) # {}
    /\ \/ /\ \E r \in InBatch(s) : runs[r] = NoRun
          /\ UNCHANGED runs
       \/ /\ \A r \in InBatch(s) : runs[r] # NoRun /\ ~RowLocked(r)
          /\ runs' = [r \in RunIds |->
                 IF r \in InBatch(s)
                 THEN WriteBack(runs[r], batch[s][r], Release(batch[s][r]))
                 ELSE runs[r]]
    /\ batch' = [batch EXCEPT ![s] = EmptyBatch]
    /\ UNCHANGED <<nextRun, enabled, task, req, clear, crashes>>

-----------------------------------------------------------------------------
(* HTTP requests on one run.                                               *)

\* get_run of cancel_job_run, run_finish, retry_job_run
RequestLoad(c, op, r) ==
    /\ req[c] = IdleRequest
    /\ runs[r] # NoRun
    /\ op = "retry" => RetryAllowed(runs[r])
    /\ req' = [req EXCEPT ![c] = [op |-> op, run |-> r, loaded |-> runs[r]]]
    /\ UNCHANGED <<runs, nextRun, enabled, task, batch, clear, crashes>>

\* retry_run inserts the new row and a log line of the old one
CommitRetry(r, loaded) ==
    /\ runs[r] # NoRun /\ ~RowLocked(r)
    /\ nextRun <= MaxRuns /\ ~JobLocked(loaded.job)
    /\ runs' = [runs EXCEPT ![nextRun] = RetryRun(loaded, r)]
    /\ nextRun' = nextRun + 1

RequestCommit(c) ==
    /\ req[c] # IdleRequest
    /\ \/ RunGone(req[c].run)
       \/ req[c].op = "retry" /\ CommitRetry(req[c].run, req[c].loaded)
       \/ req[c].op # "retry" /\ UpdateStatus(req[c].run, req[c].loaded, req[c].op)
    /\ req' = [req EXCEPT ![c] = IdleRequest]
    /\ UNCHANGED <<enabled, task, batch, clear, crashes>>

\* where a run is in its life
Phase(row) ==
    CASE row = NoRun -> "absent"
      [] row # NoRun /\ row.status = "pending" -> "queued"
      [] row # NoRun /\ row.status = "running" -> "running"
      [] row # NoRun /\ row.status = "awaiting_result" -> "waiting"
      [] OTHER -> "ended"

-----------------------------------------------------------------------------
(* Requests on a job or on the table.                                      *)

\* trigger_job; scan_due_jobs inserts the same row
Trigger(j) ==
    /\ "trigger" \in AdminOps
    /\ nextRun <= MaxRuns /\ ~JobLocked(j)
    /\ runs' = [runs EXCEPT ![nextRun] = NewRun(j)]
    /\ nextRun' = nextRun + 1
    /\ UNCHANGED <<enabled, task, batch, req, clear, crashes>>

\* set_job_enabled; the UPDATE waits for the job's row
SetEnabled(j) ==
    /\ "enable" \in AdminOps
    /\ ~JobLocked(j)
    /\ enabled' = [enabled EXCEPT ![j] = ~@]
    /\ UNCHANGED <<runs, nextRun, task, batch, req, clear, crashes>>

\* clear_all_runs: the DELETE starts and sees the rows committed so far.  The
\* log lines are deleted first, in the same transaction.
ClearStart ==
    /\ "clear" \in AdminOps
    /\ clear.below = 0
    /\ \E r \in RunIds : runs[r] # NoRun
    /\ clear' = [clear EXCEPT !.below = nextRun]
    /\ UNCHANGED <<runs, nextRun, enabled, task, batch, req, crashes>>

\* it deletes row by row and waits for a row somebody else has locked
ClearRow(r) ==
    /\ r < clear.below
    /\ runs[r] # NoRun /\ ~RowLocked(r)
    /\ clear' = [clear EXCEPT !.held = @ \cup {r}]
    /\ UNCHANGED <<runs, nextRun, enabled, task, batch, req, crashes>>

\* The commit: until here everybody has seen the deleted rows; what was
\* inserted after the DELETE had started stays.
ClearCommit ==
    /\ clear.below > 0
    /\ \A r \in RunIds : r < clear.below /\ runs[r] # NoRun => r \in clear.held
    /\ runs' = [r \in RunIds |-> IF r < clear.below THEN NoRun ELSE runs[r]]
    /\ clear' = [below |-> 0, held |-> {}, last |-> nextRun]
    /\ UNCHANGED <<nextRun, enabled, task, batch, req, crashes>>

-----------------------------------------------------------------------------
(* Crashes and time.                                                       *)

\* A worker process dies: its connections are closed, which rolls back what
\* is open; what it has committed stays.
PodCrash(p) ==
    /\ crashes < MaxCrashes
    /\ \E t \in Tasks : PodOf[t] = p /\ task[t] # IdleTask
    /\ task' = [t \in Consumers |->
           IF t \in Tasks /\ PodOf[t] = p THEN IdleTask ELSE task[t]]
    /\ crashes' = crashes + 1
    /\ UNCHANGED <<runs, nextRun, enabled, batch, req, clear>>

\* A transaction of a consumer raises: a lost connection, or output the
\* database rejects.  The session is not rolled back before the handler of
\* run_job_task calls finish_run on it, so that raises too: nothing is
\* written, and a run that was running stays running.
TaskFails(t) ==
    /\ crashes < MaxCrashes
    /\ task[t] # IdleTask /\ LoopFree(t)
    /\ task' = [task EXCEPT ![t] = IdleTask]
    /\ crashes' = crashes + 1
    /\ UNCHANGED <<runs, nextRun, enabled, batch, req, clear>>

\* The clear is rolled back: its connection is lost, or a log line that was
\* inserted after the first DELETE still refers to a row of the second one.
ClearFails ==
    /\ crashes < MaxCrashes
    /\ clear.below > 0
    /\ clear' = [clear EXCEPT !.below = 0, !.held = {}]
    /\ crashes' = crashes + 1
    /\ UNCHANGED <<runs, nextRun, enabled, task, batch, req>>

\* A scheduler dies, or its iteration raises, before the commit.
SchedulerCrash(s) ==
    /\ crashes < MaxCrashes
    /\ InBatch(s) # {}
    /\ batch' = [batch EXCEPT ![s] = EmptyBatch]
    /\ crashes' = crashes + 1
    /\ UNCHANGED <<runs, nextRun, enabled, task, req, clear>>

Tick ==
    /\ BoundedExec => \A t \in Tasks : Live(t) => task[t].left > 0
    /\ runs' = [r \in RunIds |-> AgeRow(runs[r])]
    /\ task' = [t \in Consumers |->
           IF task[t].left > 0 THEN [task[t] EXCEPT !.left = @ - 1] ELSE task[t]]
    /\ UNCHANGED <<nextRun, enabled, batch, req, clear, crashes>>

-----------------------------------------------------------------------------
TaskStep(t) == TaskLoad(t) \/ TaskFinish(t) \/ TaskAwait(t)

DequeueStep(t) ==
    DequeueSelect(t) \/ DequeueCheck(t) \/ DequeueNone(t) \/ DequeueCommit(t)

SchedulerStep(s) == ReleaseLoad(s) \/ ReleaseCommit(s)

ClearStep == (\E r \in RunIds : ClearRow(r)) \/ ClearCommit

Next ==
    \/ \E t \in Consumers : DequeueStep(t) \/ TaskFails(t)
    \/ \E t \in Tasks : TaskStep(t)
    \/ \E s \in Schedulers : SchedulerStep(s) \/ SchedulerCrash(s)
    \/ \E c \in Clients, op \in ClientOps, r \in RunIds : RequestLoad(c, op, r)
    \/ \E c \in Clients : RequestCommit(c)
    \/ \E j \in Jobs : Trigger(j) \/ SetEnabled(j)
    \/ ClearStart \/ ClearStep \/ ClearFails
    \/ \E p \in Pods : PodCrash(p)
    \/ Tick

Spec == Init /\ [][Next]_vars

(* Workers poll at least every POLL_INTERVAL seconds, schedulers run in a    *)
(* loop, execute_job is bounded by its timeout, and time passes.  The clear  *)
(* runs to its end: while it waits for a row it is the first in the row's    *)
(* queue and SKIP LOCKED passes the row over, hence strong fairness.         *)
(* Nothing is assumed of users, of HTTP workers after their pull, or of      *)
(* crashes and failures.                                                    *)
Fairness ==
    /\ \A t \in Consumers : WF_vars(DequeueStep(t))
    /\ \A t \in Tasks : WF_vars(TaskStep(t))
    /\ \A s \in Schedulers : WF_vars(ReleaseLoad(s)) /\ WF_vars(ReleaseCommit(s))
    /\ SF_vars(ClearStep)
    /\ WF_vars(Tick)

FairSpec == Spec /\ Fairness

-----------------------------------------------------------------------------
(* Properties.                                                             *)

\* The two lock columns are written by three different operations, each of
\* them column by column against a snapshot.  Still they are NULL together,
\* and a pending run carries neither, whatever interleaves: a lease always
\* names its holder and a queued run never looks leased.
LeaseColumnsAgree ==
    \A r \in RunIds : runs[r] # NoRun =>
        /\ runs[r].locked_by = NULL <=> runs[r].locked_until = NULL
        /\ runs[r].status = "pending" => runs[r].locked_until = NULL

\* However often finish reports race each other and users retry by hand, no
\* run is numbered beyond its job's max_retry, and a retry is one more than
\* the run it retries, of the same job and younger (retry_run's limit).
RetryBound ==
    \A r \in RunIds : runs[r] # NoRun =>
        /\ runs[r].retry_count <= MaxRetry[runs[r].job]
        /\ LET q == runs[r].retry_of IN
           q # NULL =>
               /\ q < r
               /\ runs[q] # NoRun => /\ runs[q].job = runs[r].job
                                     /\ runs[r].retry_count = runs[q].retry_count + 1

\* What dequeue_next_run has found stays true while it looks at the
\* dependencies and until its commit: the row it selected exists, is
\* unchanged and pending, its job is enabled, no other consumer has locked
\* the row or the job (FOR UPDATE of both rows, SKIP LOCKED), and no clear in
\* flight has deleted it.
ClaimStillValid ==
    \A t \in Consumers : task[t].pc = "claimed" =>
        /\ runs[task[t].run] # NoRun
        /\ runs[task[t].run] = task[t].loaded
        /\ task[t].loaded.status = "pending"
        /\ enabled[task[t].loaded.job]
        /\ ~LockedByOther(t, task[t].run)
        /\ task[t].run \notin clear.held

\* No run is executed by two tasks at the same time.  With one scheduler
\* replica and executions that end within their lease this holds whatever
\* users, HTTP workers and crashes do.
OneExecutorPerRun ==
    \A t, u \in Tasks :
        t # u /\ Live(t) /\ Live(u) => task[t].run # task[u].run

\* A run that has ended keeps its status until a clear deletes it.  Nothing
\* in update_status sees to it: it holds with one scheduler replica, with
\* executions that end within their lease, and as long as no request reports
\* on runs, because only then a run that is put back has no worker that
\* still reports.  A worker that is later than its lease does overwrite the
\* status of a run somebody else has finished.
FinishedStays ==
    [][\A r \in RunIds :
          runs[r] # NoRun /\ runs[r].status \in Finished =>
              \/ runs'[r] = NoRun
              \/ runs'[r].status = runs[r].status]_vars

\* A run is retried at most once, so a trigger leads to at most
\* max_retry + 1 attempts, one after the other, although crashed and released
\* runs are executed again.  As above: one scheduler, executions within their
\* lease, no request on runs; two reports on one run insert two retries.
SingleRetry ==
    \A r, q \in RunIds :
        /\ runs[r] # NoRun /\ runs[q] # NoRun
        /\ runs[r].retry_of # NULL
        /\ runs[r].retry_of = runs[q].retry_of
        => r = q

\* A run that has left the queue has, for each dependency of its job, an
\* upstream run with the required status: dequeue_next_run never starts a
\* run before its upstream jobs, whatever other consumers and clears do
\* between its queries.  It is said of the runs that were inserted after the
\* last clear was committed: a run inserted while a clear is in flight may be
\* started on upstream rows that are deleted but not yet committed, and
\* outlive them.
UpstreamFirst ==
    \A r \in RunIds : runs[r] # NoRun /\ runs[r].status # "pending" /\ r >= clear.last =>
        \A d \in Deps[runs[r].job] : \E q \in RunIds :
            runs[q] # NoRun /\ runs[q].job = d.up /\ runs[q].status = d.required

\* update_dependencies accepts circles.  The jobs of a circle block each
\* other and stay blocked: as long as no request reports on runs, none of
\* their runs ever leaves the queue, however often they are triggered and
\* whatever clears, crashes and releases do to the rows the checks look at.
Circular(S) == S \subseteq Jobs /\ \A j \in S : \E d \in Deps[j] : d.up \in S

CirclesWait ==
    \A S \in SUBSET Jobs : Circular(S) =>
        \A r \in RunIds :
            runs[r] # NoRun /\ runs[r].job \in S => runs[r].status = "pending"

\* Every run of a job without dependencies ends, or waits for its external
\* result, unless users delete it or disable its job: queued runs are served,
\* runs that wait for their upstream jobs hold nobody else up, a clear that
\* fails or waits blocks nobody for ever, and a run whose worker died or could
\* not report is released and executed again.  Executions end within their
\* lease, and crashes and failures are finitely many: a run whose output the
\* database rejects each time is executed for ever.
AllRunsEnd ==
    \A r \in RunIds :
        (runs[r] # NoRun /\ Deps[runs[r].job] = {}) ~>
            \/ runs[r] = NoRun
            \/ ~enabled[runs[r].job]
            \/ runs[r].status \in Finished \cup {"awaiting_result"}

\* Every running run carries a lease, so that the scheduler can release it
\* when its worker dies: as long as only workers and schedulers write runs,
\* no order of claims, crashes, stale releases and reports loses the lease.
RunningHasLease ==
    \A r \in RunIds :
        runs[r] # NoRun /\ runs[r].status = "running" => runs[r].locked_until # NULL

-----------------------------------------------------------------------------
(* The life of a run, as RunLife promises it.  A run is held by the task     *)
(* that executes it; a task whose run was deleted holds nothing.            *)

Holders(r) == {t \in Tasks : runs[r] # NoRun /\ Live(t) /\ task[t].run = r}

Holder(r) == IF Holders(r) = {} THEN NULL ELSE CHOOSE t \in Holders(r) : TRUE

Life == INSTANCE RunLife WITH
            Workers <- Tasks,
            phase   <- [r \in RunIds |-> Phase(runs[r])],
            holder  <- [r \in RunIds |-> Holder(r)],
            next    <- nextRun

\* Leases, snapshots and column-wise commits implement the simple life of a
\* run: whatever order dequeues, reports, crashes, releases and clears take,
\* only the worker that holds a run ends it, only a run nobody holds is put
\* back, and a retry is queued in the very step that ends the run.  It holds
\* for one scheduler, executions within their lease and no request on runs.
ImplementsRunLife == Life!Spec
=============================================================================
