# A TLA+ model of the distributed job scheduler

The system runs user-defined jobs. A PostgreSQL database holds the jobs and their
runs; a FastAPI backend changes them on request; scheduler processes insert runs
for jobs that are due and put abandoned runs back into the queue; worker
processes take runs from the queue, execute them and report the result. The
processes share nothing but the database, and any of them may be replicated or
die at any time. What can go wrong lies in the order of their transactions.

Paths below are relative to `src/`; `backend/app/` is written `app/`.

## 1. Inventory

| Component | Code | State it keeps | Operations |
|---|---|---|---|
| run queue | `app/application/services/job_run_service.py`, `job_run_repository.py`, `job_run.py`, the run and worker routers | table `job_runs`: status, `locked_by`, `locked_until`, `end_time`, `retry_count` | dequeue, finish (with automatic retry), cancel, retry, release of expired locks, heartbeat, trigger, clear |
| job table and scheduler | `job_service.py`, `job_controller.py`, `job.py`, `schedule_utils.py`, `scheduler_loop.py` | table `jobs`: status, enabled, `schedule_rule`, `next_run_at` | create, update, enable, disable, delete, scan for due jobs |
| worker process | `app/services/worker_loop.py` | tasks, a semaphore, an event, a LISTEN connection | the main loop, the event listener, `run_job_task` |
| executor | `app/application/services/executor.py` | a child process or an HTTP request | nine action types |
| status poller | `app/services/status_poller.py` | the runs loaded by its session | one pass over the runs in `awaiting_result` |
| job definition | `frontend/ui/forms.py`, `views.py`, `job_schema.py`, `job_controller.py`, `job_service.py` | table `jobs`: `action_type`, `task_type`, `script`, `action_payload`, `schedule_rule` | create and edit forms, PUT requests, the copy of a job into a run |
| job dependencies | `job_dependency.py`, `Job.are_dependencies_satisfied`, `JobService.update_dependencies` | table `job_dependencies` | check at scan and dequeue, insert on create, reconcile on update, clear on delete |
| job catalogue | `job_service.py`, `job_controller.py`, `job_run_controller.py` | `task_name` and `user_id` of `jobs`, `user_id` of `job_runs` | create, rename and delete; who may open, list, trigger and retry what |
| notification trigger | `backend/database/schema.sql` | none | NOTIFY when a run becomes pending |
| stored functions | `backend/database/schema.sql`, migration 005 | the same tables | the queue once more, for SQL clients |
| QueueService | `app/domain/services/queue_service.py` | the same tables | an older copy of dequeue that nothing imports |
| accounts, dashboard, metrics, logs, other pages | `app/core/security.py`, the remaining routers and controllers, `frontend/ui` | users, log lines | stateless checks, read-only queries, appends |
| deployment | `k3s/`, `deploy/` | none | replica counts, the environment |

**How they interact.** Requests, schedulers, workers and the poller meet in the
tables `jobs` and `job_runs`. `scan_due_jobs` and `trigger_job` copy a job into a
run; the trigger function notifies the listeners of worker processes; a task
dequeues the run, gives its payload to the executor and finishes it with the
executor's result; a failed run inserts its retry; an `api_poll` run is left in
`awaiting_result` for the poller; the scheduler's loop releases what a dead
worker has left behind.

**What is hard.**

* A transaction reads a row, decides, and commits later. The session then writes
  only the columns that differ from what it *loaded* (`UPDATE` by primary key), so
  two of them can leave a row that neither would have written.
* Only the dequeue and the scan lock rows (`FOR UPDATE SKIP LOCKED`); releases,
  finish reports, cancels, updates and the poller do not.
* Names and dependencies are looked up first and written later; deletions and other
  saves come in between, and only the constraints of the tables notice.
* A worker that has lost its lease still reports; a scheduler acts on leases it
  found expired some time ago.
* Workers and schedulers die between any two commits, and a commit may fail.
* A clear deletes rows that others see until its commit, and what is inserted
  meanwhile survives it.
* In one worker process, events, timeouts and task ends race for a fixed number of
  slots, and NOTIFYs may be lost.
* A program may exit, hang, fork, or print what looks like a timeout, in the
  instant its limit passes.
* A script travels through three field names, two keys and a column, each reader
  preferring another.

**What makes each component correct.** The queue: one executor per run, a lease on
everything that runs, bounded retries, finished runs stay finished, upstream jobs
first, every run ends. The scheduler: columns that agree, one run per due
occurrence and none lost, a scan that cannot be blocked by one job. The worker: bounded tasks, no
lost slot, a queue that drains. The executor: a report that is true, no process
left, an end in any case. The poller: each result applied once. The job
definition: what a user saved is what is executed, and executed again by a retry. The
catalogue: names that mean one job, references that join rows, saved dependencies that
stay in force, runs that a user can open only if he can open their job (a worker's pull
hands a run to any caller with a token, whoever owns it).

`PROJECT.json` lists the hazards one by one with the line at which each bites and
the properties that cover it.

## 2. Modules

| Module | Contents |
|---|---|
| `RunTable` | pure operators: columns of a run, `JobRun.complete`/`start`, claim, release, retry, the queries, the session's write-back |
| `JobRuns` (EXTENDS `RunTable`) | the run queue: all processes that touch `job_runs` |
| `RunLife` | what the queue promises: the life of a run, without rows, leases and sessions; `JobRuns` instantiates it under a refinement mapping |
| `StatusPoller` (EXTENDS `JobRuns`) | the queue composed with the poller |
| `JobScheduler` | the `jobs` table, its requests and the scheduler's scan |
| `JobCatalog` | names, owners and dependencies of jobs, the owners of runs, and the requests that change them |
| `WorkerLoop` | one worker process |
| `Executor` | one execution, from `execute_job` to the reported status |
| `JobDefinition` | from forms and requests to what the next run executes |
| `MC*` | instances for TLC |
| `JobRunsProofs`, `JobRunsLife`, `StatusPollerProofs`, `JobCatalogProofs`, `JobSchedulerProofs`, `WorkerLoopProofs`, `ExecutorProofs`, `JobDefinitionProofs` | theorems |

Operators whose names say what is wrong with them (`ClaimTooLong`,
`ScanLoadIgnoringLocks`, `TimeoutWithoutKill`, ...) stand before the definition they
vary. No specification uses them: they are plausible mistakes, listed under
"mutants" in `PROJECT.json`, and each property is known to fail for at least one.

### RunTable and JobRuns

A run is a row with the columns that decide its life; ids are handed out in the
order of `created_at`. `locked_until` is the time left of the lease, in ticks,
saturating at `Expired`. `retry_of` is the run named in the log line a retry
writes. `WriteBack` is SQLAlchemy's unit of work.

* `DequeueSelect`, `DequeueCheck`, `DequeueNone`, `DequeueCommit` are `dequeue_next_run`:
  the locking query, one query of `are_dependencies_satisfied`, the end of the loop, the
  commit. The locking query joins `jobs`, so `FOR UPDATE` locks the run's and the job's
  row; rows skipped for their dependencies stay locked until the transaction ends. Inserts
  wait for a locked job row because of the foreign key. Each dependency is looked at in
  the table as it is committed then, in any order.
* `TaskLoad`, `TaskFinish`, `TaskAwait` are the rest of `run_job_task`. The commit of
  `add_log` expires the instance, so the row is loaded once more just before the
  execution; `finish_run`'s `get_run` afterwards returns that same instance from the
  identity map, which is why a finish works on the state *before* the execution.
* `ReleaseLoad`, `ReleaseCommit` are `release_expired_locks`.
* `RequestLoad`, `RequestCommit` are cancel, `POST /workers/{id}/finish` and retry.
* `Trigger` (also the insert of `scan_due_jobs`), `SetEnabled`.
* `ClearStart`, `ClearRow`, `ClearCommit` are `clear_all_runs`: the `DELETE` sees the rows
  committed when it starts, deletes them one by one, waiting for those that are locked,
  and the commit makes it visible. Until then dependency checks see the deleted rows;
  rows inserted after the start stay. One clear at a time.
* `PodCrash`, `SchedulerCrash`, `Tick`, and `TaskFails`, `ClearFails`: a transaction that
  raises. After a `finish_run` that raised, the handler of `run_job_task` calls it again on
  a session that was not rolled back, so nothing is written and the run stays running.

A commit that touches a deleted row fails (`StaleDataError`, `IntegrityError`) and
changes nothing. Tasks of one pod share an event loop; between the start of a
dequeue and the execution there is no await (`LoopFree`). Left out because nothing
decides by them: `heartbeat_at` (written, never read, so that a heartbeat is a step that
changes nothing here), `start_time`, `worker_id` of
the run, output columns; a finish with a status outside the known ones changes no
column kept here. `max_retry` and dependencies are constant. `delete_job` is in
`JobCatalog`.

### RunLife

Seven operations on a phase and a holder: `Submit`, `Take`, `End` (which may submit the
retry in the same step), `Await`, `Lose` (a worker dies or cannot report), `Requeue` and
`Clear` (of the runs submitted before some run). In the queue a clear is the step of its commit. In `JobRuns` the phase is read off the row's status and the holder is the task that
executes the run; leases, snapshots, locks and the scheduler's batch are hidden. That
`JobRuns` implements it says, among other things, that only the holder ends a run, that
a scheduler puts back only what nobody holds, and that a stale commit is invisible. It
needs one scheduler and executions within their lease, and no cancel or finish request
(those end runs that others hold, by intention).

### StatusPoller

`PollLoad`, `PollNext`, `PollNoResult`, `PollFinish`, `PollDone`, `PollerCrash`. The
poller's session keeps the runs of its first query until its first commit expires
all of them; an expired instance is loaded again, and one that is gone raises and
ends the pass. No manifest under `k3s/` or `deploy/` starts the poller.

### JobScheduler

`next_run_at` is the time left in ticks. `UpdateLoad`/`UpdateCommit` are
`update_job` and `set_job_enabled`; `DeleteLoad`/`DeleteCommit` are `delete_job`. A run
inserted after it loaded the job's runs is deleted with the job where `schema.sql` has
created the tables (`ON DELETE CASCADE`; docker-compose and `k3s/`), and makes the commit
fail where `init_db` has (the entities' foreign keys); both are possible. `ScanLoad` locks the due rows
and fixes `now`; `ScanCommit` inserts a run and sets `next_run_at` for each job whose
dependencies hold (a free choice for the jobs in `Gated`); `ScanRaises` is the
`ValueError` of `compute_next_run`, which rolls everything back and skips
`ReleaseLocks`. `scheduled` and `touched` are the jobs the last step gave a run to and the
jobs a request changed in it: history for the properties about occurrences. Job ids are
used once. Row locks taken by dequeuing workers only
delay commits here and are left out.

### JobCatalog

A request is a read step and a commit step. `CreateLoad`/`CreateCommit` are `create_job`,
`UpdateLoad`/`UpdateCommit` are `update_job` with `update_dependencies`,
`DeleteLoad`/`DeleteCommit` are `delete_job`. The read step looks up names and access,
executes the `DELETE` of the dependency rows it sees (`cleared`) and resolves
`depends_on`; the commit fails on what another commit has changed since: UNIQUE names
and pairs, foreign keys, a row that is gone. Waiting for row locks is left out; it
only restricts the order of commits. The session does not flush before queries
(`autoflush=False`), so an update finds its own job under the old name. `TriggerJob`,
`ScheduleJob`, `RetryRun` and `AutoRetry` insert runs with the owner each of them gives;
a run is its job and its owner. `saved` is a history variable for `SavedDependencies`.

### WorkerLoop

Tasks are counted by stage (created, waiting, woken, executing). The semaphore is
that of Python 3.11: `release()` hands the slot to the first waiter, and `locked()`
is true while anyone waits. `Spawn` creates `MAX_CONCURRENT_JOBS` tasks at a time.
NOTIFYs reach only a listener that has executed LISTEN; the listener dies for good
at its first exception.

### Executor

`pc` follows one execution. `ProgramForks`, `ProgramExits`, `HeirsEnd` and `ApiAnswer`
belong to the world outside. `communicate()` returns when the process has ended and
no descendant holds its pipes; `TimeoutFires` kills the direct child only, and raises
`ProcessLookupError` when the process is gone with its pipes closed. httpx limits the
wait for the next bytes, not the whole request, so an HTTP action may last for ever.
Timers may fire up to `LoopDelay` late because `event_listener`'s `select` blocks the
loop. `ReportFails` is a report that raises (as `TaskFails` in `JobRuns`). A `working_dir` is
what `_resolve_working_dir` makes of it; a directory that is gone when it is used makes the
start raise (`StartRaises`). Where a path leads is a matter of the file system and is not
modelled.

### JobDefinition

`job` is the row, `wanted` what the form saved last asks for, `edited` whether updates
have left the action alone and whether one has replaced `action_payload` as a whole.
`CreatedJob` and `UpdatedJob` are `create_job` and `update_job`; `PrepareJobPayload` and
`PrepareInitialData` are the two directions of the form; `Line` and `Area` are what a
single-line input and a text area send back for the script they show (the input drops line
breaks, the area sends CR LF, `CharField` strips both), and `FieldAssumption` says what they
have in common: to pass a text through once more changes nothing further. `NewRun`, `PreparePayload`
and `Executed` are the way from the row to the executor, `RetryRun` the copy a retry
makes of a run. None, the empty string and
a missing key are kept apart. `SaveForm` may save any form, also one shown before
other updates. `UpdateJob` takes any `JobUpdate`, one with an `action_payload` of its own
included. Left out: `working_dir` and the HTTP method, which take the same way, creation by
API clients, and action types no form offers.

## 3. Runs

Every run ends within a few minutes on two workers.

| Run | Instance | What it shows |
|---|---|---|
| `JobRuns_requests` | 2 pods, 1 HTTP worker, 1 scheduler, 1 request at a time (cancel, fail, start, retry), trigger, enable, clear, 1 crash or failure, 2 runs | `TypeOK`; `ClaimStillValid`: a claim is still valid when it commits; `OneExecutorPerRun`; `LeaseColumnsAgree` and `RetryBound` under stale cancels and late reports |
| `JobRuns_workers` | a chain of 2 jobs, 2 pods, 1 scheduler, trigger, clear, 1 crash or failure, 3 runs, fair | `ImplementsRunLife` (refinement), `UpstreamFirst`, `RunningHasLease`, `FinishedStays`, `SingleRetry`, `RetryBound`, and `AllRunsEnd` (liveness) |
| `JobCatalog_requests` | an admin and a user, 2 names, 3 job ids, 2 requests at once, 2 runs, trigger, schedule, retry, clear | `TypeOK`, `NamesUnique`, `RowsJoin`, `SavedDependencies`, `RunsOpenTheirJobs` |
| `StatusPoller_poll` | 3 jobs, 2 of them in a circle, 1 worker, 1 scheduler, 1 poller, trigger, clear, 1 crash or failure, 3 runs | `PolledOnce`, `AwaitingStays`, `CirclesWait`, `PollTypeOK` |
| `JobScheduler_requests` | 2 schedulers, 1 gated job, 4 kinds of rules, an interval of 0, 2 requests at once, 1 crash | `TypeOK`, `ScheduledWhenDue`, `OccurrenceKept` |
| `JobScheduler_jobs` | 2 schedulers, 2 jobs (one gated), 1 request at a time, 1 crash, fair | `RowConsistent`, and `DueJobScheduled`, `SchedulerSweeps` (liveness) |
| `WorkerLoop_process` | 3 slots, 6 runs, fair | `TypeOK`, `TasksBounded`, `NoIdleSlot`, and `QueueDrains` (liveness) |
| `Executor_reports` | every action and payload, limit 3, delay 1, fair | `TypeOK`, `ReportTrue`, `NoProcessLeft`, and `ExecutionReported` (liveness) |
| `JobDefinition_forms` | every form over 4 scripts (two of them one text of several lines with either line ending), 1 URL, 1 cron expression, 1 interval, 3 actions; requests that set one field or replace `action_payload` | `TypeOK`, `NoopSaveKeeps`, `CreatedFormExecuted`, `RetriedAlike` |
| `JobRuns_duplicate` | 2 schedulers | *violates* `OneExecutorPerRun` |
| `JobScheduler_stray` | 2 requests at once | *violates* `NoStrayNextRun` |
| `JobDefinition_edited` | shell scripts | *violates* `SavedFormExecuted` |

`Executor_reports` does not check for deadlock: an execution that is reported has
nothing left to do. All others do.

**Bounds and why they are enough.** The queue's properties are about two processes and
one run, or one run and its retry, so two consumers, one or two schedulers and two or
three runs show every kind of race (a circle takes two jobs, a third beside it is one
that can be satisfied); a lease of one tick has all three phases (valid, at the
deadline, expired); in `JobRuns_requests` it is zero ticks, which has the last two:
nothing tells a lease with time left from one at its deadline but the clock, and expired
leases of HTTP workers meet live tasks all the same. Two runs hold a run and its retry,
three reach the limit of one retry. Several schedulers beside executions that outlive
their lease are left to the theorems on `LeaseColumnsAgree` and `RetryBound`, which
assume nothing about either. One crash lets a run be abandoned and released, or ends the
scheduler that is about to release what an HTTP worker has abandoned; a failed
transaction counts as a crash, and the theorems hold for any number. In the scheduler,
interval 1 and period 2 make jobs due at different times and let a scan straddle an
occurrence; with interval 0 (`JobScheduler_requests`) a job is due again as soon as it
is scheduled. In the catalogue two names mean at most two jobs at a time, which is what
a race for a name, a circle of dependencies or two saves of one job take; the third id
is a job created after a deletion. One user beside the admin is enough, since the
admin's jobs are another user's jobs to him. Three slots let some tasks wait, some be
woken and some execute; six arrivals fill them twice. A limit of 3 in the executor is
beyond the two seconds a long task sleeps. Two scripts are what it takes to tell a name
from a content, two more to have line breaks in either form. The bounds are constants:
`MaxRuns`, `MaxJobs`, `MaxCrashes`, `MaxArrivals`, `MaxTime`.

Symmetry is used only in runs without liveness: schedulers are interchangeable, so
are pods together with their tasks, and so are the names and requests of the catalogue.

**Fairness.** Weak fairness for what the code repeats by itself: workers poll at
least every `POLL_INTERVAL` seconds, schedulers loop with a sleep, the event loop
runs what is ready, timers fire, time passes. A clear that has started is strongly fair:
while it waits for a locked row it is first in that row's queue, and `SKIP LOCKED` passes
the row over. Nothing is assumed of users, HTTP
workers, the listener, programs, services, the database, or of crashes, except that the
number of crashes and failures is bounded. Executions end: `ExecutionReported` shows it from the executor's own limit
for everything but the two HTTP actions (the report may fail), and `JobRuns` (`TaskStep`) and `WorkerLoop`
(`TaskEnds`) assume it. `BoundedExec` assumes more: that a task ends before its lease
of 3600 seconds. The code ensures that only for jobs whose `timeout_seconds` is
smaller, and not for HTTP actions.

## 4. Theorems

Proved with TLAPS for every value of the constants that satisfies the named
assumptions of the modules.

| Theorem | States | Extra assumption |
|---|---|---|
| `JobRunsProofs!TypeCorrect` | `TypeOK` | |
| `JobRunsProofs!LeaseColumns` | `LeaseColumnsAgree` | |
| `JobRunsProofs!RetriesBounded` | `RetryBound` | |
| `JobRunsProofs!ClaimsValid` | `ClaimStillValid` | |
| `JobRunsLife!OneExecutor` | `OneExecutorPerRun` | at most one scheduler, `BoundedExec` |
| `JobRunsLife!LeasesKept` | `RunningHasLease` | the same, and no requests on single runs |
| `JobRunsLife!FinishedForGood` | `FinishedStays` | the same |
| `JobRunsLife!RetriedOnce` | `SingleRetry` | the same |
| `JobRunsLife!UpstreamRunsFirst` | `UpstreamFirst` | the same |
| `JobRunsLife!CirclesStayBlocked` | `CirclesWait` | no requests on single runs |
| `JobRunsLife!QueueImplementsLife` | `ImplementsRunLife` | at most one scheduler, `BoundedExec`, no requests on single runs |
| `StatusPollerProofs!PollerTypes` | `PollTypeOK` | |
| `StatusPollerProofs!ResultsAppliedOnce` | `PolledOnce` | the same as for `JobRunsLife`, and one poller |
| `StatusPollerProofs!WaitingIsNotRequeued` | `AwaitingStays` | the same |
| `JobCatalogProofs!CatalogTypeCorrect` | `TypeOK` | |
| `JobCatalogProofs!UniqueNames` | `NamesUnique` | |
| `JobCatalogProofs!ReferencesHold` | `RowsJoin` | |
| `JobCatalogProofs!SavesInForce` | `SavedDependencies` | |
| `JobCatalogProofs!RunsBelongToJobs` | `RunsOpenTheirJobs` | |
| `JobSchedulerProofs!SchedulerTypes` | `TypeOK` | |
| `JobSchedulerProofs!OnlyDueScheduled` | `ScheduledWhenDue` | |
| `JobSchedulerProofs!OccurrencesKept` | `OccurrenceKept` | |
| `JobSchedulerProofs!ColumnsConsistent` | `RowConsistent` | at most one request at a time |
| `WorkerLoopProofs!TasksStayBounded` | `TasksBounded` | |
| `WorkerLoopProofs!SlotsNeverIdle` | `NoIdleSlot` | |
| `WorkerLoopProofs!WorkerTypeCorrect` | `TypeOK` | |
| `ExecutorProofs!ExecutorTypes` | `TypeOK` | |
| `ExecutorProofs!ReportsTrue` | `ReportTrue` | |
| `ExecutorProofs!ProcessEnded` | `NoProcessLeft` | |
| `JobDefinitionProofs!DefinitionTypes` | `TypeOK` | |
| `JobDefinitionProofs!CreatedFormsExecuted` | `CreatedFormExecuted` | |
| `JobDefinitionProofs!NoopSavesKeep` | `NoopSaveKeeps` | |
| `JobDefinitionProofs!RetriesAlike` | `RetriedAlike` | |

The extra assumptions are hypotheses of the theorems (`SingleScheduler`, `BoundedExec`,
`NoRequests`, `SinglePoller`), met by the instances of the runs `JobRuns_workers` and
`StatusPoller_poll`, and they are needed. The runs `JobRuns_duplicate` and
`JobScheduler_stray` refute `OneExecutorPerRun` with a second scheduler and the columns'
consistency with a second request. A cancel or a finish request changes the status of a
run that ended, was never started or is held by a worker, so nothing that says who may
change it survives one; section 5 has the case of the lease. A worker that reports after its lease overwrites the status of a run that
another worker has finished since, and inserts a second retry. A second poller that loaded a run before the first one finished it
finishes it again. The named assumptions of the
modules say that bounds are numbers, that markers such as `NULL` differ from the values
beside them, and that a dependency requires a final status (the CHECK of
`job_dependency.py:16`).

**The arguments.**

* *Queue* (`QueueInv`). The properties speak about rows, but a commit writes what a
  process loaded earlier, so they are not inductive. `QueueInv` adds what is true of
  every snapshot: it names an id already handed out, agrees with its row in the
  columns nobody writes, has its lock columns NULL together, and was running with a
  lease if a scheduler holds it; a claimed row is unchanged; row locks of two
  consumers are disjoint, jobs included, and disjoint from what a clear has deleted; a
  clear deletes nothing younger than its start. A step that only writes such snapshots back
  keeps all of it (`RowsEvolveKeeps`).
* *Exclusion* (`ExclusiveInv`). A live task's run is not pending, and the lease on it
  lasts at least as long as the task; so nothing a scheduler holds as expired belongs
  to a live task, and with one scheduler nobody else can requeue it before the commit.
* *Life of a run* (`LifeInv`). On top of `ExclusiveInv`: the run of a live task is
  running, and was when the task loaded it; what a scheduler holds as expired is still
  running; a claimed run inserted after the last clear has its upstream runs, but for the
  dependencies still to be looked at; and of the table alone, a run is marked
  as ended exactly when its status is final, and a run that has been retried has ended.
  The last two make "retried once" inductive: a retry is inserted in the step that ends
  its run, so that run had none before. `TableMoves` lists what a step may do to a row
  (keep, take, requeue or leave it) or insert; every action is shown to be such a move
  (or to delete rows), and the five facts about the table follow from the moves
  alone (`MovesKeep`). Final statuses never move, so satisfied dependencies stay satisfied
  (`UpstreamKept`) until a clear, and a clear deletes no run that was inserted after it
  started; a run older than its commit is excepted (`clear.last`).
* *Circles* (`CircleInv`). Needs neither a single scheduler nor bounded executions. A run
  of a circle is queued, so no dependency inside the circle is satisfied (`CircleBlocks`),
  so no dequeue can tick off the last of them and commit; and a run that was never started
  is in no task's or scheduler's hands.
* *Refinement* (`LifeRefines`). Under `LifeInv` each action maps to one operation of
  `RunLife` or to a stutter: `DequeueCommit` to `Take`, `TaskFinish` to `End` with or
  without the retry, `TaskAwait` to `Await`, `PodCrash` to `Lose` of the runs its tasks
  held, `TaskFails` to `Lose` of one, `ReleaseCommit` to `Requeue` of the batch, `Trigger` to
  `Submit`, `ClearCommit` to `Clear`. The holder is a CHOOSE over the tasks that execute a run; that there is one at
  most (`OneExecutorPerRun`) is what makes it a function of the state that moves as it should.
* *Poller* (`PollInv`). The refinement is used here: a run in phase `waiting` can only
  wait or be cleared by a step of the queue (`WaitingStays`). So the runs one poller still
  has on hand wait, and its snapshots of them are right; its commit ends one of them and
  touches no row that a task or a scheduler holds (`OutsideStep`). That ended runs keep their
  status and get no second retry is then a matter of the moves alone (`EndedOnce`).
* *Catalogue* (`CatalogInv`). A commit writes what its request read. Of every update in
  flight it says that its job's id is not handed out again, that it does not name itself,
  that the rows it deleted are rows of its job, and that they are all of them unless it is
  marked `raced`.
* *Scheduler* (`ScanInv`, `RowInv`). What a scan holds is due and held by no other
  scan, because requests wait for its locks. So a commit moves `next_run_at` of jobs it
  inserts a run for and of no others, time takes nothing back (`TickKeepsDue`), and what
  else ends an occurrence is a request. With one request the request's copy
  differs from the row only where the request changed it or the scan moved
  `next_run_at`, and merging the two is consistent again.
* *Worker* (`SlotInv`). The two bounds together with the types are inductive: `Spawn`
  requires that nobody waits and a slot is free. For the types of the queue's counters it
  takes in addition that no more runs are pending than have arrived.
* *Executor* (`Progress`). At each `pc` it says which actions are possible, that a live
  child means the program is awaited, and that a result about to be handled is true of the world (`ResultTrue`).
* *Job definition* (`OneScript`, `OneAction`). The two places of `action_payload` for a
  script hold the same text, unless a request has replaced the column; that is why an
  unchanged save, whatever `update_job` and the executor prefer, loses no more than the
  line breaks. While the action has not been changed either, the two columns for it agree, and a script in the column `script` is in
  `action_payload` too; that is why a retry may leave the columns out.

**Model-checked only.** The liveness properties (`AllRunsEnd`, `DueJobScheduled`,
`SchedulerSweeps`, `QueueDrains`, `ExecutionReported`): the prover does not handle
fairness and ENABLED. Every invariant, every action property and the refinement that a
run checks is also proved. Induction over data and RECURSIVE operators are out of the
prover's reach too; no module uses them.

## 5. Where code and documentation disagree

The three runs that end in a violation, and what is said otherwise, are under
"findings" in `PROJECT.json`:

1. `JobRuns_duplicate`: with two scheduler replicas (`k3s/hpa-scheduler.yaml` allows
   three) a stale `release_expired_locks` resets a run that another worker has locked
   since; a third dequeue executes it a second time.
2. `JobScheduler_stray`: two concurrent updates leave a manual job with a
   `next_run_at`; from then on every scan that finds it due raises.
3. `JobDefinition_edited`: the content of a script changed on the edit page is lost,
   because the page sends the old text as the script's name and `update_job` prefers it.

Seen while modelling, and not the subject of a run:

* Heartbeat: `API_DB_INTEGRATION.md:54` and `:197` say that heartbeats keep long tasks from
  being judged expired. `heartbeat` (`job_run_service.py:97`) writes `heartbeat_at` only, and
  `find_expired_runs` reads `locked_until` only: after 3600 seconds a run is put back into
  the queue while its worker still executes it. An instance of `JobRuns` with `BoundedExec`
  FALSE shows it (`OneExecutorPerRun` fails with one scheduler). The late worker then
  overwrites whatever status the second execution has reported.
* Deletion: `API_DB_INTEGRATION.md:50` and `README.md:268` speak of a soft delete (status
  `deleted`); `delete_job` deletes the row, its dependencies and its runs.
* Reports: output that PostgreSQL rejects (a NUL byte) makes `finish_run` raise, and the
  handler's second call on the same session too. The run stays running, is released after
  its lease and executed again, as often as it prints that byte.
* Clears: a run inserted while `clear_all_runs` is in flight can be started because its
  upstream run is still visible, and then outlive it. Without its last condition
  `UpstreamFirst` fails in `JobRuns_workers`.
* Requests on runs: `update_status` has no guard on the status and writes only what it
  changed against its own snapshot. A cancel that loaded the run pending and commits
  after a dequeue, and a second one that loaded the result and commits after a release
  and a new lock, leave the run running with `locked_until` NULL, which no scheduler
  releases; so does a finish report with status `running` for an ended run. Adding
  `RunningHasLease` to an instance of `JobRuns` with cancels shows it.
* Dependencies: two overlapping saves of one job add up (`SavedDependencies` says so);
  circles are accepted; the edit page offers the jobs its user may list, so an
  unchanged save drops dependencies on other users' jobs.
* Scripts: the edit page shows the whole script in the single-line field for its name
  (`forms.py:47`, `views.py:183`), and `update_job` prefers that field
  (`job_controller.py:110`), so saving the page unchanged turns a script of several lines
  into one line (`NoopSaveKeeps` names the case).
* `action_payload`: a request that sets it (`job_controller.py:120`) leaves the column
  `script`. Runs execute the column, their retries what the request has set (`RetriedAlike`
  excludes it).
* Owners: a run triggered by an admin belongs to the admin and is not listed for the
  owner of the job (`RunsOpenTheirJobs` is the direction that holds).
* The frontend's views ask only whether the session holds a token (`views.py:12`), not
  whether it has expired.
* A cron expression without a next occurrence makes `compute_next_run` raise in every
  scan that finds the job due, as in finding 2.

Smaller ones: `README.md:416` says disabled jobs
cannot be triggered by hand, `trigger_job` refuses only the trigger type `schedule`; the
example `every:5m` of `README.md:222` is rejected by `int("5m")` in the request schema;
an unprefixed cron string in `schedule_rule` becomes `manual`; an update with only
`interval_seconds` or `cron_expression` changes nothing; an interval without seconds is
stored as `every:Nones` and makes `GET /jobs` fail for all jobs; changing the action of a
job leaves `task_type`, so its runs go on with the old action while their retries, which
copy neither `task_type`, `script` nor `working_dir`, use the new one.

## 6. Not modelled

* The stored functions and `QueueService`: second implementations no process runs.
* Registration, passwords and tokens, dashboard, metrics, system status, log lines, the
  remaining pages and `demo_store`: stateless, read-only or append-only. Requests in the
  models are those that passed the token check. Accounts are never deleted or renamed.
* A change of dependencies while a run waits in the queue: the dequeue reads them anew,
  and `JobRuns` keeps them constant.
* A job deleted while its run is executed: in `JobRuns` its rows disappear as with
  a clear, which deletes all of them.
* Texts, output, headers, and the file system: the growth of the work directory, and a
  path that is replaced between `_resolve_working_dir` and its use.
* Two clears at once: the second waits for the rows of the first and finds them gone.
* Time zones and clock skew: all processes read one clock.

## 7. Plan

Done: the queue and the life of a run it implements, the poller, the scheduler, the
catalogue, the worker, the executor, the job definition, with their runs and the theorems
above. Next, in this order:

1. The queue composed with the poller as an implementation of a life of a run in which
   a waiting run ends; today only `JobRuns` alone is shown to implement `RunLife`.
2. What remains true of runs with late workers (`BoundedExec` FALSE) and beside cancels:
   lemmas about `RequestCommit` and `TaskFinish`, towards statements about leases and
   retries that need neither assumption.
3. `SqlClients`: `db_create_job_run`, `db_lock_pending_job` (which ignores dependencies)
   and `db_update_job_run_status` (which inserts no retry) beside the Python services.
4. `JobDefinition` with `working_dir`, and with jobs created by API clients.

New questions join existing runs as further properties where the instance fits.
