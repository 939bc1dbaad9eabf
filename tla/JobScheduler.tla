---------------------------- MODULE JobScheduler ----------------------------
(***************************************************************************)
(* The jobs table: the requests that create, change and delete a job        *)
(* (job_controller, JobService.create_job), the normalisation they all end  *)
(* with (Job.sync_domain_logic), and the scheduler replicas that scan for   *)
(* due jobs (JobService.scan_due_jobs in scheduler_loop.main).              *)
(*                                                                         *)
(* A request loads the row, changes its copy and commits later; the commit  *)
(* writes only the columns that differ from what was loaded.  A scan locks  *)
(* the rows it finds (FOR UPDATE SKIP LOCKED) until its own commit, and     *)
(* requests wait for the lock.                                             *)
(*                                                                         *)
(* next_run_at is the time left until the job is due, in ticks; Past stands *)
(* for any earlier instant.                                                *)
(***************************************************************************)
EXTENDS Integers

CONSTANTS
    Jobs,        \* job ids; an id is used once
    Gated,       \* the jobs that have dependencies
    Schedulers,  \* scheduler replicas
    Clients,     \* HTTP requests that may be in flight at once
    Statuses,    \* the job statuses users ask for
    Rules,       \* the schedule rules users ask for
    Interval,    \* N of "every:Ns"
    CronPeriod,  \* distance between two occurrences of the cron expression
    MaxCrashes,  \* bound on the number of scheduler crashes
    NULL, NoJob, Deleted

Active == {"enabled", "active"}

JobStatus == Active \cup {"paused", "disabled", "deleted"}

Rule == {"manual", "every", "cron", "invalid"}

Past == -1

ASSUME JobSchedulerAssumption ==
    /\ Gated \subseteq Jobs
    /\ Statuses \subseteq JobStatus
    /\ Rules \subseteq Rule
    /\ Interval \in Nat
    /\ CronPeriod \in Nat \ {0}
    /\ MaxCrashes \in Nat
    /\ NULL \notin {"update", "delete"} \cup JobStatus \cup Rule \cup Int \cup Jobs
    /\ NoJob # Deleted

Instant == {Past} \cup 0..Interval \cup 0..CronPeriod

Job ==
    [status : JobStatus, enabled : BOOLEAN, rule : Rule, next_run_at : Instant \cup {NULL}]

Columns == {"status", "enabled", "rule", "next_run_at"}

ASSUME NoJobAssumption == {NoJob, Deleted} \cap Job = {}

VARIABLES
    jobs,       \* the jobs table
    phase,      \* ticks until the next occurrence of the cron expression
    req,        \* the requests in flight
    scan,       \* the scheduler replicas
    scheduled,  \* the jobs the last step inserted a run for
    touched,    \* the jobs whose row a request has changed in the last step
    crashes

vars == <<jobs, phase, req, scan, scheduled, touched, crashes>>

\* a step that neither schedules a job nor commits a change of one
Quiet == scheduled' = {} /\ touched' = {}

-----------------------------------------------------------------------------
(* Domain logic.                                                           *)

\* compute_next_run returns, and does not raise ValueError
Computable(rule) == rule \in {"every", "cron"}

\* compute_next_run from now
ComputeNextRunSkips(rule) == IF rule = "every" THEN Interval ELSE phase + CronPeriod

ComputeNextRun(rule) == IF rule = "every" THEN Interval ELSE phase

\* Job.sync_domain_logic
SyncKeepsNextRun(row) ==
    LET on == row.status \in Active IN
    [row EXCEPT !.enabled = on,
                !.next_run_at =
                    IF on /\ Computable(row.rule) THEN ComputeNextRun(row.rule)
                    ELSE IF on THEN @ ELSE NULL]

SyncDomainLogic(row) ==
    LET on == row.status \in Active IN
    [status      |-> row.status,
     enabled     |-> on,
     rule        |-> row.rule,
     next_run_at |-> IF on /\ Computable(row.rule) THEN ComputeNextRun(row.rule) ELSE NULL]

\* the columns the session will write
Dirty(loaded, new) == {c \in Columns : loaded[c] # new[c]}

WriteBack(cur, new, cols) ==
    [status      |-> IF "status" \in cols THEN new.status ELSE cur.status,
     enabled     |-> IF "enabled" \in cols THEN new.enabled ELSE cur.enabled,
     rule        |-> IF "rule" \in cols THEN new.rule ELSE cur.rule,
     next_run_at |-> IF "next_run_at" \in cols THEN new.next_run_at ELSE cur.next_run_at]

Exists(j) == jobs[j] \notin {NoJob, Deleted}

Locked(j) == \E s \in Schedulers : j \in scan[s].jobs

\* the filter of scan_due_jobs
Due(j) ==
    /\ Exists(j)
    /\ jobs[j].enabled /\ jobs[j].status \in Active
    /\ jobs[j].next_run_at # NULL /\ jobs[j].next_run_at <= 0

-----------------------------------------------------------------------------
IdleRequest == [op |-> NULL, job |-> NULL, new |-> NoJob, cols |-> {}, stale |-> FALSE]

UpdateRequest(j, new, cols) ==
    [op |-> "update", job |-> j, new |-> new, cols |-> cols, stale |-> FALSE]

DeleteRequest(j, stale) ==
    [op |-> "delete", job |-> j, new |-> NoJob, cols |-> {}, stale |-> stale]

Request ==
    [op : {"update"}, job : Jobs, new : Job, cols : SUBSET Columns, stale : {FALSE}]
    \cup [op : {"delete"}, job : Jobs, new : {NoJob}, cols : {{}}, stale : BOOLEAN]
    \cup {IdleRequest}

\* next: what compute_next_run yields for the jobs the scan holds
IdleScan == [pc |-> "idle", jobs |-> {}, next |-> [j \in Jobs |-> NULL]]

Scan ==
    [pc : {"idle", "scanning", "releasing"}, jobs : SUBSET Jobs,
     next : [Jobs -> Instant \cup {NULL}]]

TypeOK ==
    /\ jobs \in [Jobs -> Job \cup {NoJob, Deleted}]
    /\ phase \in 1..CronPeriod
    /\ req \in [Clients -> Request]
    /\ scan \in [Schedulers -> Scan]
    /\ scheduled \subseteq Jobs /\ touched \subseteq Jobs
    /\ crashes \in 0..MaxCrashes

Init ==
    /\ jobs = [j \in Jobs |-> NoJob]
    /\ phase = CronPeriod
    /\ req = [c \in Clients |-> IdleRequest]
    /\ scan = [s \in Schedulers |-> IdleScan]
    /\ scheduled = {} /\ touched = {}
    /\ crashes = 0

-----------------------------------------------------------------------------
(* Requests.                                                               *)

\* create_job
CreateJob(j, status, rule) ==
    /\ jobs[j] = NoJob
    /\ jobs' = [jobs EXCEPT ![j] =
           SyncDomainLogic([status |-> status, enabled |-> TRUE, rule |-> rule,
                            next_run_at |-> NULL])]
    /\ Quiet
    /\ UNCHANGED <<phase, req, scan, crashes>>

\* get_job_or_404, the changes of the payload and sync_domain_logic, of
\* update_job and of set_job_enabled; NULL: the field is not in the payload
UpdateLoad(c, j, status, rule) ==
    /\ req[c] = IdleRequest
    /\ Exists(j)
    /\ LET new == SyncDomainLogic(
                      [jobs[j] EXCEPT !.status = IF status = NULL THEN @ ELSE status,
                                      !.rule   = IF rule = NULL THEN @ ELSE rule])
       IN req' = [req EXCEPT ![c] = UpdateRequest(j, new, Dirty(jobs[j], new))]
    /\ Quiet
    /\ UNCHANGED <<jobs, phase, scan, crashes>>

\* the commit: nothing to write, or an UPDATE, which fails if the row is gone
UpdateCommit(c) ==
    /\ req[c].op = "update"
    /\ LET j == req[c].job IN
       \/ (req[c].cols = {} \/ ~Exists(j)) /\ UNCHANGED jobs /\ touched' = {}
       \/ /\ Exists(j) /\ ~Locked(j)
          /\ jobs' = [jobs EXCEPT ![j] = WriteBack(@, req[c].new, req[c].cols)]
          /\ touched' = {j}
    /\ req' = [req EXCEPT ![c] = IdleRequest]
    /\ scheduled' = {}
    /\ UNCHANGED <<phase, scan, crashes>>

\* delete_job loads the runs and their logs with the job
DeleteLoad(c, j) ==
    /\ req[c] = IdleRequest
    /\ Exists(j)
    /\ req' = [req EXCEPT ![c] = DeleteRequest(j, FALSE)]
    /\ Quiet
    /\ UNCHANGED <<jobs, phase, scan, crashes>>

\* The commit fails on a row that is gone.  A run that a scan has inserted in
\* between is deleted with the job (schema.sql, ON DELETE CASCADE) or, where
\* init_db has created the tables, makes it fail (foreign key).
DeleteCommit(c) ==
    /\ req[c].op = "delete"
    /\ LET j == req[c].job IN
       \/ (req[c].stale \/ ~Exists(j)) /\ UNCHANGED jobs /\ touched' = {}
       \/ /\ Exists(j) /\ ~Locked(j)
          /\ jobs' = [jobs EXCEPT ![j] = Deleted]
          /\ touched' = {j}
    /\ req' = [req EXCEPT ![c] = IdleRequest]
    /\ scheduled' = {}
    /\ UNCHANGED <<phase, scan, crashes>>

-----------------------------------------------------------------------------
(* One iteration of a scheduler: the scan in two steps, then                *)
(* release_expired_locks.                                                  *)

ScanLoadIgnoringLocks(s) ==
    /\ scan[s].pc = "idle"
    /\ LET due == {j \in Jobs : Due(j)} IN
       scan' = [scan EXCEPT ![s] =
           [pc   |-> "scanning",
            jobs |-> due,
            next |-> [j \in Jobs |-> IF j \in due /\ Computable(jobs[j].rule)
                                     THEN ComputeNextRun(jobs[j].rule) ELSE NULL]]]
    /\ Quiet
    /\ UNCHANGED <<jobs, phase, req, crashes>>

ScanLoad(s) ==
    /\ scan[s].pc = "idle"
    /\ LET due == {j \in Jobs : Due(j) /\ ~Locked(j)} IN
       scan' = [scan EXCEPT ![s] =
           [pc   |-> "scanning",
            jobs |-> due,
            next |-> [j \in Jobs |-> IF j \in due /\ Computable(jobs[j].rule)
                                     THEN ComputeNextRun(jobs[j].rule) ELSE NULL]]]
    /\ Quiet
    /\ UNCHANGED <<jobs, phase, req, crashes>>

\* are_dependencies_satisfied: always for a job without dependencies
Satisfiable(s) == {sat \in SUBSET scan[s].jobs : scan[s].jobs \ Gated \subseteq sat}

\* Every satisfied job gets a run and its next occurrence, in one commit.
ScanCommitGivesUp(s) ==
    /\ scan[s].pc = "scanning"
    /\ \E sat \in Satisfiable(s) :
        /\ \A j \in sat : scan[s].next[j] # NULL
        /\ IF sat = scan[s].jobs
           THEN /\ jobs' = [j \in Jobs |->
                       IF j \in sat THEN [jobs[j] EXCEPT !.next_run_at = scan[s].next[j]]
                                    ELSE jobs[j]]
                /\ scheduled' = sat
           ELSE UNCHANGED jobs /\ scheduled' = {}
    /\ scan' = [scan EXCEPT ![s] = [IdleScan EXCEPT !.pc = "releasing"]]
    /\ touched' = {}
    /\ UNCHANGED <<phase, req, crashes>>

ScanCommitMovesSkipped(s) ==
    /\ scan[s].pc = "scanning"
    /\ \E sat \in Satisfiable(s) :
        /\ \A j \in sat : scan[s].next[j] # NULL
        /\ jobs' = [j \in Jobs |->
               IF j \in scan[s].jobs THEN [jobs[j] EXCEPT !.next_run_at = scan[s].next[j]]
                                     ELSE jobs[j]]
        /\ scheduled' = sat
    /\ scan' = [scan EXCEPT ![s] = [IdleScan EXCEPT !.pc = "releasing"]]
    /\ touched' = {}
    /\ UNCHANGED <<phase, req, crashes>>

ScanCommit(s) ==
    /\ scan[s].pc = "scanning"
    /\ \E sat \in Satisfiable(s) :
        /\ \A j \in sat : scan[s].next[j] # NULL
        /\ jobs' = [j \in Jobs |->
               IF j \in sat THEN [jobs[j] EXCEPT !.next_run_at = scan[s].next[j]]
                            ELSE jobs[j]]
        /\ req' = [c \in Clients |->
               IF req[c].op = "delete" /\ req[c].job \in sat
               THEN DeleteRequest(req[c].job, TRUE) ELSE req[c]]
        /\ scheduled' = sat
    /\ scan' = [scan EXCEPT ![s] = [IdleScan EXCEPT !.pc = "releasing"]]
    /\ touched' = {}
    /\ UNCHANGED <<phase, crashes>>

\* compute_next_run raises for a satisfied job: nothing is committed, and
\* the iteration ends without release_expired_locks
ScanRaises(s) ==
    /\ scan[s].pc = "scanning"
    /\ \E sat \in Satisfiable(s) : \E j \in sat : scan[s].next[j] = NULL
    /\ scan' = [scan EXCEPT ![s] = IdleScan]
    /\ Quiet
    /\ UNCHANGED <<jobs, phase, req, crashes>>

\* release_expired_locks (module JobRuns), then the sleep
ReleaseLocks(s) ==
    /\ scan[s].pc = "releasing"
    /\ scan' = [scan EXCEPT ![s] = IdleScan]
    /\ Quiet
    /\ UNCHANGED <<jobs, phase, req, crashes>>

SchedulerCrash(s) ==
    /\ crashes < MaxCrashes
    /\ scan[s] # IdleScan
    /\ scan' = [scan EXCEPT ![s] = IdleScan]
    /\ crashes' = crashes + 1
    /\ Quiet
    /\ UNCHANGED <<jobs, phase, req>>

-----------------------------------------------------------------------------
(* Time.  Every instant the processes hold comes one tick nearer.           *)

Earlier(t) == IF t \in {NULL, Past} THEN t ELSE t - 1

EarlierRow(row) ==
    IF row \in {NoJob, Deleted} THEN row
    ELSE [row EXCEPT !.next_run_at = Earlier(@)]

Tick ==
    /\ jobs' = [j \in Jobs |-> EarlierRow(jobs[j])]
    /\ phase' = IF phase = 1 THEN CronPeriod ELSE phase - 1
    /\ req' = [c \in Clients |-> [req[c] EXCEPT !.new = EarlierRow(@)]]
    /\ scan' = [s \in Schedulers |->
           [scan[s] EXCEPT !.next = [j \in Jobs |-> Earlier(scan[s].next[j])]]]
    /\ Quiet
    /\ UNCHANGED crashes

-----------------------------------------------------------------------------
SchedulerStep(s) == ScanLoad(s) \/ ScanCommit(s) \/ ScanRaises(s) \/ ReleaseLocks(s)

Next ==
    \/ \E j \in Jobs, status \in Statuses, rule \in Rules : CreateJob(j, status, rule)
    \/ \E c \in Clients, j \in Jobs :
          \/ \E status \in Statuses \cup {NULL}, rule \in Rules \cup {NULL} :
                UpdateLoad(c, j, status, rule)
          \/ DeleteLoad(c, j)
    \/ \E c \in Clients : UpdateCommit(c) \/ DeleteCommit(c)
    \/ \E s \in Schedulers : SchedulerStep(s) \/ SchedulerCrash(s)
    \/ Tick

Spec == Init /\ [][Next]_vars

(* The scheduler's loop runs for ever and time passes; nothing is assumed of *)
(* users.  A job's dependencies need not ever be satisfied.                  *)
Fairness == (\A s \in Schedulers : WF_vars(SchedulerStep(s))) /\ WF_vars(Tick)

FairSpec == Spec /\ Fairness

-----------------------------------------------------------------------------
(* Properties.                                                             *)

\* The three columns that decide about scheduling are derived from one
\* another by sync_domain_logic and then written one by one: enabled follows
\* status, and a job has a next_run_at only while it is enabled and its rule
\* has a next occurrence.  With one request at a time this holds whatever
\* the scheduler replicas do between its load and its commit.
RowConsistent ==
    \A j \in Jobs : Exists(j) =>
        /\ jobs[j].enabled <=> jobs[j].status \in Active
        /\ jobs[j].next_run_at # NULL => jobs[j].enabled /\ Computable(jobs[j].rule)

\* A scan inserts a run only for a job that exists, is switched on and is due
\* at the commit, however many replicas scan and whatever requests change
\* the job meanwhile; so an occurrence yields at most one run.
ScheduledWhenDue == [][\A j \in scheduled' : Due(j)]_vars

\* No occurrence is lost: a job that is due stays due until a scan inserts its
\* run, however long its dependencies keep it waiting and however many scans
\* skip its row, fail on another job or crash; only a request that changes
\* the job itself takes the occurrence away.
OccurrenceKept == [][\A j \in Jobs : Due(j) /\ ~Due(j)' => j \in scheduled' \cup touched']_vars

\* A job that is due and waits for no dependencies gets its run, unless a
\* request changes the job first: being skipped, a scan that fails and a
\* replica that dies only delay it.
DueJobScheduled ==
    \A j \in Jobs \ Gated : Due(j) ~> j \in scheduled \cup touched

\* Some scheduler replica reaches release_expired_locks again and again:
\* no job keeps the iterations from getting there.
SchedulerSweeps == []<>(\E s \in Schedulers : scan[s].pc = "releasing")

\* A job whose rule has no next occurrence ("manual", or a rule
\* compute_next_run rejects) has no next_run_at.
NoStrayNextRun ==
    \A j \in Jobs : Exists(j) /\ ~Computable(jobs[j].rule) => jobs[j].next_run_at = NULL
=============================================================================
