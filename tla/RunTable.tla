------------------------------ MODULE RunTable ------------------------------
(***************************************************************************)
(* The job_runs table as the services see it: the columns that control the  *)
(* life of a run, the domain operations of the entity JobRun, the queries   *)
(* of JobRunRepository and the way a SQLAlchemy session writes a row back.  *)
(* Pure operators only: the modules that extend this one hold the state.    *)
(*                                                                         *)
(* A run is a member of RunIds == 1..MaxRuns.  Ids are handed out in order, *)
(* so the order of ids is the order of created_at.                          *)
(*                                                                         *)
(* locked_until is kept as the time that is left of the lease, counted in   *)
(* ticks and saturating at Expired: "locked_until < now" is "the time left  *)
(* is negative", and nothing asks how long ago that happened.               *)
(***************************************************************************)
EXTENDS Integers, FiniteSets

CONSTANTS
    Jobs,         \* the jobs of the jobs table
    MaxRuns,      \* bound on the number of job_runs rows ever inserted
    WorkerIds,    \* the names workers give to dequeue_next_run
    MaxRetry,     \* Job.max_retry
    Deps,         \* job_dependencies: job -> set of [up, required]
    LockSeconds,  \* lock_seconds of dequeue_next_run, in ticks
    NULL,         \* SQL NULL
    NoRun         \* stands for a row that does not exist

Finished == {"success", "failed", "timeout", "canceled"}

Status == {"pending", "running", "awaiting_result"} \cup Finished

RunIds == 1..MaxRuns

Dependency == [up : Jobs, required : Finished]  \* required: a CHECK of the table

Expired == -1

Lease == Expired..LockSeconds

Row == [job          : Jobs,
        status       : Status,
        locked_by    : WorkerIds \cup {NULL},
        locked_until : Lease \cup {NULL},
        ended        : BOOLEAN,             \* end_time is not NULL
        retry_count  : Nat,
        retry_of     : RunIds \cup {NULL}]  \* the run named in the log line "Retry created"

Table == [RunIds -> Row \cup {NoRun}]

ASSUME RunTableAssumption ==
    /\ MaxRuns \in Nat
    /\ LockSeconds \in Nat
    /\ MaxRetry \in [Jobs -> Nat]
    /\ Deps \in [Jobs -> SUBSET Dependency]
    /\ NULL \notin WorkerIds \cup Int
    /\ NoRun \notin Row

-----------------------------------------------------------------------------
(* Domain operations of the entity.                                        *)

\* JobRun.complete after "run.status = status"
CompleteKeepsHolder(row, status) ==
    [row EXCEPT !.status = status, !.ended = TRUE, !.locked_until = NULL]

Complete(row, status) ==
    [row EXCEPT !.status       = status,
                !.ended        = TRUE,
                !.locked_by    = NULL,
                !.locked_until = NULL]

\* JobRun.start
Start(row) == [row EXCEPT !.status = "running"]

\* what dequeue_next_run assigns
ClaimTooLong(row, worker) ==
    [row EXCEPT !.status       = "running",
                !.locked_by    = worker,
                !.locked_until = LockSeconds + 1]

ClaimWithoutLease(row, worker) ==
    [row EXCEPT !.status = "running", !.locked_by = worker]

Claim(row, worker) ==
    [row EXCEPT !.status       = "running",
                !.locked_by    = worker,
                !.locked_until = LockSeconds]

\* what release_expired_locks assigns
Release(row) ==
    [row EXCEPT !.status       = "pending",
                !.locked_by    = NULL,
                !.locked_until = NULL]

\* a row inserted by trigger_job and by scan_due_jobs
NewRun(job) ==
    [job          |-> job,
     status       |-> "pending",
     locked_by    |-> NULL,
     locked_until |-> NULL,
     ended        |-> FALSE,
     retry_count  |-> 0,
     retry_of     |-> NULL]

\* the row inserted by retry_run(r)
RetryRunKeepsCount(row, r) ==
    [NewRun(row.job) EXCEPT !.retry_count = row.retry_count, !.retry_of = r]

RetryRun(row, r) ==
    [NewRun(row.job) EXCEPT !.retry_count = row.retry_count + 1,
                            !.retry_of    = r]

\* the guards of retry_run
RetryAllowed(row) ==
    /\ row.status \in {"failed", "timeout", "canceled"}
    /\ row.retry_count < MaxRetry[row.job]

\* the condition of the automatic retry in update_status
AutoRetryAtLimit(row, status) ==
    /\ status \in {"failed", "timeout"}
    /\ row.retry_count <= MaxRetry[row.job]

AutoRetry(row, status) ==
    /\ status \in {"failed", "timeout"}
    /\ row.retry_count < MaxRetry[row.job]

-----------------------------------------------------------------------------
(* The session's unit of work.  A flush writes only the columns whose value *)
(* differs from the value the session loaded; the others keep what other    *)
(* transactions have committed in the meantime (READ COMMITTED, UPDATE by   *)
(* primary key).                                                            *)
WriteBack(cur, loaded, new) ==
    [job          |-> cur.job,
     status       |-> IF new.status = loaded.status THEN cur.status ELSE new.status,
     locked_by    |-> IF new.locked_by = loaded.locked_by THEN cur.locked_by ELSE new.locked_by,
     locked_until |-> IF new.locked_until = loaded.locked_until
                      THEN cur.locked_until ELSE new.locked_until,
     ended        |-> IF new.ended = loaded.ended THEN cur.ended ELSE new.ended,
     retry_count  |-> cur.retry_count,
     retry_of     |-> cur.retry_of]

-----------------------------------------------------------------------------
(* Queries.                                                                *)

RunsOf(table, job) == {r \in RunIds : table[r] # NoRun /\ table[r].job = job}

\* the latest run of a job: order by created_at desc, first
IsLatest(table, r, job) ==
    /\ r \in RunsOf(table, job)
    /\ \A q \in RunsOf(table, job) : q <= r

\* one query of Job.are_dependencies_satisfied, for the dependency d
DependencyIgnored(table, d) == TRUE

DependencySatisfied(table, d) ==
    \E r \in RunIds : IsLatest(table, r, d.up) /\ table[r].status = d.required

\* JobRunRepository.find_expired_runs: "locked_until < now"
ExpiredLeaseAtDeadline(row) ==
    /\ row.status = "running"
    /\ row.locked_until # NULL
    /\ row.locked_until <= 0

ExpiredLeaseAnyStatus(row) == row.locked_until # NULL /\ row.locked_until < 0

ExpiredLease(row) ==
    /\ row.status = "running"
    /\ row.locked_until # NULL
    /\ row.locked_until < 0

FindExpired(table) == {r \in RunIds : table[r] # NoRun /\ ExpiredLease(table[r])}

\* the passing of one tick, seen by one row
AgeRow(row) ==
    IF row = NoRun \/ row.locked_until \in {NULL, Expired}
    THEN row
    ELSE [row EXCEPT !.locked_until = @ - 1]
=============================================================================
