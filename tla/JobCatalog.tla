----------------------------- MODULE JobCatalog -----------------------------
(***************************************************************************)
(* Who owns what and what depends on what: the tables jobs,                 *)
(* job_dependencies and job_runs as far as names, owners and references go, *)
(* and the requests of users that change them.                              *)
(*                                                                         *)
(* A request is a transaction of two steps.  The first one reads: it checks  *)
(* names and access, executes the DELETE of the dependency rows it sees and  *)
(* looks up the jobs named in depends_on.  The second one commits, or fails  *)
(* on a constraint that another commit has made false in between: UNIQUE     *)
(* names and pairs, foreign keys.  PostgreSQL makes a statement wait for     *)
(* rows another transaction has locked; the outcome is that of the order of  *)
(* the commits, so the waiting itself is left out.                          *)
(*                                                                         *)
(* saved is history: the dependencies each job's last save asked for, and     *)
(* whether another save of the job was committed while it was in flight.     *)
(***************************************************************************)
EXTENDS Integers, FiniteSets

CONSTANTS
    Users,      \* accounts
    Admins,     \* those with role "admin"
    Names,      \* task names
    MaxJobs,    \* bound on the number of jobs ever created
    MaxRuns,    \* bound on the number of distinct runs in the table
    Clients,    \* requests on jobs that may be in flight at once
    RefSets,    \* the lists users give as depends_on: names or ids of jobs
    NULL, Unset, NoRow

JobIds == 1..MaxJobs

\* the id of a row that is not inserted yet
Own == 0

ASSUME JobCatalogAssumption ==
    /\ Admins \subseteq Users /\ NULL \notin Users
    /\ MaxJobs \in Nat \ {0} /\ MaxRuns \in Nat
    /\ RefSets \subseteq SUBSET (Names \cup JobIds) /\ \A s \in RefSets : IsFiniteSet(s)
    /\ Names \cap Int = {} /\ NULL \notin Names \cup {"create", "update", "delete"}
    /\ Unset \notin RefSets

Job == [name : Names, owner : Users \cup {NULL}]

Run == [job : JobIds, owner : Users \cup {NULL}]

ASSUME NoRowAssumption == NoRow \notin Job

VARIABLES
    jobs,     \* the jobs table
    nextJob,
    deps,     \* job_dependencies: pairs <<job, upstream job>>
    runs,     \* job_runs: runs of one job and owner are not told apart
    req,      \* the requests in flight
    saved

vars == <<jobs, nextJob, deps, runs, req, saved>>

-----------------------------------------------------------------------------
(* Queries.                                                                *)

Existing == {j \in JobIds : jobs[j] # NoRow}

DependsOn(j) == {up \in JobIds : <<j, up>> \in deps}

\* the dependency rows in which j occurs
Touching(j) == {d \in deps : j \in {d[1], d[2]}}

RunsOf(j) == {r \in runs : r.job = j}

\* _ensure_job_access and _ensure_run_access: a row without owner is open to
\* everyone
Accessible(u, row) == u \in Admins \/ row.owner \in {u, NULL}

\* _job_query_for_user and _visible_user_id: the lists a user is shown
Listed(u, row) == u \in Admins \/ row.owner = u

\* another job than j has the name; find_by_task_name, and UNIQUE(task_name)
NameTaken(name, j) == \E i \in Existing \ {j} : jobs[i].name = name

\* find_by_task_name, then get by id.  The session does not flush before a
\* query: update_job finds its own job under the old name.
Found(ref) == {i \in Existing : ref \in {i, jobs[i].name}}

\* A name nobody has raises ValueError; the job itself (CHECK) and a job named
\* twice (UNIQUE pair) fail at the flush.
Resolvable(refs, j) ==
    /\ \A ref \in refs : Found(ref) # {} /\ j \notin Found(ref)
    /\ \A a, b \in refs : a # b => Found(a) \cap Found(b) = {}

Resolved(refs) == UNION {Found(ref) : ref \in refs}

-----------------------------------------------------------------------------
IdleRequest == [op |-> NULL]

Request ==
    [op : {"create"}, user : Users, name : Names, ups : SUBSET JobIds]
    \cup [op : {"update"}, job : JobIds, name : Names \cup {NULL},
          given : BOOLEAN, ups : SUBSET JobIds, cleared : SUBSET (JobIds \X JobIds),
          raced : BOOLEAN]
    \cup [op : {"delete"}, job : JobIds, cleared : SUBSET (JobIds \X JobIds)]
    \cup {IdleRequest}

Saved == [ups : SUBSET JobIds, raced : BOOLEAN]

NotSaved == [ups |-> {}, raced |-> FALSE]

TypeOK ==
    /\ jobs \in [JobIds -> Job \cup {NoRow}]
    /\ nextJob \in 1..(MaxJobs + 1)
    /\ deps \subseteq JobIds \X JobIds
    /\ runs \subseteq Run
    /\ req \in [Clients -> Request]
    /\ saved \in [JobIds -> Saved]

\* The database is empty, or holds one job without owner: the user it belonged
\* to was deleted (ON DELETE SET NULL), or it was inserted without one.
Init ==
    /\ \E first \in {NoRow} \cup [name : Names, owner : {NULL}] :
        /\ jobs = [j \in JobIds |-> IF j = 1 THEN first ELSE NoRow]
        /\ nextJob = IF first = NoRow THEN 1 ELSE 2
    /\ deps = {}
    /\ runs = {}
    /\ req = [c \in Clients |-> IdleRequest]
    /\ saved = [j \in JobIds |-> NotSaved]

-----------------------------------------------------------------------------
(* create_job.                                                             *)

CreateLoad(c, u, name, refs) ==
    /\ req[c] = IdleRequest
    /\ ~NameTaken(name, Own)
    /\ Resolvable(refs, Own)
    /\ req' = [req EXCEPT ![c] = [op |-> "create", user |-> u, name |-> name,
                                  ups |-> Resolved(refs)]]
    /\ UNCHANGED <<jobs, nextJob, deps, runs, saved>>

CreatedRows(j, ups) == {j} \X ups

CreateCommitTrustsCheck(c) ==
    /\ req[c].op = "create"
    /\ nextJob \in JobIds /\ req[c].ups \subseteq Existing
    /\ jobs' = [jobs EXCEPT ![nextJob] = [name |-> req[c].name, owner |-> req[c].user]]
    /\ nextJob' = nextJob + 1
    /\ deps' = deps \cup CreatedRows(nextJob, req[c].ups)
    /\ saved' = [saved EXCEPT ![nextJob].ups = req[c].ups]
    /\ req' = [req EXCEPT ![c] = IdleRequest]
    /\ UNCHANGED runs

CreateCommit(c) ==
    /\ req[c].op = "create"
    /\ \/ /\ NameTaken(req[c].name, Own) \/ ~(req[c].ups \subseteq Existing)
          /\ UNCHANGED <<jobs, nextJob, deps, saved>>
       \/ /\ nextJob \in JobIds
          /\ ~NameTaken(req[c].name, Own) /\ req[c].ups \subseteq Existing
          /\ jobs' = [jobs EXCEPT ![nextJob] = [name |-> req[c].name, owner |-> req[c].user]]
          /\ nextJob' = nextJob + 1
          /\ deps' = deps \cup CreatedRows(nextJob, req[c].ups)
          /\ saved' = [saved EXCEPT ![nextJob].ups = req[c].ups]
    /\ req' = [req EXCEPT ![c] = IdleRequest]
    /\ UNCHANGED runs

-----------------------------------------------------------------------------
(* update_job: name and dependencies; refs is Unset when the payload has no  *)
(* depends_on; one of the two is given.  A name that stays as it was is not    *)
(* written (NULL); a new one meets UNIQUE at the flush that follows the        *)
(* dependencies, or at the commit.                                           *)

\* the rows update_dependencies deletes first
ClearedBothWays(j) == Touching(j)

Cleared(j) == {d \in deps : d[1] = j}

UpdateLoad(c, u, j, name, refs) ==
    /\ req[c] = IdleRequest
    /\ j \in Existing /\ Accessible(u, jobs[j])
    /\ refs # Unset \/ name # jobs[j].name
    /\ refs # Unset => Resolvable(refs, j)
    /\ refs \in {Unset, {}} \/ ~NameTaken(name, j)
    /\ req' = [req EXCEPT ![c] =
           [op |-> "update", job |-> j,
            name    |-> IF name = jobs[j].name THEN NULL ELSE name,
            given   |-> refs # Unset,
            ups     |-> IF refs = Unset THEN {} ELSE Resolved(refs),
            cleared |-> IF refs = Unset THEN {} ELSE Cleared(j),
            raced   |-> FALSE]]
    /\ UNCHANGED <<jobs, nextJob, deps, runs, saved>>

\* the rows of job_dependencies the commit of request q leaves or inserts
KeptRows(q) == deps \ q.cleared

NewRows(q) == {q.job} \X q.ups

NewNameAlways(q) == q.name

NewName(q) == IF q.name = NULL THEN jobs[q.job].name ELSE q.name

UpdateFailsOnNames(q) ==
    \/ q.job \notin Existing
    \/ q.name # NULL /\ NameTaken(q.name, q.job)
    \/ NewRows(q) \cap KeptRows(q) # {}

UpdateFails(q) ==
    \/ q.job \notin Existing
    \/ q.name # NULL /\ NameTaken(q.name, q.job)
    \/ NewRows(q) \cap KeptRows(q) # {}
    \/ ~(q.ups \subseteq Existing)

UpdateCommit(c) ==
    /\ req[c].op = "update"
    /\ LET q == req[c] IN
       \/ /\ UpdateFails(q)
          /\ req' = [req EXCEPT ![c] = IdleRequest]
          /\ UNCHANGED <<jobs, deps, saved>>
       \/ /\ ~UpdateFails(q)
          /\ jobs' = [jobs EXCEPT ![q.job].name = NewName(q)]
          /\ deps' = KeptRows(q) \cup NewRows(q)
          /\ saved' = IF q.given
                      THEN [saved EXCEPT ![q.job] =
                               [ups |-> q.ups, raced |-> q.raced]]
                      ELSE saved
          /\ req' = [o \in Clients |->
                 IF o = c THEN IdleRequest
                 ELSE IF req[o].op = "update" /\ req[o].job = q.job /\ req[o].given /\ q.given
                 THEN [req[o] EXCEPT !.raced = TRUE] ELSE req[o]]
    /\ UNCHANGED <<nextJob, runs>>

-----------------------------------------------------------------------------
(* delete_job: the dependency rows on either side, the runs the session has  *)
(* loaded, and the job.  Rows inserted since are deleted by the cascade of    *)
(* schema.sql; under the entities' own foreign keys they make it fail.  A run *)
(* inserted since looks like the ones before.                               *)

DeleteLoad(c, u, j) ==
    /\ req[c] = IdleRequest
    /\ j \in Existing /\ Accessible(u, jobs[j])
    /\ req' = [req EXCEPT ![c] = [op |-> "delete", job |-> j, cleared |-> Touching(j)]]
    /\ UNCHANGED <<jobs, nextJob, deps, runs, saved>>

DeleteCommit(c) ==
    /\ req[c].op = "delete"
    /\ LET j == req[c].job IN
       \/ /\ \/ j \notin Existing
             \/ ~(Touching(j) \subseteq req[c].cleared)
             \/ RunsOf(j) # {}
          /\ UNCHANGED <<jobs, deps, runs, saved>>
       \/ /\ j \in Existing
          /\ jobs' = [jobs EXCEPT ![j] = NoRow]
          /\ deps' = deps \ Touching(j)
          /\ runs' = runs \ RunsOf(j)
          /\ saved' = [i \in JobIds |->
                 IF i = j THEN NotSaved ELSE [saved[i] EXCEPT !.ups = @ \ {j}]]
    /\ req' = [req EXCEPT ![c] = IdleRequest]
    /\ UNCHANGED nextJob

-----------------------------------------------------------------------------
(* Runs.  An insert reads the job or the run it copies and commits; if that   *)
(* is gone by then the foreign key refuses it, so the two are one step.      *)

InsertRun(j, owner) ==
    /\ Cardinality(runs) < MaxRuns
    /\ runs' = runs \cup {[job |-> j, owner |-> owner]}
    /\ UNCHANGED <<jobs, nextJob, deps, req, saved>>

\* trigger_job
TriggerJob(u, j) ==
    /\ j \in Existing /\ Accessible(u, jobs[j])
    /\ InsertRun(j, u)

\* scan_due_jobs
ScheduleJob(j) == j \in Existing /\ InsertRun(j, jobs[j].owner)

\* retry_job_run: the retry belongs to the user who asked for it
RetryByAnyone(u, r) == InsertRun(r.job, u)

RetryRun(u, r) == Accessible(u, r) /\ InsertRun(r.job, u)

\* the automatic retry of update_status
AutoRetry(r) == InsertRun(r.job, r.owner)

\* POST /job-runs/clear: the runs inserted since its DELETE started stay, and
\* which of those that look alike these are is not told apart
ClearAllRuns ==
    /\ runs' \in SUBSET runs
    /\ UNCHANGED <<jobs, nextJob, deps, req, saved>>

-----------------------------------------------------------------------------
Next ==
    \/ \E c \in Clients, u \in Users, name \in Names :
          \/ \E refs \in RefSets : CreateLoad(c, u, name, refs)
          \/ \E j \in JobIds, refs \in RefSets \cup {Unset} : UpdateLoad(c, u, j, name, refs)
    \/ \E c \in Clients, u \in Users, j \in JobIds : DeleteLoad(c, u, j)
    \/ \E c \in Clients : CreateCommit(c) \/ UpdateCommit(c) \/ DeleteCommit(c)
    \/ \E u \in Users :
          \/ \E j \in JobIds : TriggerJob(u, j)
          \/ \E r \in runs : RetryRun(u, r)
    \/ \E j \in JobIds : ScheduleJob(j)
    \/ \E r \in runs : AutoRetry(r)
    \/ ClearAllRuns

Spec == Init /\ [][Next]_vars

-----------------------------------------------------------------------------
(* Properties.                                                             *)

\* No two jobs have the same task_name, although create_job looks for the
\* name long before it inserts and update_job does not look at all: every
\* name in depends_on means one job.
NamesUnique == \A i, j \in Existing : jobs[i].name = jobs[j].name => i = j

\* Whatever updates and deletes overlap, a dependency joins two jobs that
\* exist and differ, so are_dependencies_satisfied never waits for a job that
\* is gone or for the job itself, and a run belongs to a job that exists.
RowsJoin ==
    /\ \A d \in deps : {d[1], d[2]} \subseteq Existing /\ d[1] # d[2]
    /\ \A r \in runs : r.job \in Existing

\* The dependencies of the last committed save of a job are in force, less
\* the deleted jobs: no save or deletion of another job, and no late commit
\* of an older save of this one, takes one away.  Nothing else is in force
\* either, unless another save of the job was committed while the last one
\* was in flight: its DELETE does not see the rows the other one inserts, so
\* both lists add up.
SavedDependencies ==
    \A j \in Existing :
        /\ saved[j].ups \subseteq DependsOn(j)
        /\ ~saved[j].raced => DependsOn(j) = saved[j].ups

\* Runs are listed and opened by the owner of the run, jobs by the owner of
\* the job, and the two columns are written by different requests.  Still,
\* who can open a run can open its job, through any chain of triggers,
\* scheduled runs, retries by hand and automatic retries; so the lists and the
\* pages of runs show nobody the runs of a job that is not his to see.  (POST
\* /workers/pull, which hands any run to any user who has logged in, looks at
\* no owner.)
RunsOpenTheirJobs ==
    \A r \in runs, u \in Users :
        Accessible(u, r) \/ Listed(u, r) => Accessible(u, jobs[r.job])
=============================================================================
