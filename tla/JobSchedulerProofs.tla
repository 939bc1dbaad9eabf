------------------------- MODULE JobSchedulerProofs -------------------------
(***************************************************************************)
(* Proofs about JobScheduler: its types, that a scan schedules only what is *)
(* due and no occurrence is lost (any number of replicas and requests), and *)
(* that the scheduling columns stay consistent when requests come one at a  *)
(* time.                                                                   *)
(***************************************************************************)
EXTENDS JobScheduler, TLAPS

-----------------------------------------------------------------------------
(* Operators.                                                              *)

\* sync_domain_logic returns a row; enabled follows status, and there is a
\* next_run_at only for an enabled job whose rule has a next occurrence.
LEMMA SyncResult ==
    ASSUME NEW row, row.status \in JobStatus, row.rule \in Rule, phase \in 1..CronPeriod
    PROVE  /\ SyncDomainLogic(row) \in Job
           /\ SyncDomainLogic(row).enabled <=> SyncDomainLogic(row).status \in Active
           /\ SyncDomainLogic(row).next_run_at # NULL =>
                  SyncDomainLogic(row).enabled /\ Computable(SyncDomainLogic(row).rule)
  <1>1. phase \in Instant /\ Interval \in Instant
    BY JobSchedulerAssumption DEF Instant
  <1>2. ComputeNextRun(row.rule) \in Instant
    BY <1>1 DEF ComputeNextRun
  <1> DEFINE new == SyncDomainLogic(row)
  <1>3. /\ new = [status |-> new.status, enabled |-> new.enabled, rule |-> new.rule,
                  next_run_at |-> new.next_run_at]
        /\ new.status = row.status
        /\ new.enabled = (row.status \in Active)
        /\ new.rule = row.rule
        /\ new.next_run_at = IF row.status \in Active /\ Computable(row.rule)
                             THEN ComputeNextRun(row.rule) ELSE NULL
    BY DEF SyncDomainLogic
  <1>4. new.enabled \in BOOLEAN /\ new.next_run_at \in Instant \cup {NULL}
    BY <1>2, <1>3
  <1> HIDE DEF new
  <1>5. new \in Job
    BY <1>3, <1>4 DEF Job
  <1>6. new.next_run_at # NULL => new.enabled /\ Computable(new.rule)
    BY <1>3
  <1>7. QED
    BY <1>3, <1>5, <1>6 DEF new

LEMMA WriteBackType ==
    ASSUME NEW cur \in Job, NEW new \in Job, NEW cols
    PROVE  WriteBack(cur, new, cols) \in Job
  BY DEF WriteBack, Job

\* One tick brings an instant nearer, and what is due stays due.
LEMMA EarlierInstant ==
    ASSUME NEW t \in Instant \cup {NULL}
    PROVE  /\ Earlier(t) \in Instant \cup {NULL}
           /\ Earlier(t) = NULL <=> t = NULL
           /\ t # NULL /\ t <= 0 => Earlier(t) <= 0
  <1>1. NULL \notin Int
    BY JobSchedulerAssumption
  <1>2. Interval \in Nat /\ CronPeriod \in Nat
    BY JobSchedulerAssumption
  <1>3. QED
    BY <1>1, <1>2 DEF Earlier, Instant, Past

LEMMA EarlierRowType ==
    ASSUME NEW row \in Job
    PROVE  /\ EarlierRow(row) \in Job
           /\ EarlierRow(row) = [row EXCEPT !.next_run_at = Earlier(row.next_run_at)]
  <1>1. row \notin {NoJob, Deleted}
    BY NoJobAssumption
  <1>2. row.next_run_at \in Instant \cup {NULL}
    BY DEF Job
  <1>3. QED
    BY <1>1, <1>2, EarlierInstant DEF EarlierRow, Job

-----------------------------------------------------------------------------
(* The inductive invariant of the scans.  A row that a scan writes must be a *)
(* row: the types rest on what the row locks protect.                       *)

\* what a replica has locked is due until its commit
HeldDue == \A s \in Schedulers : \A j \in scan[s].jobs : Due(j)

\* no row is locked twice
HeldOnce ==
    \A s, u \in Schedulers : s # u => scan[s].jobs \cap scan[u].jobs = {}

ScanInv == TypeOK /\ HeldDue /\ HeldOnce

\* A request in flight is an update with a new row or a delete without one.
LEMMA RequestForms ==
    ASSUME NEW r \in Request
    PROVE  /\ r.op = "update" =>
                  r \in [op : {"update"}, job : Jobs, new : Job, cols : SUBSET Columns,
                         stale : {FALSE}]
           /\ r.op # "update" => r.new = NoJob
           /\ r.op = "delete" => r.job \in Jobs
  <1> DEFINE Upd == [op : {"update"}, job : Jobs, new : Job, cols : SUBSET Columns,
                     stale : {FALSE}]
             Del == [op : {"delete"}, job : Jobs, new : {NoJob}, cols : {{}}, stale : BOOLEAN]
  <1>1. r \in Upd \/ r \in Del \/ r = IdleRequest
    BY DEF Request
  <1>2. ASSUME r \in Upd PROVE r.op = "update"
    BY <1>2
  <1>3. ASSUME r \in Del PROVE r.op = "delete" /\ r.new = NoJob /\ r.job \in Jobs
    BY <1>3
  <1>4. ASSUME r = IdleRequest PROVE r.op = NULL /\ r.new = NoJob
    BY <1>4 DEF IdleRequest
  <1>5. NULL # "update" /\ NULL # "delete"
    BY JobSchedulerAssumption
  <1> HIDE DEF Upd, Del
  <1>6. r.op = "update" => r \in Upd
    BY <1>1, <1>3, <1>4, <1>5
  <1>7. r.op # "update" => r.new = NoJob
    BY <1>1, <1>2, <1>3, <1>4
  <1>8. r.op = "delete" => r.job \in Jobs
    BY <1>1, <1>2, <1>3, <1>4, <1>5
  <1>9. QED
    BY <1>6, <1>7, <1>8 DEF Upd

LEMMA ScanInvInit == Init => ScanInv
  <1>1. SUFFICES ASSUME Init PROVE ScanInv
    OBVIOUS
  <1>2. phase \in 1..CronPeriod
    BY <1>1, JobSchedulerAssumption DEF Init
  <1>3. IdleRequest \in Request /\ IdleScan \in Scan
    BY DEF IdleRequest, Request, IdleScan, Scan
  <1>4. crashes \in 0..MaxCrashes
    BY <1>1, JobSchedulerAssumption DEF Init
  <1>5. TypeOK
    BY <1>1, <1>2, <1>3, <1>4 DEF Init, TypeOK
  <1>6. \A s \in Schedulers : scan[s].jobs = {}
    BY <1>1 DEF Init, IdleScan
  <1>7. QED
    BY <1>5, <1>6 DEF ScanInv, HeldDue, HeldOnce

\* A step that locks nothing new and leaves the locked rows alone.
LEMMA LocksKept ==
    ASSUME HeldDue, HeldOnce,
           \A s \in Schedulers : scan'[s].jobs \subseteq scan[s].jobs,
           \A s \in Schedulers : \A j \in scan'[s].jobs : jobs'[j] = jobs[j]
    PROVE  HeldDue' /\ HeldOnce'
  <1>1. HeldDue'
    BY DEF HeldDue, Due, Exists
  <1>2. HeldOnce'
    BY DEF HeldOnce
  <1>3. QED
    BY <1>1, <1>2

LEMMA TypeStep == ScanInv /\ [Next]_vars => TypeOK'
<1> SUFFICES ASSUME ScanInv, [Next]_vars PROVE TypeOK'
  OBVIOUS
<1>a. /\ jobs \in [Jobs -> Job \cup {NoJob, Deleted}]
      /\ phase \in 1..CronPeriod
      /\ req \in [Clients -> Request]
      /\ scan \in [Schedulers -> Scan]
      /\ scheduled \subseteq Jobs /\ touched \subseteq Jobs
      /\ crashes \in 0..MaxCrashes
      /\ HeldDue
      /\ HeldOnce
  BY DEF ScanInv, TypeOK
<1>b. IdleRequest \in Request /\ IdleScan \in Scan
  BY DEF IdleRequest, Request, IdleScan, Scan
<1>c. ASSUME NEW j \in Jobs, Exists(j) PROVE jobs[j] \in Job
  BY <1>a, <1>c DEF Exists
<1>1. ASSUME NEW j \in Jobs, NEW status \in Statuses, NEW rule \in Rules,
             CreateJob(j, status, rule)
      PROVE  TypeOK'
  <2> DEFINE row == [status |-> status, enabled |-> TRUE, rule |-> rule, next_run_at |-> NULL]
  <2>1. row.status \in JobStatus /\ row.rule \in Rule
    BY JobSchedulerAssumption
  <2>2. SyncDomainLogic(row) \in Job
    BY <1>a, <2>1, SyncResult
  <2>3. jobs' \in [Jobs -> Job \cup {NoJob, Deleted}]
    BY <1>1, <1>a, <2>2 DEF CreateJob
  <2>4. QED
    BY <1>1, <1>a, <2>3 DEF CreateJob, Quiet, TypeOK
<1>2. ASSUME NEW c \in Clients, NEW j \in Jobs, NEW status \in Statuses \cup {NULL},
             NEW rule \in Rules \cup {NULL}, UpdateLoad(c, j, status, rule)
      PROVE  TypeOK'
  <2> DEFINE row == [jobs[j] EXCEPT !.status = IF status = NULL THEN @ ELSE status,
                                    !.rule   = IF rule = NULL THEN @ ELSE rule]
             new == SyncDomainLogic(row)
  <2>1. jobs[j] \in Job
    BY <1>2, <1>c DEF UpdateLoad
  <2>2. row.status \in JobStatus /\ row.rule \in Rule
    BY <2>1, JobSchedulerAssumption DEF Job
  <2>3. new \in Job
    BY <1>a, <2>2, SyncResult
  <2>4. UpdateRequest(j, new, Dirty(jobs[j], new)) \in Request
    BY <2>3 DEF UpdateRequest, Request, Dirty
  <2>5. req' = [req EXCEPT ![c] = UpdateRequest(j, new, Dirty(jobs[j], new))]
    BY <1>2 DEF UpdateLoad
  <2>6. req' \in [Clients -> Request]
    BY <1>a, <2>4, <2>5
  <2>7. QED
    BY <1>2, <1>a, <2>6 DEF UpdateLoad, Quiet, TypeOK
<1>3. ASSUME NEW c \in Clients, NEW j \in Jobs, DeleteLoad(c, j) PROVE TypeOK'
  <2>1. DeleteRequest(j, FALSE) \in Request
    BY DEF DeleteRequest, Request
  <2>2. QED
    BY <1>3, <1>a, <2>1 DEF DeleteLoad, Quiet, TypeOK
<1>4. ASSUME NEW c \in Clients, UpdateCommit(c) PROVE TypeOK'
  <2> DEFINE j == req[c].job
  <2>1. req[c].op = "update" /\ req[c] \in Request
    BY <1>4, <1>a DEF UpdateCommit
  <2>2. j \in Jobs /\ req[c].new \in Job
    BY <2>1, RequestForms
  <2>3. jobs' \in [Jobs -> Job \cup {NoJob, Deleted}]
    <3>1. CASE UNCHANGED jobs
      BY <1>a, <3>1
    <3>2. CASE Exists(j) /\ jobs' = [jobs EXCEPT ![j] =
                                       WriteBack(@, req[c].new, req[c].cols)]
      <4>1. WriteBack(jobs[j], req[c].new, req[c].cols) \in Job
        BY <1>c, <2>2, <3>2, WriteBackType
      <4>2. QED
        BY <1>a, <3>2, <4>1
    <3>3. QED
      BY <1>4, <3>1, <3>2 DEF UpdateCommit
  <2>4. QED
    BY <1>4, <1>a, <1>b, <2>2, <2>3 DEF UpdateCommit, TypeOK
<1>5. ASSUME NEW c \in Clients, DeleteCommit(c) PROVE TypeOK'
  <2>1. jobs' \in [Jobs -> Job \cup {NoJob, Deleted}]
    BY <1>5, <1>a DEF DeleteCommit
  <2>2. req[c].job \in Jobs
    BY <1>5, <1>a, RequestForms DEF DeleteCommit
  <2>3. touched' \subseteq Jobs
    BY <1>5, <2>2 DEF DeleteCommit
  <2>4. QED
    BY <1>5, <1>a, <1>b, <2>1, <2>3 DEF DeleteCommit, TypeOK
<1>6. ASSUME NEW s \in Schedulers, ScanLoad(s) PROVE TypeOK'
  <2> DEFINE due == {j \in Jobs : Due(j) /\ ~Locked(j)}
             next == [j \in Jobs |-> IF j \in due /\ Computable(jobs[j].rule)
                                     THEN ComputeNextRun(jobs[j].rule) ELSE NULL]
  <2>1. \A r : ComputeNextRun(r) \in Instant
    BY <1>a, JobSchedulerAssumption DEF ComputeNextRun, Instant
  <2>2. next \in [Jobs -> Instant \cup {NULL}]
    BY <2>1
  <2>3. scan' = [scan EXCEPT ![s] = [pc |-> "scanning", jobs |-> due, next |-> next]]
    BY <1>6 DEF ScanLoad
  <2> HIDE DEF next
  <2>4. [pc |-> "scanning", jobs |-> due, next |-> next] \in Scan
    BY <2>2 DEF Scan
  <2>5. scan' \in [Schedulers -> Scan]
    BY <1>a, <2>3, <2>4
  <2>6. QED
    BY <1>6, <1>a, <2>5 DEF ScanLoad, Quiet, TypeOK
<1>7. ASSUME NEW s \in Schedulers, ScanCommit(s) PROVE TypeOK'
  <2>1. PICK sat \in Satisfiable(s) :
            /\ \A j \in sat : scan[s].next[j] # NULL
            /\ jobs' = [j \in Jobs |->
                   IF j \in sat THEN [jobs[j] EXCEPT !.next_run_at = scan[s].next[j]]
                                ELSE jobs[j]]
            /\ req' = [c \in Clients |->
                   IF req[c].op = "delete" /\ req[c].job \in sat
                   THEN DeleteRequest(req[c].job, TRUE) ELSE req[c]]
            /\ scheduled' = sat
    BY <1>7 DEF ScanCommit
  <2>2. scan[s] \in Scan /\ sat \subseteq scan[s].jobs /\ sat \subseteq Jobs
    BY <1>a DEF Satisfiable, Scan
  <2>3. ASSUME NEW j \in Jobs PROVE jobs'[j] \in Job \cup {NoJob, Deleted}
    <3>1. CASE j \in sat
      <4>1. jobs[j] \in Job
        BY <1>a, <1>c, <2>2, <3>1 DEF HeldDue, Due
      <4>2. scan[s].next[j] \in Instant \cup {NULL}
        BY <2>2 DEF Scan
      <4>3. QED
        BY <2>1, <3>1, <4>1, <4>2 DEF Job
    <3>2. CASE j \notin sat
      BY <1>a, <2>1, <3>2
    <3>3. QED
      BY <3>1, <3>2
  <2>4. jobs' \in [Jobs -> Job \cup {NoJob, Deleted}]
    BY <2>1, <2>3
  <2>5. req' \in [Clients -> Request]
    <3>1. \A j \in Jobs : DeleteRequest(j, TRUE) \in Request
      BY DEF DeleteRequest, Request
    <3>2. QED
      BY <1>a, <2>1, <2>2, <3>1
  <2>6. [IdleScan EXCEPT !.pc = "releasing"] \in Scan
    BY DEF IdleScan, Scan
  <2>7. scan' \in [Schedulers -> Scan]
    BY <1>7, <1>a, <2>6 DEF ScanCommit
  <2>8. QED
    BY <1>7, <1>a, <2>1, <2>2, <2>4, <2>5, <2>7 DEF ScanCommit, TypeOK
<1>8. ASSUME NEW s \in Schedulers, ScanRaises(s) PROVE TypeOK'
  BY <1>8, <1>a, <1>b DEF ScanRaises, Quiet, TypeOK
<1>9. ASSUME NEW s \in Schedulers, ReleaseLocks(s) PROVE TypeOK'
  BY <1>9, <1>a, <1>b DEF ReleaseLocks, Quiet, TypeOK
<1>10. ASSUME NEW s \in Schedulers, SchedulerCrash(s) PROVE TypeOK'
  <2>1. crashes' \in 0..MaxCrashes
    BY <1>10, <1>a, JobSchedulerAssumption DEF SchedulerCrash
  <2>2. scan' \in [Schedulers -> Scan]
    BY <1>10, <1>a, <1>b DEF SchedulerCrash
  <2>3. QED
    BY <1>10, <1>a, <2>1, <2>2 DEF SchedulerCrash, Quiet, TypeOK
<1>11. ASSUME Tick PROVE TypeOK'
  <2>1. jobs' \in [Jobs -> Job \cup {NoJob, Deleted}]
    <3>1. ASSUME NEW j \in Jobs PROVE EarlierRow(jobs[j]) \in Job \cup {NoJob, Deleted}
      <4>1. CASE jobs[j] \in Job
        BY <4>1, EarlierRowType
      <4>2. CASE jobs[j] \in {NoJob, Deleted}
        BY <4>2 DEF EarlierRow
      <4>3. QED
        BY <1>a, <4>1, <4>2
    <3>2. QED
      BY <1>11, <3>1 DEF Tick
  <2>2. phase' \in 1..CronPeriod
    BY <1>11, <1>a, JobSchedulerAssumption DEF Tick
  <2>3. req' \in [Clients -> Request]
    <3>1. ASSUME NEW c \in Clients PROVE [req[c] EXCEPT !.new = EarlierRow(@)] \in Request
      <4>1. CASE req[c].op = "update"
        <5>1. req[c] \in [op : {"update"}, job : Jobs, new : Job, cols : SUBSET Columns,
                          stale : {FALSE}]
          BY <1>a, <4>1, RequestForms
        <5>2. EarlierRow(req[c].new) \in Job
          BY <5>1, EarlierRowType
        <5>3. QED
          BY <5>1, <5>2 DEF Request
      <4>2. CASE req[c].op # "update"
        <5>1. req[c] \in Request /\ req[c].new = NoJob
          BY <1>a, <4>2, RequestForms
        <5>2. EarlierRow(req[c].new) = req[c].new
          BY <5>1 DEF EarlierRow
        <5>3. QED
          BY <5>1, <5>2 DEF Request, IdleRequest
      <4>3. QED
        BY <4>1, <4>2
    <3>2. QED
      BY <1>11, <3>1 DEF Tick
  <2>4. scan' \in [Schedulers -> Scan]
    <3>1. ASSUME NEW s \in Schedulers
          PROVE  [scan[s] EXCEPT !.next = [j \in Jobs |-> Earlier(scan[s].next[j])]] \in Scan
      <4>1. scan[s] \in Scan
        BY <1>a
      <4>2. \A j \in Jobs : scan[s].next[j] \in Instant \cup {NULL}
        BY <4>1 DEF Scan
      <4>3. [j \in Jobs |-> Earlier(scan[s].next[j])] \in [Jobs -> Instant \cup {NULL}]
        BY <4>2, EarlierInstant
      <4>4. QED
        BY <4>1, <4>3 DEF Scan
    <3>2. QED
      BY <1>11, <3>1 DEF Tick
  <2>5. QED
    BY <1>11, <1>a, <2>1, <2>2, <2>3, <2>4 DEF Tick, Quiet, TypeOK
<1>12. ASSUME UNCHANGED vars PROVE TypeOK'
  BY <1>12, <1>a DEF vars, TypeOK
<1>13. QED
  BY <1>1, <1>2, <1>3, <1>4, <1>5, <1>6, <1>7, <1>8, <1>9, <1>10, <1>11, <1>12
     DEF Next, SchedulerStep

\* A job that is due stays due while time passes.
LEMMA TickKeepsDue ==
    ASSUME jobs \in [Jobs -> Job \cup {NoJob, Deleted}], Tick, NEW j \in Jobs, Due(j)
    PROVE  Due(j)'
  <1>1. jobs[j] \in Job
    BY DEF Due, Exists
  <1>2. /\ jobs'[j] \in Job
        /\ jobs'[j] = [jobs[j] EXCEPT !.next_run_at = Earlier(jobs[j].next_run_at)]
    BY <1>1, EarlierRowType DEF Tick
  <1>3. Exists(j)'
    BY <1>2, NoJobAssumption DEF Exists
  <1>4. /\ jobs'[j].enabled = jobs[j].enabled
        /\ jobs'[j].status = jobs[j].status
        /\ jobs'[j].next_run_at = Earlier(jobs[j].next_run_at)
    BY <1>1, <1>2 DEF Job
  <1>5. jobs[j].next_run_at \in Instant \cup {NULL}
    BY <1>1 DEF Job
  <1>6. Earlier(jobs[j].next_run_at) # NULL /\ Earlier(jobs[j].next_run_at) <= 0
    BY <1>5, EarlierInstant DEF Due
  <1>7. QED
    BY <1>3, <1>4, <1>6 DEF Due

LEMMA LockStep == ScanInv /\ [Next]_vars => HeldDue' /\ HeldOnce'
<1> SUFFICES ASSUME ScanInv, [Next]_vars PROVE HeldDue' /\ HeldOnce'
  OBVIOUS
<1>a. /\ jobs \in [Jobs -> Job \cup {NoJob, Deleted}]
      /\ req \in [Clients -> Request]
      /\ scan \in [Schedulers -> Scan]
      /\ HeldDue
      /\ HeldOnce
  BY DEF ScanInv, TypeOK
<1>b. \A s \in Schedulers : scan[s].jobs \subseteq Jobs
  BY <1>a DEF Scan
<1>c. \A s \in Schedulers : \A j \in scan[s].jobs : Locked(j)
  BY DEF Locked
<1>d. ASSUME UNCHANGED <<jobs, scan>> PROVE HeldDue' /\ HeldOnce'
  BY <1>a, <1>d, LocksKept
<1>1. ASSUME NEW j \in Jobs, NEW status \in Statuses, NEW rule \in Rules,
             CreateJob(j, status, rule)
      PROVE  HeldDue' /\ HeldOnce'
  <2>1. \A s \in Schedulers : j \notin scan[s].jobs
    BY <1>1, <1>a DEF CreateJob, HeldDue, Due, Exists
  <2>2. QED
    BY <1>1, <1>a, <1>b, <2>1, LocksKept DEF CreateJob
<1>2. ASSUME NEW c \in Clients, UpdateCommit(c) \/ DeleteCommit(c)
      PROVE  HeldDue' /\ HeldOnce'
  <2>1. scan' = scan
    BY <1>2 DEF UpdateCommit, DeleteCommit
  <2>2. \A j \in Jobs : Locked(j) => jobs'[j] = jobs[j]
    BY <1>2, <1>a DEF UpdateCommit, DeleteCommit
  <2>3. QED
    BY <1>a, <1>b, <1>c, <2>1, <2>2, LocksKept
<1>3. ASSUME NEW s \in Schedulers, ScanLoad(s) PROVE HeldDue' /\ HeldOnce'
  <2>1. /\ jobs' = jobs
        /\ scan'[s].jobs = {j \in Jobs : Due(j) /\ ~Locked(j)}
        /\ \A u \in Schedulers \ {s} : scan'[u] = scan[u]
    BY <1>3, <1>a DEF ScanLoad
  <2>2. HeldDue'
    BY <1>a, <2>1 DEF HeldDue, Due, Exists
  <2>3. HeldOnce'
    BY <1>a, <1>c, <2>1 DEF HeldOnce
  <2>4. QED
    BY <2>2, <2>3
<1>4. ASSUME NEW s \in Schedulers, ScanCommit(s) PROVE HeldDue' /\ HeldOnce'
  <2>1. PICK sat \in Satisfiable(s) :
            jobs' = [j \in Jobs |->
                IF j \in sat THEN [jobs[j] EXCEPT !.next_run_at = scan[s].next[j]]
                             ELSE jobs[j]]
    BY <1>4 DEF ScanCommit
  <2>2. /\ scan'[s].jobs = {}
        /\ \A u \in Schedulers \ {s} : scan'[u] = scan[u]
    BY <1>4, <1>a DEF ScanCommit, IdleScan
  <2>3. sat \subseteq scan[s].jobs
    BY DEF Satisfiable
  <2>4. \A u \in Schedulers : \A j \in scan'[u].jobs : j \in Jobs /\ j \notin sat
    BY <1>a, <1>b, <2>2, <2>3 DEF HeldOnce
  <2>5. \A u \in Schedulers : \A j \in scan'[u].jobs : jobs'[j] = jobs[j]
    BY <2>1, <2>4
  <2>6. \A u \in Schedulers : scan'[u].jobs \subseteq scan[u].jobs
    BY <2>2
  <2>7. QED
    BY <1>a, <2>5, <2>6, LocksKept
<1>5. ASSUME NEW s \in Schedulers, ScanRaises(s) \/ ReleaseLocks(s) \/ SchedulerCrash(s)
      PROVE  HeldDue' /\ HeldOnce'
  <2>1. jobs' = jobs /\ scan' = [scan EXCEPT ![s] = IdleScan]
    BY <1>5 DEF ScanRaises, ReleaseLocks, SchedulerCrash
  <2>2. \A u \in Schedulers : scan'[u].jobs \subseteq scan[u].jobs
    BY <1>a, <2>1 DEF IdleScan
  <2>3. QED
    BY <1>a, <2>1, <2>2, LocksKept
<1>6. ASSUME Tick PROVE HeldDue' /\ HeldOnce'
  <2>1. \A s \in Schedulers : scan'[s].jobs = scan[s].jobs
    BY <1>6, <1>a DEF Tick, Scan
  <2>2. ASSUME NEW s \in Schedulers, NEW j \in scan[s].jobs PROVE Due(j)'
    <3>1. Due(j) /\ j \in Jobs
      BY <1>a, <1>b DEF HeldDue
    <3>2. QED
      BY <1>6, <1>a, <3>1, TickKeepsDue
  <2>3. QED
    BY <1>a, <2>1, <2>2 DEF HeldDue, HeldOnce
<1>7. ASSUME UNCHANGED vars PROVE HeldDue' /\ HeldOnce'
  BY <1>7, <1>d DEF vars
<1>8. ASSUME NEW c \in Clients, NEW j \in Jobs, NEW status, NEW rule,
             UpdateLoad(c, j, status, rule) \/ DeleteLoad(c, j)
      PROVE  HeldDue' /\ HeldOnce'
  BY <1>8, <1>d DEF UpdateLoad, DeleteLoad
<1>9. QED
  BY <1>1, <1>2, <1>3, <1>4, <1>5, <1>6, <1>7, <1>8 DEF Next, SchedulerStep

LEMMA ScanInvariant == Spec => []ScanInv
  <1>1. ScanInv /\ [Next]_vars => ScanInv'
    BY TypeStep, LockStep DEF ScanInv
  <1>2. QED
    BY <1>1, ScanInvInit, PTL DEF Spec

\* The jobs table, the requests and the scans keep their types: in
\* particular scan_due_jobs writes only rows that still exist at its commit.
THEOREM SchedulerTypes == Spec => []TypeOK
  <1>1. ScanInv => TypeOK
    BY DEF ScanInv
  <1>2. QED
    BY <1>1, ScanInvariant, PTL

\* Whatever the number of scheduler replicas and of requests in flight, a
\* scan inserts runs only for jobs that are switched on and due at its commit.
THEOREM OnlyDueScheduled == Spec => ScheduledWhenDue
  <1>1. ScanInv /\ [Next]_vars => [\A j \in scheduled' : Due(j)]_vars
    <2> SUFFICES ASSUME ScanInv, Next PROVE \A j \in scheduled' : Due(j)
      OBVIOUS
    <2>1. CASE \E s \in Schedulers : ScanCommit(s)
      <3>1. PICK s \in Schedulers : ScanCommit(s)
        BY <2>1
      <3>2. scheduled' \subseteq scan[s].jobs
        BY <3>1 DEF ScanCommit, Satisfiable
      <3>3. QED
        BY <3>2 DEF ScanInv, HeldDue
    <2>2. CASE ~ \E s \in Schedulers : ScanCommit(s)
      <3>1. scheduled' = {}
        BY <2>2 DEF Next, SchedulerStep, CreateJob, UpdateLoad, DeleteLoad, UpdateCommit,
                    DeleteCommit, ScanLoad, ScanRaises, ReleaseLocks, SchedulerCrash, Tick, Quiet
      <3>2. QED
        BY <3>1
    <2>3. QED
      BY <2>1, <2>2
  <1>2. QED
    BY <1>1, ScanInvariant, PTL DEF Spec, ScheduledWhenDue

\* Whatever the number of scheduler replicas and of requests in flight, a job
\* that is due stays due until the step that inserts its run or commits a
\* request on the job itself: no scan moves next_run_at past an occurrence.
THEOREM OccurrencesKept == Spec => OccurrenceKept
  <1> DEFINE Kept == \A j \in Jobs : Due(j) /\ ~Due(j)' => j \in scheduled' \cup touched'
  <1>1. ASSUME TypeOK, Next PROVE Kept
    <2> SUFFICES ASSUME NEW j \in Jobs, Due(j), j \notin scheduled', j \notin touched'
                 PROVE  Due(j)'
      OBVIOUS
    <2>a. jobs \in [Jobs -> Job \cup {NoJob, Deleted}]
      BY <1>1 DEF TypeOK
    <2>b. jobs'[j] = jobs[j] => Due(j)'
      BY DEF Due, Exists
    <2>1. ASSUME NEW k \in Jobs, NEW status, NEW rule, CreateJob(k, status, rule)
          PROVE  Due(j)'
      <3>1. k # j
        BY <2>1 DEF CreateJob, Due, Exists
      <3>2. QED
        BY <2>1, <2>a, <2>b, <3>1 DEF CreateJob
    <2>2. ASSUME NEW c \in Clients, UpdateCommit(c) \/ DeleteCommit(c) PROVE Due(j)'
      BY <2>2, <2>a, <2>b DEF UpdateCommit, DeleteCommit
    <2>3. ASSUME NEW s \in Schedulers, ScanCommit(s) PROVE Due(j)'
      BY <2>3, <2>b DEF ScanCommit
    <2>4. CASE Tick
      BY <2>4, <2>a, TickKeepsDue
    <2>5. CASE UNCHANGED jobs
      BY <2>5, <2>b
    <2>6. QED
      BY <1>1, <2>1, <2>2, <2>3, <2>4, <2>5
         DEF Next, SchedulerStep, UpdateLoad, DeleteLoad, ScanLoad, ScanRaises, ReleaseLocks,
             SchedulerCrash
  <1> HIDE DEF Kept
  <1>2. TypeOK /\ [Next]_vars => [Kept]_vars
    BY <1>1
  <1>3. Spec => [][Kept]_vars
    BY <1>2, SchedulerTypes, PTL DEF Spec
  <1>4. QED
    BY <1>3 DEF Kept, OccurrenceKept

-----------------------------------------------------------------------------
(* One request at a time.  What a request in flight will write fits what is *)
(* in the table, although scans may have moved next_run_at since the load:  *)
(* a column it does not write has the value it has computed, except for     *)
(* next_run_at, of which only "not NULL" is known.                          *)

ConsistentRow(row) ==
    /\ row.enabled <=> row.status \in Active
    /\ row.next_run_at # NULL => row.enabled /\ Computable(row.rule)

Fits(row, new, cols) ==
    /\ "status" \in cols \/ row.status = new.status
    /\ "enabled" \in cols \/ row.enabled = new.enabled
    /\ "rule" \in cols \/ row.rule = new.rule
    /\ "next_run_at" \in cols \/ row.next_run_at = NULL \/ new.next_run_at # NULL

FitsTable(r) ==
    /\ jobs[r.job] # NoJob
    /\ ConsistentRow(r.new)
    /\ Exists(r.job) => Fits(jobs[r.job], r.new, r.cols)

UpdatesFit == \A c \in Clients : req[c].op = "update" => FitsTable(req[c])

RowInv == RowConsistent /\ UpdatesFit

SingleClient == \A c, d \in Clients : c = d

LEMMA RowInvInit == Init => RowInv
  <1> SUFFICES ASSUME Init PROVE RowInv
    OBVIOUS
  <1>1. \A j \in Jobs : ~Exists(j)
    BY DEF Init, Exists
  <1>2. \A c \in Clients : req[c].op # "update"
    BY JobSchedulerAssumption DEF Init, IdleRequest
  <1>3. QED
    BY <1>1, <1>2 DEF RowInv, RowConsistent, UpdatesFit

\* The commit of a request that fits leaves a consistent row.
LEMMA MergedRow ==
    ASSUME NEW row, NEW new, NEW cols, ConsistentRow(new), Fits(row, new, cols)
    PROVE  ConsistentRow(WriteBack(row, new, cols))
  <1> DEFINE m == WriteBack(row, new, cols)
  <1>1. m.status = new.status /\ m.enabled = new.enabled /\ m.rule = new.rule
    BY DEF WriteBack, Fits
  <1>2. m.next_run_at # NULL => new.next_run_at # NULL
    BY DEF WriteBack, Fits
  <1> HIDE DEF m
  <1>3. ConsistentRow(m)
    BY <1>1, <1>2 DEF ConsistentRow
  <1>4. QED
    BY <1>3 DEF m

LEMMA RowInvStep ==
    ASSUME SingleClient, ScanInv, RowInv, [Next]_vars
    PROVE  RowInv'
<1>a. /\ jobs \in [Jobs -> Job \cup {NoJob, Deleted}]
      /\ phase \in 1..CronPeriod
      /\ req \in [Clients -> Request]
      /\ scan \in [Schedulers -> Scan]
      /\ HeldDue
  BY DEF ScanInv, TypeOK
<1>b. /\ \A j \in Jobs : Exists(j) => ConsistentRow(jobs[j])
      /\ UpdatesFit
  BY DEF RowInv, RowConsistent, ConsistentRow
<1>c. ASSUME UNCHANGED <<jobs, req>> PROVE RowInv'
  BY <1>c, <1>b DEF RowInv, RowConsistent, ConsistentRow, UpdatesFit, FitsTable, Exists
<1>d. NULL # "update"
  BY JobSchedulerAssumption
<1>e. ASSUME \A j \in Jobs : Exists(j)' => ConsistentRow(jobs'[j]), UpdatesFit' PROVE RowInv'
  BY <1>e DEF RowInv, RowConsistent, ConsistentRow
<1>f. \A j \in Jobs : Exists(j) => jobs[j] \in Job
  BY <1>a DEF Exists
<1>1. ASSUME NEW j \in Jobs, NEW status \in Statuses, NEW rule \in Rules,
             CreateJob(j, status, rule)
      PROVE  RowInv'
  <2> DEFINE row == [status |-> status, enabled |-> TRUE, rule |-> rule, next_run_at |-> NULL]
             new == SyncDomainLogic(row)
  <2>1. row.status \in JobStatus /\ row.rule \in Rule
    BY JobSchedulerAssumption
  <2>2. ConsistentRow(new)
    BY <1>a, <2>1, SyncResult DEF ConsistentRow
  <2>3. jobs' = [jobs EXCEPT ![j] = new] /\ req' = req /\ jobs[j] = NoJob
    BY <1>1 DEF CreateJob
  <2> HIDE DEF new
  <2>4. \A k \in Jobs : Exists(k)' => ConsistentRow(jobs'[k])
    BY <1>a, <1>b, <2>2, <2>3 DEF Exists
  <2>5. ASSUME NEW c \in Clients, req[c].op = "update" PROVE FitsTable(req[c])'
    <3>1. FitsTable(req[c]) /\ req[c].job \in Jobs
      BY <1>a, <1>b, <2>5, RequestForms DEF UpdatesFit
    <3>2. jobs'[req[c].job] = jobs[req[c].job]
      BY <1>a, <2>3, <3>1 DEF FitsTable
    <3>3. QED
      BY <2>3, <3>1, <3>2 DEF FitsTable, Exists
  <2>6. QED
    BY <1>e, <2>3, <2>4, <2>5 DEF UpdatesFit
<1>2. ASSUME NEW c \in Clients, NEW j \in Jobs, NEW status \in Statuses \cup {NULL},
             NEW rule \in Rules \cup {NULL}, UpdateLoad(c, j, status, rule)
      PROVE  RowInv'
  <2> DEFINE row == [jobs[j] EXCEPT !.status = IF status = NULL THEN @ ELSE status,
                                    !.rule   = IF rule = NULL THEN @ ELSE rule]
             new == SyncDomainLogic(row)
  <2>1. jobs[j] \in Job /\ Exists(j)
    BY <1>2, <1>f DEF UpdateLoad
  <2>2. row.status \in JobStatus /\ row.rule \in Rule
    BY <2>1, JobSchedulerAssumption DEF Job
  <2>3. ConsistentRow(new)
    BY <1>a, <2>2, SyncResult DEF ConsistentRow
  <2>4. /\ req' = [req EXCEPT ![c] = UpdateRequest(j, new, Dirty(jobs[j], new))]
        /\ jobs' = jobs
    BY <1>2 DEF UpdateLoad
  <2> HIDE DEF new
  <2>5. Fits(jobs[j], new, Dirty(jobs[j], new))
    BY DEF Fits, Dirty, Columns
  <2>6. /\ UpdateRequest(j, new, Dirty(jobs[j], new)).job = j
        /\ UpdateRequest(j, new, Dirty(jobs[j], new)).new = new
        /\ UpdateRequest(j, new, Dirty(jobs[j], new)).cols = Dirty(jobs[j], new)
    BY DEF UpdateRequest
  <2>7. FitsTable(UpdateRequest(j, new, Dirty(jobs[j], new)))
    BY <2>1, <2>3, <2>5, <2>6 DEF FitsTable, Exists
  <2>8. \A d \in Clients : req'[d].op = "update" => FitsTable(req'[d])
    BY <1>a, <1>b, <2>4, <2>7 DEF UpdatesFit
  <2>9. UpdatesFit'
    BY <2>4, <2>8 DEF UpdatesFit, FitsTable, Exists
  <2>10. QED
    BY <1>b, <1>e, <2>4, <2>9 DEF Exists
<1>3. ASSUME NEW c \in Clients, NEW j \in Jobs, DeleteLoad(c, j) PROVE RowInv'
  <2>1. jobs' = jobs /\ req' = [req EXCEPT ![c] = DeleteRequest(j, FALSE)]
    BY <1>3 DEF DeleteLoad
  <2>2. \A d \in Clients : req'[d].op = "update" => req'[d] = req[d]
    BY <1>a, <2>1 DEF DeleteRequest
  <2>3. UpdatesFit'
    BY <1>b, <2>1, <2>2 DEF UpdatesFit, FitsTable, Exists
  <2>4. QED
    BY <1>b, <1>e, <2>1, <2>3 DEF Exists
<1>4. ASSUME NEW c \in Clients, UpdateCommit(c) PROVE RowInv'
  <2> DEFINE j == req[c].job
  <2>1. \A d \in Clients : req'[d] = IdleRequest
    BY <1>4, <1>a DEF UpdateCommit, SingleClient
  <2>2. UpdatesFit'
    BY <1>d, <2>1 DEF UpdatesFit, IdleRequest
  <2>3. FitsTable(req[c]) /\ j \in Jobs
    BY <1>4, <1>a, <1>b, RequestForms DEF UpdateCommit, UpdatesFit
  <2>4. \A k \in Jobs : Exists(k)' => ConsistentRow(jobs'[k])
    <3>1. CASE UNCHANGED jobs
      BY <1>b, <3>1 DEF Exists
    <3>2. CASE Exists(j) /\ jobs' = [jobs EXCEPT ![j] =
                                       WriteBack(@, req[c].new, req[c].cols)]
      <4>1. ConsistentRow(WriteBack(jobs[j], req[c].new, req[c].cols))
        BY <2>3, <3>2, MergedRow DEF FitsTable
      <4>2. QED
        BY <1>a, <1>b, <3>2, <4>1 DEF Exists
    <3>3. QED
      BY <1>4, <3>1, <3>2 DEF UpdateCommit
  <2>5. QED
    BY <1>e, <2>2, <2>4
<1>5. ASSUME NEW c \in Clients, DeleteCommit(c) PROVE RowInv'
  <2>1. \A d \in Clients : req'[d] = IdleRequest
    BY <1>5, <1>a DEF DeleteCommit, SingleClient
  <2>2. UpdatesFit'
    BY <1>d, <2>1 DEF UpdatesFit, IdleRequest
  <2>3. \A k \in Jobs : jobs'[k] = jobs[k] \/ jobs'[k] = Deleted
    BY <1>5, <1>a DEF DeleteCommit
  <2>4. \A k \in Jobs : Exists(k)' => ConsistentRow(jobs'[k])
    BY <1>b, <2>3 DEF Exists
  <2>5. QED
    BY <1>e, <2>2, <2>4
<1>6. ASSUME NEW s \in Schedulers, ScanCommit(s) PROVE RowInv'
  <2>1. PICK sat \in Satisfiable(s) :
            /\ \A j \in sat : scan[s].next[j] # NULL
            /\ jobs' = [j \in Jobs |->
                   IF j \in sat THEN [jobs[j] EXCEPT !.next_run_at = scan[s].next[j]]
                                ELSE jobs[j]]
            /\ req' = [c \in Clients |->
                   IF req[c].op = "delete" /\ req[c].job \in sat
                   THEN DeleteRequest(req[c].job, TRUE) ELSE req[c]]
    BY <1>6 DEF ScanCommit
  <2>2. sat \subseteq scan[s].jobs /\ sat \subseteq Jobs
    BY <1>a DEF Satisfiable, Scan
  <2>3. ASSUME NEW j \in Jobs, Exists(j)
        PROVE  /\ jobs'[j].status = jobs[j].status
               /\ jobs'[j].enabled = jobs[j].enabled
               /\ jobs'[j].rule = jobs[j].rule
               /\ jobs'[j].next_run_at = NULL <=> jobs[j].next_run_at = NULL
    <3>1. jobs[j] \in Job
      BY <1>f, <2>3
    <3>2. CASE j \in sat
      <4>1. jobs[j].next_run_at # NULL
        BY <1>a, <2>2, <3>2 DEF HeldDue, Due
      <4>2. QED
        BY <2>1, <3>1, <3>2, <4>1 DEF Job
    <3>3. CASE j \notin sat
      BY <2>1, <3>3
    <3>4. QED
      BY <3>2, <3>3
  <2>4. \A j \in Jobs : Exists(j)' => Exists(j)
    <3>1. \A j \in sat : Exists(j)
      BY <1>a, <2>2 DEF HeldDue, Due
    <3>2. QED
      BY <2>1, <3>1 DEF Exists
  <2>5. \A j \in Jobs : Exists(j)' => ConsistentRow(jobs'[j])
    BY <1>b, <2>3, <2>4 DEF ConsistentRow
  <2>6. ASSUME NEW c \in Clients, req'[c].op = "update" PROVE FitsTable(req[c])'
    <3>1. req'[c] = req[c]
      BY <2>1, <2>6 DEF DeleteRequest
    <3>2. FitsTable(req[c]) /\ req[c].job \in Jobs
      BY <1>a, <1>b, <2>6, <3>1, RequestForms DEF UpdatesFit
    <3>3. jobs'[req[c].job] # NoJob
      <4>1. CASE req[c].job \in sat
        <5>1. jobs[req[c].job] \in Job
          BY <1>a, <1>f, <2>2, <4>1 DEF HeldDue, Due
        <5>2. scan[s].next[req[c].job] \in Instant \cup {NULL}
          BY <1>a, <3>2 DEF Scan
        <5>3. jobs'[req[c].job] \in Job
          BY <2>1, <3>2, <4>1, <5>1, <5>2 DEF Job
        <5>4. QED
          BY <5>3, NoJobAssumption
      <4>2. CASE req[c].job \notin sat
        BY <2>1, <3>2, <4>2 DEF FitsTable
      <4>3. QED
        BY <4>1, <4>2
    <3>4. ASSUME Exists(req[c].job) PROVE Fits(jobs'[req[c].job], req[c].new, req[c].cols)
      <4>1. Fits(jobs[req[c].job], req[c].new, req[c].cols)
        BY <3>2, <3>4 DEF FitsTable
      <4>2. QED
        BY <2>3, <3>2, <3>4, <4>1 DEF Fits
    <3>5. QED
      BY <2>4, <3>1, <3>2, <3>3, <3>4 DEF FitsTable
  <2>7. UpdatesFit'
    BY <2>6 DEF UpdatesFit
  <2>8. QED
    BY <1>e, <2>5, <2>7
<1>7. ASSUME NEW s \in Schedulers,
             ScanLoad(s) \/ ScanRaises(s) \/ ReleaseLocks(s) \/ SchedulerCrash(s)
      PROVE  RowInv'
  BY <1>7, <1>c DEF ScanLoad, ScanRaises, ReleaseLocks, SchedulerCrash
<1>8. ASSUME Tick PROVE RowInv'
  <2>1. ASSUME NEW row \in Job
        PROVE  /\ EarlierRow(row) \in Job
               /\ EarlierRow(row).status = row.status
               /\ EarlierRow(row).enabled = row.enabled
               /\ EarlierRow(row).rule = row.rule
               /\ EarlierRow(row).next_run_at = NULL <=> row.next_run_at = NULL
    <3>1. EarlierRow(row) = [row EXCEPT !.next_run_at = Earlier(row.next_run_at)]
      BY EarlierRowType
    <3>2. Earlier(row.next_run_at) = NULL <=> row.next_run_at = NULL
      BY EarlierInstant DEF Job
    <3>3. QED
      BY <3>1, <3>2, EarlierRowType DEF Job
  <2>2. ASSUME NEW j \in Jobs
        PROVE  /\ Exists(j)' => Exists(j)
               /\ Exists(j) => jobs'[j] = EarlierRow(jobs[j])
               /\ jobs[j] # NoJob => jobs'[j] # NoJob
    <3>1. jobs'[j] = EarlierRow(jobs[j])
      BY <1>8 DEF Tick
    <3>2. CASE jobs[j] \in Job
      BY <3>1, <3>2, <2>1, NoJobAssumption DEF Exists
    <3>3. CASE jobs[j] \in {NoJob, Deleted}
      BY <3>1, <3>3 DEF EarlierRow, Exists
    <3>4. QED
      BY <1>a, <3>2, <3>3
  <2>3. \A j \in Jobs : Exists(j)' => ConsistentRow(jobs'[j])
    BY <1>b, <1>f, <2>1, <2>2 DEF ConsistentRow
  <2>4. ASSUME NEW c \in Clients, req'[c].op = "update" PROVE FitsTable(req[c])'
    <3>1. req[c] \in Request /\ req'[c] = [req[c] EXCEPT !.new = EarlierRow(@)]
      BY <1>8, <1>a DEF Tick
    <3>2. req[c].op = "update"
      BY <3>1, <2>4 DEF Request, IdleRequest
    <3>3. req[c] \in [op : {"update"}, job : Jobs, new : Job, cols : SUBSET Columns,
                      stale : {FALSE}]
      BY <3>1, <3>2, RequestForms
    <3>4. /\ req'[c].job = req[c].job
          /\ req'[c].cols = req[c].cols
          /\ req'[c].new = EarlierRow(req[c].new)
      BY <3>1, <3>3
    <3>5. FitsTable(req[c]) /\ req[c].job \in Jobs /\ req[c].new \in Job
      BY <1>b, <3>2, <3>3 DEF UpdatesFit
    <3>6. ConsistentRow(req'[c].new)
      BY <2>1, <3>4, <3>5 DEF FitsTable, ConsistentRow
    <3>7. ASSUME Exists(req[c].job)
          PROVE  Fits(jobs'[req[c].job], req'[c].new, req'[c].cols)
      <4>1. jobs'[req[c].job] = EarlierRow(jobs[req[c].job]) /\ jobs[req[c].job] \in Job
        BY <1>f, <2>2, <3>5, <3>7
      <4>2. Fits(jobs[req[c].job], req[c].new, req[c].cols)
        BY <3>5, <3>7 DEF FitsTable
      <4>3. QED
        BY <2>1, <3>4, <3>5, <4>1, <4>2 DEF Fits
    <3>8. QED
      BY <2>2, <3>4, <3>5, <3>6, <3>7 DEF FitsTable
  <2>5. QED
    BY <1>e, <2>3, <2>4 DEF UpdatesFit
<1>9. ASSUME UNCHANGED vars PROVE RowInv'
  BY <1>9, <1>c DEF vars
<1>10. QED
  BY <1>1, <1>2, <1>3, <1>4, <1>5, <1>6, <1>7, <1>8, <1>9 DEF Next, SchedulerStep

\* When requests come one at a time, enabled follows status and a job has a
\* next_run_at only while it is enabled and its rule can be computed, for
\* any number of scheduler replicas between a request's load and its commit.
THEOREM ColumnsConsistent ==
    ASSUME SingleClient
    PROVE  Spec => []RowConsistent
  <1>1. ScanInv /\ RowInv /\ [Next]_vars => RowInv'
    BY RowInvStep
  <1>2. RowInv => RowConsistent
    BY DEF RowInv
  <1>3. QED
    BY <1>1, <1>2, RowInvInit, ScanInvariant, PTL DEF Spec
=============================================================================
