--------------------------- MODULE JobRunsProofs ---------------------------
(***************************************************************************)
(* What holds of JobRuns for every number of jobs, runs, workers,           *)
(* schedulers and requests.                                                *)
(***************************************************************************)
EXTENDS JobRuns, TLAPS

-----------------------------------------------------------------------------
(* The operations of RunTable keep rows rows.                              *)

\* complete, start, claim, release and the awaiting update yield rows.
LEMMA RowOperations ==
    ASSUME NEW row \in Row
    PROVE  /\ \A status \in Finished : Complete(row, status) \in Row
           /\ Start(row) \in Row
           /\ \A w \in WorkerIds : Claim(row, w) \in Row
           /\ Release(row) \in Row
           /\ [row EXCEPT !.status = "awaiting_result"] \in Row
<1>1. \A status \in Finished : Complete(row, status) \in Row
  BY DEF Complete, Row, Status
<1>2. Start(row) \in Row
  BY DEF Start, Row, Status
<1>3. LockSeconds \in Lease
  BY RunTableAssumption DEF Lease, Expired
<1>4. \A w \in WorkerIds : Claim(row, w) \in Row
  BY <1>3 DEF Claim, Row, Status
<1>5. Release(row) \in Row
  BY DEF Release, Row, Status
<1>6. [row EXCEPT !.status = "awaiting_result"] \in Row
  BY DEF Row, Status
<1>7. QED
  BY <1>1, <1>2, <1>4, <1>5, <1>6

\* update_status yields a row for every status a caller can pass.
LEMMA UpdatedType ==
    ASSUME NEW row \in Row, NEW status \in Finished \cup {"running"}
    PROVE  Updated(row, status) \in Row
  BY RowOperations DEF Updated, Finished

\* Writing a row back, column by column, yields a row.
LEMMA WriteBackType ==
    ASSUME NEW cur \in Row, NEW loaded, NEW new \in Row
    PROVE  WriteBack(cur, loaded, new) \in Row
  BY DEF WriteBack, Row

\* Inserted rows are rows.
LEMMA InsertedType ==
    /\ \A j \in Jobs : NewRun(j) \in Row
    /\ \A row \in Row, r \in RunIds : RetryRun(row, r) \in Row
<1>1. ASSUME NEW j \in Jobs PROVE NewRun(j) \in Row
  BY DEF NewRun, Row, Status
<1>2. ASSUME NEW row \in Row, NEW r \in RunIds PROVE RetryRun(row, r) \in Row
  <2>1. row.job \in Jobs /\ row.retry_count + 1 \in Nat
    BY DEF Row
  <2>2. NewRun(row.job) \in Row
    BY <1>1, <2>1
  <2>3. QED
    BY <2>1, <2>2 DEF RetryRun, Row
<1>3. QED
  BY <1>1, <1>2

\* The passing of time keeps rows rows and missing rows missing.
LEMMA AgeRowType ==
    ASSUME NEW row \in Row \cup {NoRun}
    PROVE  /\ AgeRow(row) \in Row \cup {NoRun}
           /\ AgeRow(row) = NoRun <=> row = NoRun
  BY RunTableAssumption DEF AgeRow, Row, Lease, Expired
-----------------------------------------------------------------------------
(* Type correctness.  The type of a commit depends on what was loaded for   *)
(* it and on the row still being there, so the invariant also says that a   *)
(* process that is about to commit has loaded a row, and that the rows a     *)
(* consumer has locked exist and are not being deleted.                      *)

TaskShape ==
    \A t \in Consumers :
        /\ task[t].pc \in {"claimed", "locked", "executing"} => task[t].run \in RunIds
        /\ task[t].pc \in {"claimed", "executing"} => task[t].loaded \in Row
        /\ task[t].pc = "claimed" => task[t].run \in task[t].held

HeldRowsExist ==
    \A t \in Consumers : \A r \in task[t].held : runs[r] # NoRun /\ r \notin clear.held

RequestShape ==
    \A c \in Clients : req[c] # IdleRequest =>
        /\ req[c].op \in ClientOps
        /\ req[c].run \in RunIds
        /\ req[c].loaded \in Row

TypeInv == TypeOK /\ TaskShape /\ HeldRowsExist /\ RequestShape

\* A step that deletes no row.
RowsPersist == \A r \in RunIds : runs[r] # NoRun => runs'[r] # NoRun

\* Writing one row keeps the table a table and deletes nothing.
LEMMA OneRowWritten ==
    ASSUME runs \in Table, NEW r \in RunIds, NEW new \in Row,
           runs' = [runs EXCEPT ![r] = new]
    PROVE  runs' \in Table /\ RowsPersist
  BY RunTableAssumption DEF Table, RowsPersist

\* The table stays a table when update_status commits.
LEMMA UpdateStatusType ==
    ASSUME runs \in Table, nextRun \in 1..(MaxRuns + 1),
           NEW r \in RunIds, NEW loaded \in Row,
           NEW status \in Finished \cup {"running"},
           UpdateStatus(r, loaded, status)
    PROVE  runs' \in Table /\ nextRun' \in 1..(MaxRuns + 1) /\ RowsPersist
<1> DEFINE new == WriteBack(runs[r], loaded, Updated(loaded, status))
<1>1. runs[r] \in Row
  BY DEF UpdateStatus, Table
<1>2. new \in Row
  BY <1>1, UpdatedType, WriteBackType
<1>3. CASE AutoRetry(loaded, status)
  <2>1. RetryRun(loaded, r) \in Row
    BY InsertedType
  <2>2. nextRun <= MaxRuns /\ nextRun' = nextRun + 1
    BY <1>3 DEF UpdateStatus
  <2>3. nextRun \in RunIds
    BY <2>2, RunTableAssumption DEF RunIds
  <2>4. runs' = [[runs EXCEPT ![r] = new] EXCEPT ![nextRun] = RetryRun(loaded, r)]
    BY <1>3 DEF UpdateStatus, Table
  <2>5. QED
    BY <1>2, <2>1, <2>2, <2>3, <2>4, RunTableAssumption DEF Table, RowsPersist
<1>4. CASE ~AutoRetry(loaded, status)
  <2>1. runs' = [runs EXCEPT ![r] = new] /\ nextRun' = nextRun
    BY <1>4 DEF UpdateStatus, Table
  <2>2. QED
    BY <1>2, <2>1, OneRowWritten
<1>5. QED
  BY <1>3, <1>4

\* Initially everything is idle and the table is empty.
LEMMA TypeInit == Init => TypeInv
<1> SUFFICES ASSUME Init PROVE TypeInv
  OBVIOUS
<1>1. EmptyBatch \in Table
  BY DEF EmptyBatch, Table
<1>2. IdleTask \in TaskState
  BY RunTableAssumption DEF IdleTask, TaskState
<1>3. IdleRequest \in Request
  BY DEF IdleRequest, Request
<1>4. TypeOK
  <2>1. clear \in ClearState
    BY RunTableAssumption DEF Init, ClearState
  <2>2. QED
    BY <1>1, <1>2, <1>3, <2>1, RunTableAssumption, JobRunsAssumption DEF Init, TypeOK
<1>5. TaskShape /\ HeldRowsExist /\ RequestShape
  BY DEF Init, TaskShape, HeldRowsExist, RequestShape, IdleTask
<1>6. QED
  BY <1>4, <1>5 DEF TypeInv

\* Every step keeps the types.
LEMMA TypeStep == TypeInv /\ [Next]_vars => TypeInv'
<1> SUFFICES ASSUME TypeInv, [Next]_vars PROVE TypeInv'
  OBVIOUS
<1> DEFINE TaskOK == task \in [Consumers -> TaskState] /\ TaskShape
<1> DEFINE TableOK == runs \in Table /\ nextRun \in 1..(MaxRuns + 1)
<1> DEFINE RequestOK == req \in [Clients -> Request] /\ RequestShape
<1> DEFINE RestOK == /\ enabled \in [Jobs -> BOOLEAN]
                     /\ batch \in [Schedulers -> Table]
                     /\ clear \in ClearState
                     /\ crashes \in 0..MaxCrashes
<1>a. TaskOK /\ TableOK /\ RequestOK /\ RestOK /\ HeldRowsExist
  BY DEF TypeInv, TypeOK
<1>b. TaskOK' /\ TableOK' /\ RequestOK' /\ RestOK' /\ HeldRowsExist' => TypeInv'
  BY DEF TypeInv, TypeOK
<1>c. /\ EmptyBatch \in Table
      /\ IdleTask \in TaskState /\ IdleTask.pc = "idle" /\ IdleTask.held = {}
      /\ IdleRequest \in Request
  BY RunTableAssumption DEF EmptyBatch, Table, IdleTask, TaskState, IdleRequest, Request
\* the parts a step leaves alone
<1>d. /\ UNCHANGED req => RequestOK'
      /\ UNCHANGED task => TaskOK'
      /\ UNCHANGED <<runs, nextRun>> => TableOK'
      /\ UNCHANGED <<enabled, batch, clear, crashes>> => RestOK'
      /\ UNCHANGED runs => RowsPersist
  BY <1>a DEF RequestShape, TaskShape, RowsPersist
<1>e. ASSUME NEW t \in Consumers, task' = [task EXCEPT ![t] = IdleTask]
      PROVE  TaskOK' /\ \A u \in Consumers : task'[u].held \subseteq task[u].held
  BY <1>a, <1>c, <1>e DEF TaskShape
<1>f. ASSUME RowsPersist, \A u \in Consumers : task'[u].held \subseteq task[u].held,
             clear'.held \subseteq clear.held
      PROVE  HeldRowsExist'
  BY <1>a, <1>f DEF HeldRowsExist, RowsPersist, TaskState
<1>1. ASSUME NEW t \in Consumers, DequeueSelect(t) PROVE TypeInv'
  <2>1. PICK r \in Candidates(t) : task' = [task EXCEPT ![t] =
               ClaimedTask(r, runs[r], task[t].held \cup {r}, Deps[runs[r].job])]
    BY <1>1 DEF DequeueSelect
  <2>2. r \in RunIds /\ runs[r] \in Row /\ runs[r] # NoRun /\ r \notin clear.held
    BY <1>a DEF Candidates, Table
  <2> DEFINE held == task[t].held \cup {r}
  <2> DEFINE new == ClaimedTask(r, runs[r], held, Deps[runs[r].job])
  <2>3. held \in SUBSET RunIds /\ Deps[runs[r].job] \in SUBSET Dependency
    BY <1>a, <2>2, RunTableAssumption DEF TaskState, Row
  <2>4. new \in TaskState
    BY <2>2, <2>3, RunTableAssumption DEF ClaimedTask, TaskState
  <2>5. TaskOK' /\ task'[t].held = held
    BY <1>a, <2>1, <2>2, <2>4 DEF TaskShape, ClaimedTask
  <2>6. HeldRowsExist'
    BY <1>1, <1>a, <2>1, <2>2, <2>5 DEF HeldRowsExist, DequeueSelect
  <2>7. QED
    BY <1>1, <1>b, <1>d, <2>5, <2>6 DEF DequeueSelect
<1>1a. ASSUME NEW t \in Consumers, DequeueCheck(t) PROVE TypeInv'
  <2>1. PICK d \in task[t].todo : task' = [task EXCEPT ![t] =
               IF DependencySatisfied(runs, d)
               THEN ClaimedTask(task[t].run, task[t].loaded, task[t].held, task[t].todo \ {d})
               ELSE SelectingTask(task[t].held)]
    BY <1>1a DEF DequeueCheck
  <2>2. task[t] \in TaskState
    BY <1>a
  <2>3. /\ ClaimedTask(task[t].run, task[t].loaded, task[t].held, task[t].todo \ {d})
               \in TaskState
        /\ SelectingTask(task[t].held) \in TaskState
    BY <2>2, RunTableAssumption DEF ClaimedTask, SelectingTask, TaskState
  <2>4. TaskOK' /\ \A u \in Consumers : task'[u].held \subseteq task[u].held
    <3>1. task[t].pc = "claimed"
      BY <1>1a DEF DequeueCheck
    <3>2. QED
      BY <1>a, <2>1, <2>2, <2>3, <3>1 DEF TaskShape, ClaimedTask, SelectingTask
  <2>5. HeldRowsExist'
    BY <1>1a, <1>d, <1>f, <2>4 DEF DequeueCheck
  <2>6. QED
    BY <1>1a, <1>b, <1>d, <2>4, <2>5 DEF DequeueCheck
<1>2. ASSUME NEW t \in Consumers, DequeueNone(t) PROVE TypeInv'
  <2>1. TaskOK' /\ HeldRowsExist'
    BY <1>2, <1>d, <1>e, <1>f DEF DequeueNone
  <2>2. QED
    BY <1>2, <1>b, <1>d, <2>1 DEF DequeueNone
<1>3. ASSUME NEW t \in Consumers, DequeueCommit(t) PROVE TypeInv'
  <2> DEFINE r == task[t].run
  <2> DEFINE new == WriteBack(runs[r], task[t].loaded, Claim(task[t].loaded, WorkerIdOf[t]))
  <2>1. /\ r \in RunIds /\ task[t].loaded \in Row /\ WorkerIdOf[t] \in WorkerIds
        /\ runs[r] \in Row
    BY <1>3, <1>a, JobRunsAssumption DEF DequeueCommit, TaskShape, HeldRowsExist, Table
  <2>2. runs' = [runs EXCEPT ![r] = new]
    BY <1>3 DEF DequeueCommit
  <2>3. new \in Row
    BY <2>1, RowOperations, WriteBackType
  <2>4. runs' \in Table /\ RowsPersist
    BY <1>a, <2>1, <2>2, <2>3, OneRowWritten
  <2>5. LockedTask(r) \in TaskState
    BY <2>1, RunTableAssumption DEF LockedTask, TaskState
  <2>6. task' = [task EXCEPT ![t] = IF t \in PullClients THEN IdleTask ELSE LockedTask(r)]
    BY <1>3 DEF DequeueCommit
  <2>7. TaskOK' /\ \A u \in Consumers : task'[u].held \subseteq task[u].held
    BY <1>a, <1>c, <2>1, <2>5, <2>6 DEF TaskShape, LockedTask
  <2>8. QED
    BY <1>3, <1>a, <1>b, <1>d, <1>f, <2>4, <2>7 DEF DequeueCommit
<1>4. ASSUME NEW t \in Tasks, TaskLoad(t) PROVE TypeInv'
  <2> DEFINE r == task[t].run
  <2>1. t \in Consumers /\ r \in RunIds /\ task[t] \in TaskState
    BY <1>4, <1>a DEF TaskLoad, TaskShape, Consumers
  <2>2. CASE runs[r] = NoRun
    <3>1. task' = [task EXCEPT ![t] = IdleTask]
      BY <1>4, <1>a, <2>1, <2>2 DEF TaskLoad
    <3>2. QED
      BY <1>4, <1>b, <1>d, <1>e, <1>f, <2>1, <3>1 DEF TaskLoad
  <2>3. CASE runs[r] # NoRun
    <3> DEFINE new == ExecutingTask(r, runs[r], task[t].left)
    <3>1. task' = [task EXCEPT ![t] = new]
      BY <1>4, <1>a, <2>1, <2>3 DEF TaskLoad
    <3>2. new \in TaskState /\ runs[r] \in Row
      BY <1>a, <2>1, <2>3 DEF ExecutingTask, TaskState, Table
    <3>3. TaskOK' /\ \A u \in Consumers : task'[u].held \subseteq task[u].held
      BY <1>a, <2>1, <3>1, <3>2 DEF TaskShape, ExecutingTask
    <3>4. QED
      BY <1>4, <1>b, <1>d, <1>f, <3>3 DEF TaskLoad
  <2>4. QED
    BY <2>2, <2>3
<1>5. ASSUME NEW t \in Tasks, TaskFinish(t) PROVE TypeInv'
  <2>1. t \in Consumers /\ task[t].run \in RunIds /\ task[t].loaded \in Row
    BY <1>5, <1>a DEF TaskFinish, TaskShape, Consumers
  <2>2. CASE RunGone(task[t].run)
    BY <1>5, <1>b, <1>d, <1>e, <1>f, <2>1, <2>2 DEF TaskFinish, RunGone
  <2>3. CASE \E status \in {"success", "failed", "timeout"} :
                 UpdateStatus(task[t].run, task[t].loaded, status)
    <3>1. TableOK' /\ RowsPersist
      BY <1>a, <2>1, <2>3, UpdateStatusType DEF Finished
    <3>2. QED
      BY <1>5, <1>b, <1>d, <1>e, <1>f, <2>1, <3>1 DEF TaskFinish
  <2>4. QED
    BY <1>5, <2>2, <2>3 DEF TaskFinish
<1>6. ASSUME NEW t \in Tasks, TaskAwait(t) PROVE TypeInv'
  <2> DEFINE r == task[t].run
  <2>1. t \in Consumers /\ r \in RunIds /\ task[t].loaded \in Row
    BY <1>6, <1>a DEF TaskAwait, TaskShape, Consumers
  <2>2. CASE RunGone(r)
    BY <1>6, <1>b, <1>d, <1>e, <1>f, <2>1, <2>2 DEF TaskAwait, RunGone
  <2>3. CASE ~RunGone(r)
    <3> DEFINE new == WriteBack(runs[r], task[t].loaded,
                                [task[t].loaded EXCEPT !.status = "awaiting_result"])
    <3>1. runs[r] \in Row /\ runs' = [runs EXCEPT ![r] = new] /\ nextRun' = nextRun
      BY <1>6, <1>a, <2>1, <2>3 DEF TaskAwait, Table
    <3>2. new \in Row
      BY <2>1, <3>1, RowOperations, WriteBackType
    <3>3. TableOK' /\ RowsPersist
      BY <1>a, <2>1, <3>1, <3>2, OneRowWritten
    <3>4. QED
      BY <1>6, <1>b, <1>d, <1>e, <1>f, <2>1, <3>3 DEF TaskAwait
  <2>4. QED
    BY <2>2, <2>3
<1>7. ASSUME NEW s \in Schedulers, ReleaseLoad(s) PROVE TypeInv'
  <2>1. batch' \in [Schedulers -> Table]
    BY <1>7, <1>a DEF ReleaseLoad, Table
  <2>2. HeldRowsExist'
    BY <1>7, <1>d, <1>f DEF ReleaseLoad
  <2>3. QED
    BY <1>7, <1>a, <1>b, <1>d, <2>1, <2>2 DEF ReleaseLoad
<1>8. ASSUME NEW s \in Schedulers, ReleaseCommit(s) PROVE TypeInv'
  <2>1. batch' \in [Schedulers -> Table] /\ crashes' = crashes /\ enabled' = enabled
    BY <1>8, <1>a, <1>c DEF ReleaseCommit
  <2>2. runs' \in Table /\ RowsPersist
    <3>1. CASE UNCHANGED runs
      BY <1>a, <1>d, <3>1
    <3>2. CASE /\ \A r \in InBatch(s) : runs[r] # NoRun /\ ~RowLocked(r)
               /\ runs' = [r \in RunIds |->
                      IF r \in InBatch(s)
                      THEN WriteBack(runs[r], batch[s][r], Release(batch[s][r]))
                      ELSE runs[r]]
      <4>1. ASSUME NEW r \in RunIds
            PROVE  /\ runs'[r] \in Row \cup {NoRun}
                   /\ runs[r] # NoRun => runs'[r] # NoRun
        <5>1. CASE r \in InBatch(s)
          <6>1. runs[r] \in Row /\ batch[s][r] \in Row
            BY <1>a, <3>2, <5>1 DEF InBatch, Table
          <6>2. WriteBack(runs[r], batch[s][r], Release(batch[s][r])) \in Row
            BY <6>1, RowOperations, WriteBackType
          <6>3. QED
            BY <3>2, <5>1, <6>2, RunTableAssumption
        <5>2. CASE r \notin InBatch(s)
          BY <1>a, <3>2, <5>2 DEF Table
        <5>3. QED
          BY <5>1, <5>2
      <4>2. QED
        BY <3>2, <4>1 DEF Table, RowsPersist
    <3>3. QED
      BY <1>8, <3>1, <3>2 DEF ReleaseCommit
  <2>3. HeldRowsExist'
    BY <1>8, <1>f, <2>2 DEF ReleaseCommit
  <2>4. QED
    BY <1>8, <1>a, <1>b, <1>d, <2>1, <2>2, <2>3 DEF ReleaseCommit
<1>9. ASSUME NEW s \in Schedulers, SchedulerCrash(s) PROVE TypeInv'
  <2>1. RestOK'
    BY <1>9, <1>a, <1>c, JobRunsAssumption DEF SchedulerCrash
  <2>2. HeldRowsExist'
    BY <1>9, <1>d, <1>f DEF SchedulerCrash
  <2>3. QED
    BY <1>9, <1>b, <1>d, <2>1, <2>2 DEF SchedulerCrash
<1>10. ASSUME NEW c \in Clients, NEW op \in ClientOps, NEW r \in RunIds,
              RequestLoad(c, op, r)
       PROVE  TypeInv'
  <2> DEFINE new == [op |-> op, run |-> r, loaded |-> runs[r]]
  <2>1. runs[r] \in Row
    BY <1>10, <1>a DEF RequestLoad, Table
  <2>2. new \in Request
    BY <2>1 DEF Request
  <2>3. req' = [req EXCEPT ![c] = new]
    BY <1>10 DEF RequestLoad
  <2>4. RequestOK'
    BY <1>a, <2>1, <2>2, <2>3 DEF RequestShape
  <2>5. HeldRowsExist'
    BY <1>10, <1>d, <1>f DEF RequestLoad
  <2>6. QED
    BY <1>10, <1>b, <1>d, <2>4, <2>5 DEF RequestLoad
<1>11. ASSUME NEW c \in Clients, RequestCommit(c) PROVE TypeInv'
  <2> DEFINE r == req[c].run
  <2>1. r \in RunIds /\ req[c].loaded \in Row /\ req[c].op \in ClientOps
    BY <1>11, <1>a DEF RequestCommit, RequestShape
  <2>2. RequestOK'
    BY <1>11, <1>a, <1>c DEF RequestCommit, RequestShape
  <2>3. TableOK' /\ RowsPersist
    <3>1. CASE RunGone(r)
      BY <1>d, <3>1 DEF RunGone
    <3>2. CASE CommitRetry(r, req[c].loaded)
      <4>1. nextRun \in RunIds /\ nextRun' = nextRun + 1 /\ nextRun' \in 1..(MaxRuns + 1)
        BY <1>a, <3>2, RunTableAssumption DEF CommitRetry, RunIds
      <4>2. RetryRun(req[c].loaded, r) \in Row
        BY <2>1, InsertedType
      <4>3. QED
        BY <1>a, <3>2, <4>1, <4>2, OneRowWritten DEF CommitRetry
    <3>3. CASE req[c].op # "retry" /\ UpdateStatus(r, req[c].loaded, req[c].op)
      <4>1. req[c].op \in Finished \cup {"running"}
        BY <2>1, <3>3, JobRunsAssumption
      <4>2. QED
        BY <1>a, <2>1, <3>3, <4>1, UpdateStatusType
    <3>4. QED
      BY <1>11, <3>1, <3>2, <3>3 DEF RequestCommit
  <2>4. HeldRowsExist'
    BY <1>11, <1>f, <2>3 DEF RequestCommit
  <2>5. QED
    BY <1>11, <1>b, <1>d, <2>2, <2>3, <2>4 DEF RequestCommit
<1>12. ASSUME NEW j \in Jobs, Trigger(j) PROVE TypeInv'
  <2>1. nextRun \in RunIds /\ nextRun' = nextRun + 1 /\ nextRun' \in 1..(MaxRuns + 1)
    BY <1>12, <1>a, RunTableAssumption DEF Trigger, RunIds
  <2>2. TableOK' /\ RowsPersist
    BY <1>12, <1>a, <2>1, InsertedType, OneRowWritten DEF Trigger
  <2>3. HeldRowsExist'
    BY <1>12, <1>f, <2>2 DEF Trigger
  <2>4. QED
    BY <1>12, <1>b, <1>d, <2>2, <2>3 DEF Trigger
<1>13. ASSUME NEW j \in Jobs, SetEnabled(j) PROVE TypeInv'
  <2>1. enabled' \in [Jobs -> BOOLEAN]
    BY <1>13, <1>a DEF SetEnabled
  <2>2. HeldRowsExist'
    BY <1>13, <1>d, <1>f DEF SetEnabled
  <2>3. QED
    BY <1>13, <1>a, <1>b, <1>d, <2>1, <2>2 DEF SetEnabled
<1>14. ASSUME ClearStart PROVE TypeInv'
  <2>1. clear' \in ClearState /\ clear'.held = clear.held
    BY <1>14, <1>a DEF ClearStart, ClearState
  <2>2. RestOK' /\ HeldRowsExist'
    BY <1>14, <1>a, <1>d, <1>f, <2>1 DEF ClearStart
  <2>3. QED
    BY <1>14, <1>b, <1>d, <2>2 DEF ClearStart
<1>14a. ASSUME NEW r \in RunIds, ClearRow(r) PROVE TypeInv'
  <2>1. clear' \in ClearState /\ clear'.held = clear.held \cup {r}
    BY <1>14a, <1>a DEF ClearRow, ClearState
  <2>2. RestOK' /\ HeldRowsExist'
    BY <1>14a, <1>a, <2>1 DEF ClearRow, HeldRowsExist, RowLocked
  <2>3. QED
    BY <1>14a, <1>b, <1>d, <2>2 DEF ClearRow
<1>14b. ASSUME ClearCommit PROVE TypeInv'
  <2>1. TableOK' /\ \A r \in RunIds : runs'[r] = IF r < clear.below THEN NoRun ELSE runs[r]
    BY <1>14b, <1>a DEF ClearCommit, Table
  <2>2. clear' \in ClearState /\ clear'.held = {}
    BY <1>14b, <1>a, RunTableAssumption DEF ClearCommit, ClearState
  <2>3. \A t \in Consumers : \A r \in task[t].held :
            r \in RunIds /\ runs[r] # NoRun /\ runs'[r] = runs[r]
    BY <1>14b, <1>a, <2>1 DEF ClearCommit, HeldRowsExist, TaskState
  <2>4. RestOK' /\ HeldRowsExist'
    BY <1>14b, <1>a, <2>2, <2>3 DEF ClearCommit, HeldRowsExist
  <2>5. QED
    BY <1>14b, <1>b, <1>d, <2>1, <2>4 DEF ClearCommit
<1>14c. ASSUME ClearFails PROVE TypeInv'
  <2>1. clear' \in ClearState /\ clear'.held = {}
    <3>1. 0 \in 0..(MaxRuns + 1)
      BY RunTableAssumption
    <3>2. QED
      BY <1>14c, <1>a, <3>1 DEF ClearFails, ClearState
  <2>2. RestOK' /\ HeldRowsExist'
    BY <1>14c, <1>a, <1>d, <1>f, <2>1, JobRunsAssumption DEF ClearFails
  <2>3. QED
    BY <1>14c, <1>b, <1>d, <2>2 DEF ClearFails
<1>14d. ASSUME NEW t \in Consumers, TaskFails(t) PROVE TypeInv'
  <2>1. TaskOK' /\ HeldRowsExist'
    BY <1>14d, <1>d, <1>e, <1>f DEF TaskFails
  <2>2. RestOK'
    BY <1>14d, <1>a, JobRunsAssumption DEF TaskFails
  <2>3. QED
    BY <1>14d, <1>b, <1>d, <2>1, <2>2 DEF TaskFails
<1>15. ASSUME NEW p \in Pods, PodCrash(p) PROVE TypeInv'
  <2>1. TaskOK' /\ \A u \in Consumers : task'[u].held \subseteq task[u].held
    BY <1>15, <1>a, <1>c DEF PodCrash, TaskShape
  <2>2. RestOK'
    BY <1>15, <1>a, JobRunsAssumption DEF PodCrash
  <2>3. HeldRowsExist'
    BY <1>15, <1>d, <1>f, <2>1 DEF PodCrash
  <2>4. QED
    BY <1>15, <1>b, <1>d, <2>1, <2>2, <2>3 DEF PodCrash
<1>16. ASSUME Tick PROVE TypeInv'
  <2>1. TableOK' /\ RowsPersist
    BY <1>16, <1>a, AgeRowType DEF Tick, Table, RowsPersist
  <2>2. ASSUME NEW t \in Consumers
        PROVE  /\ task'[t] \in TaskState
               /\ task'[t].pc = task[t].pc /\ task'[t].run = task[t].run
               /\ task'[t].loaded = task[t].loaded /\ task'[t].held = task[t].held
    <3>1. task[t] \in TaskState
      BY <1>a
    <3>2. task'[t] = IF task[t].left > 0 THEN [task[t] EXCEPT !.left = @ - 1] ELSE task[t]
      BY <1>16 DEF Tick
    <3>3. QED
      BY <3>1, <3>2, RunTableAssumption DEF TaskState
  <2>3. TaskOK' /\ \A u \in Consumers : task'[u].held \subseteq task[u].held
    <3>1. task' \in [Consumers -> TaskState]
      BY <1>16, <2>2 DEF Tick
    <3>2. QED
      BY <1>a, <2>2, <3>1 DEF TaskShape
  <2>4. HeldRowsExist'
    BY <1>16, <1>f, <2>1, <2>3 DEF Tick
  <2>5. QED
    BY <1>16, <1>b, <1>d, <2>1, <2>3, <2>4 DEF Tick
<1>17. ASSUME UNCHANGED vars PROVE TypeInv'
  <2>1. HeldRowsExist'
    BY <1>17, <1>a DEF vars, HeldRowsExist
  <2>2. QED
    BY <1>17, <1>b, <1>d, <2>1 DEF vars
<1>18. QED
  BY <1>1, <1>1a, <1>2, <1>3, <1>4, <1>5, <1>6, <1>7, <1>8, <1>9, <1>10, <1>11, <1>12,
     <1>13, <1>14, <1>14a, <1>14b, <1>14c, <1>14d, <1>15, <1>16, <1>17
     DEF Next, DequeueStep, TaskStep, SchedulerStep, ClearStep

\* Every reachable state is well typed: the columns keep their types through
\* every mix of partial writes, whatever the numbers of processes.
THEOREM TypeCorrect == Spec => []TypeOK
<1>1. Spec => []TypeInv
  BY TypeInit, TypeStep, PTL DEF Spec
<1>2. TypeInv => TypeOK
  BY DEF TypeInv
<1>3. QED
  BY <1>1, <1>2, PTL

-----------------------------------------------------------------------------
(* Safety.  The properties relate a row to what some process loaded of it    *)
(* earlier, so the inductive invariant describes the snapshots too: a        *)
(* snapshot names an id that is not handed out again, it agrees with the row *)
(* in the columns nobody writes, and its lock columns are NULL together.     *)

Agree(row) == row.locked_by = NULL <=> row.locked_until = NULL

RowInv(row) == Agree(row) /\ (row.status = "pending" => row.locked_until = NULL)

\* The columns no operation writes after the insert.
SameIdentity(old, new) ==
    /\ new.job = old.job
    /\ new.retry_count = old.retry_count
    /\ new.retry_of = old.retry_of

Snapshot(r, row) ==
    /\ r < nextRun
    /\ Agree(row)
    /\ runs[r] # NoRun => row.job = runs[r].job /\ row.retry_count = runs[r].retry_count

\* the same of a snapshot taken before a step, after it
SnapshotNext(r, row) ==
    /\ r < nextRun'
    /\ Agree(row)
    /\ runs'[r] # NoRun => row.job = runs'[r].job /\ row.retry_count = runs'[r].retry_count

FreshIds == \A r \in RunIds : r >= nextRun => runs[r] = NoRun

ClaimedRows ==
    \A t \in Consumers : task[t].pc = "claimed" =>
        /\ runs[task[t].run] = task[t].loaded
        /\ task[t].loaded.status = "pending"
        /\ enabled[task[t].loaded.job]

LocksDisjoint ==
    \A t, u \in Consumers : t # u =>
        \A r \in task[t].held, q \in task[u].held : r # q /\ runs[r].job # runs[q].job

TaskSnapshots ==
    \A t \in Consumers :
        /\ task[t].pc \in {"locked", "executing"} => task[t].run < nextRun
        /\ task[t].pc = "executing" => Snapshot(task[t].run, task[t].loaded)

RequestSnapshots ==
    \A c \in Clients : req[c] # IdleRequest =>
        /\ Snapshot(req[c].run, req[c].loaded)
        /\ req[c].op = "retry" => RetryAllowed(req[c].loaded)

BatchSnapshots ==
    \A s \in Schedulers : \A r \in InBatch(s) :
        /\ r < nextRun
        /\ batch[s][r].status = "running"
        /\ batch[s][r].locked_until # NULL
        /\ batch[s][r].locked_by # NULL

ClearBound == clear.below <= nextRun

QueueInv ==
    /\ TypeInv
    /\ FreshIds
    /\ LeaseColumnsAgree
    /\ RetryBound
    /\ ClaimedRows
    /\ LocksDisjoint
    /\ TaskSnapshots
    /\ RequestSnapshots
    /\ BatchSnapshots
    /\ ClearBound

-----------------------------------------------------------------------------
(* What one step may do to the rows.                                       *)

\* An inserted row: the next id, queued, without a lease, and a retry of an
\* older run at most up to the limit.
Inserted(r) ==
    /\ r = nextRun /\ nextRun' = nextRun + 1
    /\ RowInv(runs'[r])
    /\ runs'[r].status = "pending"
    /\ runs'[r].retry_count <= MaxRetry[runs'[r].job]
    /\ LET q == runs'[r].retry_of IN
       q # NULL => /\ q < nextRun
                   /\ runs[q] # NoRun =>
                          /\ runs[q].job = runs'[r].job
                          /\ runs'[r].retry_count = runs[q].retry_count + 1

RowEvolves(r) ==
    \/ runs'[r] = NoRun
    \/ /\ runs[r] # NoRun
       /\ SameIdentity(runs[r], runs'[r])
       /\ RowInv(runs'[r])
    \/ Inserted(r)

RowsEvolve ==
    /\ nextRun' >= nextRun
    /\ \A r \in RunIds : RowEvolves(r)

\* If every row evolves like that, the facts about the table alone persist,
\* and so does every snapshot.
LEMMA RowsEvolveKeeps ==
    ASSUME QueueInv, TypeInv', RowsEvolve
    PROVE  /\ FreshIds' /\ LeaseColumnsAgree' /\ RetryBound'
           /\ \A r \in RunIds, row \in Row : Snapshot(r, row) => SnapshotNext(r, row)
           /\ \A r \in RunIds : runs[r] # NoRun /\ runs'[r] # NoRun =>
                  SameIdentity(runs[r], runs'[r])
<1>a. /\ nextRun \in Nat /\ nextRun' \in Nat /\ nextRun' >= nextRun
      /\ RunIds \subseteq Nat
      /\ runs \in Table /\ runs' \in Table
  BY RunTableAssumption DEF QueueInv, TypeInv, TypeOK, RunIds, RowsEvolve
<1>b. \A r \in RunIds : RowEvolves(r)
  BY DEF RowsEvolve
<1>c. \A r \in RunIds : r >= nextRun => runs[r] = NoRun
  BY DEF QueueInv, FreshIds
<1>1. FreshIds'
  <2> SUFFICES ASSUME NEW r \in RunIds, r >= nextRun' PROVE runs'[r] = NoRun
    BY DEF FreshIds
  <2>1. r \in Nat /\ r >= nextRun /\ runs[r] = NoRun
    BY <1>a, <1>c
  <2>2. ~Inserted(r)
    BY <1>a, <2>1 DEF Inserted
  <2>3. QED
    BY <1>b, <2>1, <2>2 DEF RowEvolves
<1>2. LeaseColumnsAgree'
  BY <1>b DEF LeaseColumnsAgree, RowEvolves, Inserted, RowInv, Agree
<1>3. \A r \in RunIds : runs[r] # NoRun /\ runs'[r] # NoRun =>
          SameIdentity(runs[r], runs'[r])
  BY <1>a, <1>b, <1>c DEF RowEvolves, Inserted
<1>4. \A r \in RunIds, row \in Row : Snapshot(r, row) => SnapshotNext(r, row)
  <2> SUFFICES ASSUME NEW r \in RunIds, NEW row \in Row, Snapshot(r, row)
               PROVE  SnapshotNext(r, row)
    OBVIOUS
  <2>1. r < nextRun /\ r < nextRun'
    BY <1>a DEF Snapshot
  <2>2. runs'[r] # NoRun => runs[r] # NoRun /\ SameIdentity(runs[r], runs'[r])
    BY <1>a, <1>b, <2>1 DEF RowEvolves, Inserted
  <2>3. QED
    BY <2>1, <2>2 DEF Snapshot, SnapshotNext, SameIdentity
<1>5. RetryBound'
  <2> SUFFICES ASSUME NEW r \in RunIds, runs'[r] # NoRun
               PROVE  /\ runs'[r].retry_count <= MaxRetry[runs'[r].job]
                      /\ LET q == runs'[r].retry_of IN
                         q # NULL =>
                            /\ q < r
                            /\ runs'[q] # NoRun =>
                                  /\ runs'[q].job = runs'[r].job
                                  /\ runs'[r].retry_count = runs'[q].retry_count + 1
    BY DEF RetryBound
  <2> DEFINE q == runs'[r].retry_of
  <2>1. q # NULL => q \in RunIds
    BY <1>a DEF Table, Row
  <2>a. \A p \in RunIds : p < nextRun /\ runs'[p] # NoRun =>
            /\ runs[p] # NoRun
            /\ runs'[p].job = runs[p].job /\ runs'[p].retry_count = runs[p].retry_count
    BY <1>a, <1>b DEF RowEvolves, Inserted, SameIdentity
  <2>2. CASE runs[r] # NoRun
    <3>1. SameIdentity(runs[r], runs'[r])
      BY <1>3, <2>2
    <3>2. /\ runs[r].retry_count <= MaxRetry[runs[r].job]
          /\ runs[r].retry_of # NULL =>
                /\ runs[r].retry_of < r
                /\ runs[runs[r].retry_of] # NoRun =>
                      /\ runs[runs[r].retry_of].job = runs[r].job
                      /\ runs[r].retry_count = runs[runs[r].retry_of].retry_count + 1
      BY <2>2 DEF QueueInv, RetryBound
    <3>3. r < nextRun
      BY <1>a, <1>c, <2>2
    <3>4. q = runs[r].retry_of
      BY <3>1 DEF SameIdentity
    <3>5. q # NULL => q < nextRun
      <4>1. r \in Int /\ nextRun \in Int /\ RunIds \subseteq Int
        BY <1>a
      <4>2. q # NULL => q \in Int /\ q < r
        BY <2>1, <3>2, <3>4, <4>1
      <4> HIDE DEF q
      <4>3. QED
        BY <3>3, <4>1, <4>2
    <3>6. q # NULL /\ runs'[q] # NoRun =>
              /\ runs[q] # NoRun
              /\ runs'[q].job = runs[q].job /\ runs'[q].retry_count = runs[q].retry_count
      BY <2>1, <3>5, <2>a
    <3>7. QED
      BY <3>1, <3>2, <3>4, <3>6 DEF SameIdentity
  <2>3. CASE runs[r] = NoRun
    <3>1. Inserted(r)
      BY <1>b, <2>3 DEF RowEvolves
    <3>2. q # NULL => q < nextRun
      BY <3>1 DEF Inserted
    <3>3. q # NULL /\ runs'[q] # NoRun =>
              /\ runs[q] # NoRun
              /\ runs'[q].job = runs[q].job /\ runs'[q].retry_count = runs[q].retry_count
      BY <2>1, <3>2, <2>a
    <3>4. QED
      BY <1>a, <3>1, <3>2, <3>3 DEF Inserted
  <2>4. QED
    BY <2>2, <2>3
<1>6. QED
  BY <1>1, <1>2, <1>3, <1>4, <1>5

\* Rows written back by update_status, by the awaiting update and by release
\* keep their identity and the shape of their lock columns.
LEMMA WrittenRows ==
    ASSUME NEW cur \in Row, NEW loaded \in Row, RowInv(cur), Agree(loaded)
    PROVE  /\ \A status \in Finished \cup {"running"} :
                  LET new == WriteBack(cur, loaded, Updated(loaded, status)) IN
                  SameIdentity(cur, new) /\ RowInv(new)
           /\ LET new == WriteBack(cur, loaded,
                                   [loaded EXCEPT !.status = "awaiting_result"]) IN
              SameIdentity(cur, new) /\ RowInv(new)
           /\ loaded.locked_until # NULL =>
                  LET new == WriteBack(cur, loaded, Release(loaded)) IN
                  SameIdentity(cur, new) /\ RowInv(new)
<1>1. ASSUME NEW status \in Finished
      PROVE  LET new == WriteBack(cur, loaded, Complete(loaded, status)) IN
             SameIdentity(cur, new) /\ RowInv(new)
  BY DEF WriteBack, Complete, SameIdentity, RowInv, Agree, Row, Finished
<1>2. LET new == WriteBack(cur, loaded, Start(loaded)) IN
      SameIdentity(cur, new) /\ RowInv(new)
  BY DEF WriteBack, Start, SameIdentity, RowInv, Agree, Row
<1>3. LET new == WriteBack(cur, loaded, [loaded EXCEPT !.status = "awaiting_result"]) IN
      SameIdentity(cur, new) /\ RowInv(new)
  BY DEF WriteBack, SameIdentity, RowInv, Agree, Row
<1>4. ASSUME loaded.locked_until # NULL
      PROVE  LET new == WriteBack(cur, loaded, Release(loaded)) IN
             SameIdentity(cur, new) /\ RowInv(new)
  BY <1>4 DEF WriteBack, Release, SameIdentity, RowInv, Agree, Row
<1>5. "running" \notin Finished
  BY DEF Finished
<1>6. QED
  BY <1>1, <1>2, <1>3, <1>4, <1>5 DEF Updated

\* Inserted rows satisfy what Inserted asks of them.
LEMMA InsertedRows ==
    /\ \A j \in Jobs : LET row == NewRun(j) IN
           /\ RowInv(row) /\ row.status = "pending" /\ row.job = j
           /\ row.retry_count = 0 /\ row.retry_of = NULL
    /\ \A old \in Row, r \in RunIds : LET row == RetryRun(old, r) IN
           /\ RowInv(row) /\ row.status = "pending" /\ row.job = old.job
           /\ row.retry_count = old.retry_count + 1 /\ row.retry_of = r
  BY DEF NewRun, RetryRun, RowInv, Agree

HeldKept == \A t \in Consumers : \A r \in task[t].held : runs'[r] = runs[r]

\* A locked row exists, so its id is not the next one.
LEMMA HeldAreOld ==
    ASSUME QueueInv
    PROVE  \A t \in Consumers : \A r \in task[t].held :
               r \in RunIds /\ r < nextRun /\ r # nextRun
<1>1. nextRun \in Nat /\ RunIds \subseteq Nat
  BY RunTableAssumption DEF QueueInv, TypeInv, TypeOK, RunIds
<1>2. task \in [Consumers -> TaskState] /\ HeldRowsExist /\ FreshIds
  BY DEF QueueInv, TypeInv, TypeOK
<1>3. QED
  BY <1>1, <1>2 DEF HeldRowsExist, FreshIds, TaskState

\* Inserting the retry of an old run.
LEMMA RetryInserted ==
    ASSUME QueueInv, NEW r \in RunIds, NEW loaded \in Row, Snapshot(r, loaded),
           loaded.retry_count < MaxRetry[loaded.job],
           nextRun' = nextRun + 1,
           runs'[nextRun] = RetryRun(loaded, r)
    PROVE  Inserted(nextRun)
<1>1. /\ RowInv(runs'[nextRun]) /\ runs'[nextRun].status = "pending"
      /\ runs'[nextRun].job = loaded.job
      /\ runs'[nextRun].retry_count = loaded.retry_count + 1
      /\ runs'[nextRun].retry_of = r
  BY InsertedRows
<1>2. loaded.retry_count \in Nat /\ MaxRetry[loaded.job] \in Nat
  BY RunTableAssumption DEF Row
<1>3. runs'[nextRun].retry_count <= MaxRetry[runs'[nextRun].job]
  BY <1>1, <1>2
<1>4. QED
  BY <1>1, <1>3 DEF Inserted, Snapshot

\* update_status from a snapshot.
LEMMA UpdateStatusEvolves ==
    ASSUME QueueInv, NEW r \in RunIds, NEW loaded \in Row, Snapshot(r, loaded),
           NEW status \in Finished \cup {"running"},
           UpdateStatus(r, loaded, status)
    PROVE  RowsEvolve /\ HeldKept
<1> DEFINE new == WriteBack(runs[r], loaded, Updated(loaded, status))
<1>a. /\ nextRun \in Nat /\ runs \in Table /\ runs[r] \in Row /\ r < nextRun
      /\ \A q \in RunIds : runs[q] # NoRun => RowInv(runs[q])
      /\ runs[r] # NoRun /\ ~RowLocked(r)
  BY RunTableAssumption
     DEF QueueInv, TypeInv, TypeOK, UpdateStatus, Table, Snapshot, LeaseColumnsAgree,
         RowInv, Agree
<1>b. SameIdentity(runs[r], new) /\ RowInv(new)
  BY <1>a, WrittenRows DEF Snapshot
<1>c. \A q \in RunIds : runs'[q] = runs[q] => RowEvolves(q)
  BY <1>a DEF RowEvolves, SameIdentity
<1>1. CASE AutoRetry(loaded, status)
  <2>1. /\ nextRun' = nextRun + 1 /\ nextRun \in RunIds
        /\ runs' = [[runs EXCEPT ![r] = new] EXCEPT ![nextRun] = RetryRun(loaded, r)]
    BY <1>1, <1>a, RunTableAssumption DEF UpdateStatus, Table, RunIds
  <2>2. /\ runs'[nextRun] = RetryRun(loaded, r) /\ runs'[r] = new
        /\ \A q \in RunIds \ {r, nextRun} : runs'[q] = runs[q]
    BY <1>a, <2>1 DEF Table
  <2>3. Inserted(nextRun)
    BY <1>1, <2>1, <2>2, RetryInserted DEF AutoRetry
  <2>4. RowEvolves(r) /\ RowEvolves(nextRun)
    BY <1>a, <1>b, <2>2, <2>3 DEF RowEvolves
  <2>5. RowsEvolve
    <3>1. \A q \in RunIds : RowEvolves(q)
      BY <1>c, <2>2, <2>4
    <3>2. nextRun' >= nextRun
      BY <1>a, <2>1
    <3>3. QED
      BY <3>1, <3>2 DEF RowsEvolve
  <2>6. HeldKept
    BY <1>a, <2>2, HeldAreOld DEF HeldKept, RowLocked
  <2>7. QED
    BY <2>5, <2>6
<1>2. CASE ~AutoRetry(loaded, status)
  <2>1. nextRun' = nextRun /\ runs' = [runs EXCEPT ![r] = new]
    BY <1>2 DEF UpdateStatus, Table
  <2>2. runs'[r] = new /\ \A q \in RunIds \ {r} : runs'[q] = runs[q]
    BY <1>a, <2>1 DEF Table
  <2>3. RowEvolves(r)
    BY <1>a, <1>b, <2>2 DEF RowEvolves
  <2>4. RowsEvolve
    BY <1>a, <1>c, <2>1, <2>2, <2>3 DEF RowsEvolve
  <2>5. HeldKept
    BY <1>a, <2>2, HeldAreOld DEF HeldKept, RowLocked
  <2>6. QED
    BY <2>4, <2>5
<1>3. QED
  BY <1>1, <1>2

\* Tasks that stay as they are or become idle.
LEMMA TasksIdle ==
    ASSUME QueueInv, TypeInv', RowsEvolve, HeldKept, enabled' = enabled,
           \A u \in Consumers : task'[u] = task[u] \/ task'[u] = IdleTask
    PROVE  ClaimedRows' /\ LocksDisjoint' /\ TaskSnapshots'
<1>a. IdleTask.pc = "idle" /\ IdleTask.held = {}
  BY DEF IdleTask
<1>b. /\ TaskShape /\ HeldRowsExist /\ ClaimedRows /\ LocksDisjoint /\ TaskSnapshots
      /\ task \in [Consumers -> TaskState]
      /\ nextRun \in Nat /\ nextRun' \in Nat /\ RunIds \subseteq Nat
  BY RunTableAssumption DEF QueueInv, TypeInv, TypeOK, RunIds
<1>c. \A r \in RunIds : r < nextRun => r < nextRun'
  BY <1>b DEF RowsEvolve
<1>1. ClaimedRows'
  BY <1>a, <1>b DEF ClaimedRows, HeldKept, TaskShape
<1>2. LocksDisjoint'
  BY <1>a, <1>b DEF LocksDisjoint, HeldKept
<1>3. TaskSnapshots'
  <2> SUFFICES ASSUME NEW u \in Consumers
               PROVE  /\ task'[u].pc \in {"locked", "executing"} => task'[u].run < nextRun'
                      /\ task'[u].pc = "executing" =>
                             SnapshotNext(task'[u].run, task'[u].loaded)
    BY DEF TaskSnapshots, Snapshot, SnapshotNext
  <2>1. CASE task'[u] = IdleTask
    BY <1>a, <2>1
  <2>2. CASE task'[u] = task[u]
    <3>1. task[u].pc \in {"locked", "executing"} => task[u].run \in RunIds
      BY <1>b DEF TaskShape
    <3>2. task[u].pc \in {"locked", "executing"} => task[u].run < nextRun'
      BY <1>b, <1>c, <3>1 DEF TaskSnapshots
    <3>3. task[u].pc = "executing" => SnapshotNext(task[u].run, task[u].loaded)
      BY <1>b, <3>1, RowsEvolveKeeps DEF TaskSnapshots, TaskShape
    <3>4. QED
      BY <2>2, <3>2, <3>3
  <2>3. QED
    BY <2>1, <2>2
<1>4. QED
  BY <1>1, <1>2, <1>3

\* Snapshots of requests and schedulers survive the steps of others.
LEMMA SnapshotsKept ==
    ASSUME QueueInv, TypeInv', RowsEvolve
    PROVE  /\ req' = req => RequestSnapshots'
           /\ batch' = batch => BatchSnapshots'
           /\ clear' = clear => ClearBound'
<1>a. /\ RequestShape /\ RequestSnapshots /\ BatchSnapshots
      /\ nextRun \in Nat /\ nextRun' \in Nat /\ RunIds \subseteq Nat
  BY RunTableAssumption DEF QueueInv, TypeInv, TypeOK, RunIds
<1>1. ASSUME req' = req, NEW c \in Clients, req[c] # IdleRequest
      PROVE  /\ SnapshotNext(req[c].run, req[c].loaded)
             /\ req[c].op = "retry" => RetryAllowed(req[c].loaded)
  BY <1>1, <1>a, RowsEvolveKeeps DEF RequestSnapshots, RequestShape
<1>2. req' = req => RequestSnapshots'
  BY <1>1 DEF RequestSnapshots, Snapshot, SnapshotNext
<1>3. batch' = batch => BatchSnapshots'
  <2>1. \A r \in RunIds : r < nextRun => r < nextRun'
    BY <1>a DEF RowsEvolve
  <2>2. QED
    BY <1>a, <2>1 DEF BatchSnapshots, InBatch
<1>4. clear' = clear => ClearBound'
  <2>1. clear.below \in Nat /\ ClearBound /\ nextRun' >= nextRun
    BY RunTableAssumption DEF QueueInv, TypeInv, TypeOK, ClearState, RowsEvolve
  <2>2. QED
    BY <1>a, <2>1 DEF ClearBound
<1>5. QED
  BY <1>2, <1>3, <1>4

\* A step that leaves the table alone.
LEMMA TableAlone ==
    ASSUME QueueInv, UNCHANGED <<runs, nextRun>>
    PROVE  RowsEvolve /\ HeldKept
<1>1. nextRun \in Nat /\ \A r \in RunIds : runs[r] # NoRun => RowInv(runs[r])
  BY RunTableAssumption
     DEF QueueInv, TypeInv, TypeOK, LeaseColumnsAgree, RowInv, Agree
<1>2. \A r \in RunIds : RowEvolves(r)
  BY <1>1 DEF RowEvolves, SameIdentity
<1>3. QED
  BY <1>1, <1>2 DEF RowsEvolve, HeldKept

\* Claiming a queued row.
LEMMA ClaimRow ==
    ASSUME NEW row \in Row, row.status = "pending", RowInv(row), NEW w \in WorkerIds
    PROVE  LET new == WriteBack(row, row, Claim(row, w)) IN
           /\ SameIdentity(row, new) /\ RowInv(new)
           /\ new.status = "running" /\ new.locked_until = LockSeconds
<1>1. w # NULL /\ LockSeconds # NULL
  BY RunTableAssumption
<1>2. row.locked_until = NULL /\ row.locked_by = NULL
  BY DEF RowInv, Agree
<1>3. QED
  BY <1>1, <1>2 DEF WriteBack, Claim, SameIdentity, RowInv, Agree, Row

\* Ageing a row.
LEMMA AgedRow ==
    ASSUME NEW row \in Row, RowInv(row)
    PROVE  /\ SameIdentity(row, AgeRow(row)) /\ RowInv(AgeRow(row))
           /\ row.status = "pending" => AgeRow(row) = row
<1>1. row # NoRun
  BY RunTableAssumption
<1>2. CASE row.locked_until \in {NULL, Expired}
  BY <1>2 DEF AgeRow, SameIdentity
<1>3. CASE row.locked_until \notin {NULL, Expired}
  <2>1. row.locked_until - 1 # NULL
    BY <1>3, RunTableAssumption DEF Row, Lease, Expired
  <2>2. AgeRow(row) = [row EXCEPT !.locked_until = row.locked_until - 1]
    BY <1>1, <1>3 DEF AgeRow
  <2>3. QED
    BY <1>3, <2>1, <2>2 DEF SameIdentity, RowInv, Agree, Row
<1>4. QED
  BY <1>2, <1>3

\* The invariant holds initially.
LEMMA QueueInit == Init => QueueInv
<1> SUFFICES ASSUME Init PROVE QueueInv
  OBVIOUS
<1>1. TypeInv
  BY TypeInit
<1>2. \A r \in RunIds : runs[r] = NoRun
  BY DEF Init, EmptyBatch
<1>3. \A t \in Consumers : task[t].pc = "idle" /\ task[t].held = {}
  BY DEF Init, IdleTask
<1>4. \A c \in Clients : req[c] = IdleRequest
  BY DEF Init
<1>5. \A s \in Schedulers : InBatch(s) = {}
  BY DEF Init, InBatch, EmptyBatch
<1>6. QED
  BY <1>1, <1>2, <1>3, <1>4, <1>5
     DEF QueueInv, FreshIds, LeaseColumnsAgree, RetryBound, ClaimedRows, LocksDisjoint,
         TaskSnapshots, RequestSnapshots, BatchSnapshots, ClearBound, Init

\* The invariant is kept by every step.
LEMMA QueueStep == QueueInv /\ [Next]_vars => QueueInv'
<1> SUFFICES ASSUME QueueInv, [Next]_vars PROVE QueueInv'
  OBVIOUS
<1>a. TypeInv'
  BY TypeStep DEF QueueInv
<1>b. ASSUME RowsEvolve, ClaimedRows', LocksDisjoint', TaskSnapshots',
             RequestSnapshots', BatchSnapshots', ClearBound'
      PROVE  QueueInv'
  BY <1>a, <1>b, RowsEvolveKeeps DEF QueueInv
<1>c. /\ runs \in Table /\ nextRun \in Nat /\ RunIds \subseteq Nat
      /\ task \in [Consumers -> TaskState] /\ req \in [Clients -> Request]
      /\ batch \in [Schedulers -> Table]
      /\ TaskShape /\ HeldRowsExist /\ RequestShape
      /\ FreshIds /\ ClaimedRows /\ LocksDisjoint /\ TaskSnapshots /\ RequestSnapshots
      /\ BatchSnapshots
      /\ \A r \in RunIds : runs[r] # NoRun => RowInv(runs[r])
  BY RunTableAssumption
     DEF QueueInv, TypeInv, TypeOK, RunIds, LeaseColumnsAgree, RowInv, Agree
<1>d. /\ IdleTask.pc = "idle" /\ IdleTask.held = {}
      /\ Tasks \subseteq Consumers
  BY DEF IdleTask, Consumers
\* a step that only inserts or updates rows, or none, and idles tasks
<1>e. ASSUME RowsEvolve, HeldKept, UNCHANGED <<enabled, batch, req>>,
             \A u \in Consumers : task'[u] = task[u] \/ task'[u] = IdleTask,
             ClearBound'
      PROVE  QueueInv'
  BY <1>a, <1>b, <1>e, TasksIdle, SnapshotsKept
<1>f. RowsEvolve /\ clear' = clear => ClearBound'
  BY <1>a, SnapshotsKept
<1>g. clear \in ClearState /\ ClearBound
  BY DEF QueueInv, TypeInv, TypeOK
<1>1. ASSUME NEW t \in Consumers, DequeueSelect(t) PROVE QueueInv'
  <2>1. PICK r \in Candidates(t) : task' = [task EXCEPT ![t] =
               ClaimedTask(r, runs[r], task[t].held \cup {r}, Deps[runs[r].job])]
    BY <1>1 DEF DequeueSelect
  <2>2. /\ r \in RunIds /\ runs[r] # NoRun /\ runs[r].status = "pending"
        /\ enabled[runs[r].job] /\ ~LockedByOther(t, r)
    BY DEF Candidates
  <2>3. RowsEvolve /\ HeldKept
    BY <1>1, TableAlone DEF DequeueSelect
  <2>4. /\ task'[t].held = task[t].held \cup {r}
        /\ task'[t].pc = "claimed" /\ task'[t].run = r /\ task'[t].loaded = runs[r]
        /\ \A u \in Consumers \ {t} : task'[u] = task[u]
    BY <1>c, <2>1 DEF ClaimedTask
  <2>5. UNCHANGED <<runs, nextRun, enabled, batch, req>>
    BY <1>1 DEF DequeueSelect
  <2>6. ClaimedRows'
    BY <1>c, <2>2, <2>4, <2>5 DEF ClaimedRows
  <2>7. LocksDisjoint'
    BY <1>c, <2>2, <2>4, <2>5 DEF LocksDisjoint, LockedByOther
  <2>8. TaskSnapshots'
    BY <1>c, <2>4, <2>5 DEF TaskSnapshots, Snapshot
  <2>9. QED
    BY <1>1, <1>a, <1>b, <1>f, <2>3, <2>5, <2>6, <2>7, <2>8, SnapshotsKept DEF DequeueSelect
<1>1a. ASSUME NEW t \in Consumers, DequeueCheck(t) PROVE QueueInv'
  <2>1. PICK d \in task[t].todo : task' = [task EXCEPT ![t] =
               IF DependencySatisfied(runs, d)
               THEN ClaimedTask(task[t].run, task[t].loaded, task[t].held, task[t].todo \ {d})
               ELSE SelectingTask(task[t].held)]
    BY <1>1a DEF DequeueCheck
  <2>2. /\ task'[t].held = task[t].held
        /\ task'[t].pc \in {"claimed", "selecting"}
        /\ task'[t].pc = "claimed" => /\ task[t].pc = "claimed" /\ task'[t].run = task[t].run
                                      /\ task'[t].loaded = task[t].loaded
        /\ \A u \in Consumers \ {t} : task'[u] = task[u]
    <3>1. task[t] \in TaskState /\ task[t].pc = "claimed"
      BY <1>1a, <1>c DEF DequeueCheck
    <3>2. QED
      BY <1>c, <2>1, <3>1 DEF ClaimedTask, SelectingTask
  <2>3. RowsEvolve /\ HeldKept /\ UNCHANGED <<runs, nextRun, enabled, batch, req, clear>>
    BY <1>1a, TableAlone DEF DequeueCheck
  <2>4. ClaimedRows'
    BY <1>c, <2>2, <2>3 DEF ClaimedRows
  <2>5. LocksDisjoint'
    BY <1>c, <2>2, <2>3 DEF LocksDisjoint
  <2>6. TaskSnapshots'
    BY <1>c, <2>2, <2>3 DEF TaskSnapshots, Snapshot
  <2>7. QED
    BY <1>a, <1>b, <1>f, <2>3, <2>4, <2>5, <2>6, SnapshotsKept
<1>2. ASSUME NEW t \in Consumers, DequeueNone(t) PROVE QueueInv'
  <2>1. RowsEvolve /\ HeldKept
    BY <1>2, TableAlone DEF DequeueNone
  <2>2. QED
    BY <1>2, <1>c, <1>e, <1>f, <2>1 DEF DequeueNone
<1>3. ASSUME NEW t \in Consumers, DequeueCommit(t) PROVE QueueInv'
  <2> DEFINE r == task[t].run
  <2> DEFINE row == task[t].loaded
  <2> DEFINE new == WriteBack(row, row, Claim(row, WorkerIdOf[t]))
  <2>1. /\ r \in RunIds /\ r \in task[t].held /\ row \in Row /\ runs[r] = row
        /\ row.status = "pending" /\ runs[r] # NoRun /\ RowInv(row)
        /\ WorkerIdOf[t] \in WorkerIds
    BY <1>3, <1>c, JobRunsAssumption DEF DequeueCommit, TaskShape, ClaimedRows, HeldRowsExist
  <2>2. SameIdentity(row, new) /\ RowInv(new)
    BY <2>1, ClaimRow
  <2>3. runs' = [runs EXCEPT ![r] = new] /\ UNCHANGED <<nextRun, enabled, batch, req>>
    BY <1>3, <2>1 DEF DequeueCommit
  <2>4. runs'[r] = new /\ \A q \in RunIds \ {r} : runs'[q] = runs[q]
    BY <1>c, <2>1, <2>3 DEF Table
  <2>5. RowsEvolve
    <3>1. \A q \in RunIds : RowEvolves(q)
      BY <1>c, <2>1, <2>2, <2>4 DEF RowEvolves, SameIdentity
    <3>2. QED
      BY <1>c, <2>3, <3>1 DEF RowsEvolve
  <2>6. /\ task'[t].held = {} /\ task'[t].pc \in {"idle", "locked"}
        /\ task'[t].pc = "locked" => task'[t].run = r
        /\ \A u \in Consumers \ {t} : task'[u] = task[u]
    BY <1>3, <1>c, <1>d DEF DequeueCommit, LockedTask
  <2>7. \A u \in Consumers \ {t} : \A q \in task[u].held : q \in RunIds \ {r}
    BY <1>c, <2>1, HeldAreOld DEF LocksDisjoint
  <2>8. ClaimedRows'
    BY <1>c, <2>3, <2>4, <2>6, <2>7 DEF ClaimedRows, TaskShape
  <2>9. LocksDisjoint'
    BY <1>c, <2>4, <2>6, <2>7 DEF LocksDisjoint
  <2>10. TaskSnapshots'
    <3>1. ASSUME NEW u \in Consumers \ {t}
          PROVE  /\ task[u].pc \in {"locked", "executing"} => task[u].run < nextRun'
                 /\ task[u].pc = "executing" => SnapshotNext(task[u].run, task[u].loaded)
      BY <1>a, <1>c, <2>3, <2>5, RowsEvolveKeeps DEF TaskSnapshots, TaskShape
    <3>2. r < nextRun'
      BY <2>1, <2>3, HeldAreOld
    <3>3. QED
      BY <2>6, <3>1, <3>2 DEF TaskSnapshots, Snapshot, SnapshotNext
  <2>11. QED
    BY <1>3, <1>a, <1>b, <1>f, <2>3, <2>5, <2>8, <2>9, <2>10, SnapshotsKept
       DEF DequeueCommit
<1>4. ASSUME NEW t \in Tasks, TaskLoad(t) PROVE QueueInv'
  <2> DEFINE r == task[t].run
  <2>1. t \in Consumers /\ r \in RunIds /\ r < nextRun
    BY <1>4, <1>c, <1>d DEF TaskLoad, TaskShape, TaskSnapshots
  <2>2. RowsEvolve /\ HeldKept /\ UNCHANGED <<runs, nextRun, enabled, batch, req, clear>>
    BY <1>4, TableAlone DEF TaskLoad
  <2>3. CASE runs[r] = NoRun
    BY <1>4, <1>c, <1>e, <1>f, <2>1, <2>2, <2>3 DEF TaskLoad
  <2>4. CASE runs[r] # NoRun
    <3>1. task' = [task EXCEPT ![t] = ExecutingTask(r, runs[r], task[t].left)]
      BY <1>4, <2>4 DEF TaskLoad
    <3>2. /\ task'[t].pc = "executing" /\ task'[t].run = r /\ task'[t].loaded = runs[r]
          /\ task'[t].held = {}
          /\ \A u \in Consumers \ {t} : task'[u] = task[u]
      BY <1>c, <2>1, <3>1 DEF ExecutingTask
    <3>3. ClaimedRows'
      BY <1>c, <2>2, <3>2 DEF ClaimedRows
    <3>4. LocksDisjoint'
      BY <1>c, <2>2, <3>2 DEF LocksDisjoint
    <3>5. Snapshot(r, runs[r])
      BY <1>c, <2>1, <2>4 DEF Snapshot, RowInv
    <3>6. TaskSnapshots'
      BY <1>c, <2>1, <2>2, <3>2, <3>5 DEF TaskSnapshots, Snapshot
    <3>7. QED
      BY <1>a, <1>b, <1>f, <2>2, <3>3, <3>4, <3>6, SnapshotsKept
  <2>5. QED
    BY <2>3, <2>4
<1>5. ASSUME NEW t \in Tasks, TaskFinish(t) PROVE QueueInv'
  <2>1. /\ t \in Consumers /\ task[t].run \in RunIds /\ task[t].loaded \in Row
        /\ Snapshot(task[t].run, task[t].loaded)
    BY <1>5, <1>c, <1>d DEF TaskFinish, TaskShape, TaskSnapshots
  <2>2. RowsEvolve /\ HeldKept
    <3>1. CASE RunGone(task[t].run)
      BY <3>1, TableAlone DEF RunGone
    <3>2. CASE \E status \in {"success", "failed", "timeout"} :
                   UpdateStatus(task[t].run, task[t].loaded, status)
      BY <2>1, <3>2, UpdateStatusEvolves DEF Finished
    <3>3. QED
      BY <1>5, <3>1, <3>2 DEF TaskFinish
  <2>3. QED
    BY <1>5, <1>c, <1>e, <1>f, <2>2 DEF TaskFinish
<1>6. ASSUME NEW t \in Tasks, TaskAwait(t) PROVE QueueInv'
  <2> DEFINE r == task[t].run
  <2>1. /\ r \in RunIds /\ task[t].loaded \in Row /\ Snapshot(r, task[t].loaded)
    BY <1>6, <1>c, <1>d DEF TaskAwait, TaskShape, TaskSnapshots
  <2>2. RowsEvolve /\ HeldKept
    <3>1. CASE RunGone(r)
      BY <3>1, TableAlone DEF RunGone
    <3>2. CASE ~RunGone(r)
      <4> DEFINE new == WriteBack(runs[r], task[t].loaded,
                                  [task[t].loaded EXCEPT !.status = "awaiting_result"])
      <4>1. /\ runs[r] # NoRun /\ ~RowLocked(r)
            /\ runs' = [runs EXCEPT ![r] = new] /\ nextRun' = nextRun
        BY <1>6, <3>2 DEF TaskAwait
      <4>2. runs[r] \in Row /\ RowInv(runs[r])
        BY <1>c, <2>1, <4>1 DEF Table
      <4>3. SameIdentity(runs[r], new) /\ RowInv(new)
        BY <2>1, <4>2, WrittenRows DEF Snapshot
      <4>4. runs'[r] = new /\ \A q \in RunIds \ {r} : runs'[q] = runs[q]
        BY <1>c, <2>1, <4>1 DEF Table
      <4>5. \A q \in RunIds : RowEvolves(q)
        BY <1>c, <4>1, <4>3, <4>4 DEF RowEvolves, SameIdentity
      <4>6. QED
        BY <1>c, <4>1, <4>4, <4>5, HeldAreOld DEF RowsEvolve, HeldKept, RowLocked
    <3>3. QED
      BY <3>1, <3>2
  <2>3. QED
    BY <1>6, <1>c, <1>e, <1>f, <2>2 DEF TaskAwait
<1>7. ASSUME NEW s \in Schedulers, ReleaseLoad(s) PROVE QueueInv'
  <2>1. RowsEvolve /\ HeldKept /\ UNCHANGED <<runs, nextRun, enabled, task, req>>
    BY <1>7, TableAlone DEF ReleaseLoad
  <2>2. ClaimedRows' /\ LocksDisjoint' /\ TaskSnapshots' /\ RequestSnapshots'
    BY <1>a, <2>1, TasksIdle, SnapshotsKept
  <2>3. /\ \A u \in Schedulers \ {s} : batch'[u] = batch[u]
        /\ \A r \in RunIds :
               batch'[s][r] = IF r \in FindExpired(runs) THEN runs[r] ELSE NoRun
    BY <1>7, <1>c DEF ReleaseLoad
  <2>4. ASSUME NEW r \in RunIds, batch'[s][r] # NoRun
        PROVE  /\ r < nextRun /\ batch'[s][r].status = "running"
               /\ batch'[s][r].locked_until # NULL /\ batch'[s][r].locked_by # NULL
    <3>1. runs[r] # NoRun /\ ExpiredLease(runs[r]) /\ batch'[s][r] = runs[r]
      BY <2>3, <2>4 DEF FindExpired
    <3>2. r < nextRun
      BY <1>c, <3>1 DEF FreshIds
    <3>3. QED
      BY <1>c, <3>1, <3>2 DEF ExpiredLease, RowInv, Agree
  <2>5. BatchSnapshots'
    BY <1>c, <2>1, <2>3, <2>4 DEF BatchSnapshots, InBatch
  <2>6. QED
    BY <1>7, <1>b, <1>f, <2>1, <2>2, <2>5 DEF ReleaseLoad
<1>8. ASSUME NEW s \in Schedulers, ReleaseCommit(s) PROVE QueueInv'
  <2>1. UNCHANGED <<nextRun, enabled, task, req>> /\ batch' = [batch EXCEPT ![s] = EmptyBatch]
    BY <1>8 DEF ReleaseCommit
  <2>2. RowsEvolve /\ HeldKept
    <3>1. CASE UNCHANGED runs
      BY <2>1, <3>1, TableAlone
    <3>2. CASE /\ \A r \in InBatch(s) : runs[r] # NoRun /\ ~RowLocked(r)
               /\ runs' = [r \in RunIds |->
                      IF r \in InBatch(s)
                      THEN WriteBack(runs[r], batch[s][r], Release(batch[s][r]))
                      ELSE runs[r]]
      <4>1. ASSUME NEW r \in InBatch(s) PROVE RowEvolves(r)
        <5>1. /\ r \in RunIds /\ runs[r] # NoRun /\ runs[r] \in Row /\ RowInv(runs[r])
              /\ batch[s][r] \in Row /\ Agree(batch[s][r])
              /\ batch[s][r].locked_until # NULL
          <6>1. r \in RunIds /\ batch[s][r] # NoRun /\ runs[r] # NoRun
            BY <3>2 DEF InBatch
          <6>2. runs[r] \in Row /\ batch[s][r] \in Row /\ RowInv(runs[r])
            BY <1>c, <6>1 DEF Table
          <6>3. batch[s][r].locked_until # NULL /\ batch[s][r].locked_by # NULL
            BY <1>c DEF BatchSnapshots
          <6>4. QED
            BY <6>1, <6>2, <6>3 DEF Agree
        <5>2. runs'[r] = WriteBack(runs[r], batch[s][r], Release(batch[s][r]))
          BY <3>2, <5>1
        <5>3. QED
          BY <5>1, <5>2, WrittenRows DEF RowEvolves
      <4>2. ASSUME NEW r \in RunIds, r \notin InBatch(s) PROVE RowEvolves(r)
        BY <1>c, <3>2, <4>2 DEF RowEvolves, SameIdentity
      <4>3. RowsEvolve
        BY <1>c, <2>1, <4>1, <4>2 DEF RowsEvolve
      <4>4. HeldKept
        BY <3>2, HeldAreOld DEF HeldKept, RowLocked
      <4>5. QED
        BY <4>3, <4>4
    <3>3. QED
      BY <1>8, <3>1, <3>2 DEF ReleaseCommit
  <2>3. ClaimedRows' /\ LocksDisjoint' /\ TaskSnapshots' /\ RequestSnapshots'
    BY <1>a, <2>1, <2>2, TasksIdle, SnapshotsKept
  <2>4. BatchSnapshots'
    BY <1>c, <2>1 DEF BatchSnapshots, InBatch, EmptyBatch
  <2>5. QED
    BY <1>8, <1>b, <1>f, <2>2, <2>3, <2>4 DEF ReleaseCommit
<1>9. ASSUME NEW s \in Schedulers, SchedulerCrash(s) PROVE QueueInv'
  <2>1. /\ RowsEvolve /\ HeldKept /\ UNCHANGED <<runs, nextRun, enabled, task, req>>
        /\ batch' = [batch EXCEPT ![s] = EmptyBatch]
    BY <1>9, TableAlone DEF SchedulerCrash
  <2>2. ClaimedRows' /\ LocksDisjoint' /\ TaskSnapshots' /\ RequestSnapshots'
    BY <1>a, <2>1, TasksIdle, SnapshotsKept
  <2>3. BatchSnapshots'
    BY <1>c, <2>1 DEF BatchSnapshots, InBatch, EmptyBatch
  <2>4. QED
    BY <1>9, <1>b, <1>f, <2>1, <2>2, <2>3 DEF SchedulerCrash
<1>10. ASSUME NEW c \in Clients, NEW op \in ClientOps, NEW r \in RunIds,
              RequestLoad(c, op, r)
       PROVE  QueueInv'
  <2>1. RowsEvolve /\ HeldKept /\ UNCHANGED <<runs, nextRun, enabled, task, batch>>
    BY <1>10, TableAlone DEF RequestLoad
  <2>2. ClaimedRows' /\ LocksDisjoint' /\ TaskSnapshots' /\ BatchSnapshots'
    BY <1>a, <2>1, TasksIdle, SnapshotsKept
  <2>3. /\ req' = [req EXCEPT ![c] = [op |-> op, run |-> r, loaded |-> runs[r]]]
        /\ runs[r] # NoRun
        /\ op = "retry" => RetryAllowed(runs[r])
    BY <1>10 DEF RequestLoad
  <2>4. Snapshot(r, runs[r])
    BY <1>c, <2>3 DEF Snapshot, RowInv, FreshIds
  <2>5. /\ req'[c].run = r /\ req'[c].loaded = runs[r] /\ req'[c].op = op
        /\ \A d \in Clients \ {c} : req'[d] = req[d]
    BY <1>c, <2>3
  <2>6. RequestSnapshots'
    BY <1>c, <2>1, <2>3, <2>4, <2>5 DEF RequestSnapshots, Snapshot
  <2>7. QED
    BY <1>10, <1>b, <1>f, <2>1, <2>2, <2>6 DEF RequestLoad
<1>11. ASSUME NEW c \in Clients, RequestCommit(c) PROVE QueueInv'
  <2> DEFINE r == req[c].run
  <2> DEFINE row == req[c].loaded
  <2>1. /\ r \in RunIds /\ row \in Row /\ req[c].op \in ClientOps /\ Snapshot(r, row)
        /\ req[c].op = "retry" => RetryAllowed(row)
    BY <1>11, <1>c DEF RequestCommit, RequestShape, RequestSnapshots
  <2>2. RowsEvolve /\ HeldKept
    <3>1. CASE RunGone(r)
      BY <3>1, TableAlone DEF RunGone
    <3>2. CASE req[c].op = "retry" /\ CommitRetry(r, row)
      <4>1. /\ nextRun \in RunIds /\ nextRun' = nextRun + 1
            /\ runs' = [runs EXCEPT ![nextRun] = RetryRun(row, r)]
        BY <1>a, <1>c, <3>2, RunTableAssumption
           DEF CommitRetry, RunIds, QueueInv, TypeInv, TypeOK
      <4>2. /\ runs'[nextRun] = RetryRun(row, r)
            /\ \A q \in RunIds \ {nextRun} : runs'[q] = runs[q]
        BY <1>c, <4>1 DEF Table
      <4>3. Inserted(nextRun)
        BY <2>1, <3>2, <4>1, <4>2, RetryInserted DEF RetryAllowed
      <4>4. \A q \in RunIds \ {nextRun} : RowEvolves(q)
        BY <1>c, <4>2 DEF RowEvolves, SameIdentity
      <4>5. RowEvolves(nextRun)
        BY <4>3 DEF RowEvolves
      <4>6. RowsEvolve
        BY <1>c, <4>1, <4>4, <4>5 DEF RowsEvolve
      <4>7. HeldKept
        BY <4>2, HeldAreOld DEF HeldKept
      <4>8. QED
        BY <4>6, <4>7
    <3>3. CASE req[c].op # "retry" /\ UpdateStatus(r, row, req[c].op)
      <4>1. req[c].op \in Finished \cup {"running"}
        BY <2>1, <3>3, JobRunsAssumption
      <4>2. QED
        BY <2>1, <3>3, <4>1, UpdateStatusEvolves
    <3>4. QED
      BY <1>11, <3>1, <3>2, <3>3 DEF RequestCommit
  <2>3. UNCHANGED <<enabled, task, batch>> /\ req' = [req EXCEPT ![c] = IdleRequest]
    BY <1>11 DEF RequestCommit
  <2>4. ClaimedRows' /\ LocksDisjoint' /\ TaskSnapshots' /\ BatchSnapshots'
    BY <1>a, <2>2, <2>3, TasksIdle, SnapshotsKept
  <2>5. RequestSnapshots'
    <3>1. ASSUME NEW d \in Clients, req[d] # IdleRequest
          PROVE  /\ SnapshotNext(req[d].run, req[d].loaded)
                 /\ req[d].op = "retry" => RetryAllowed(req[d].loaded)
      BY <1>a, <1>c, <2>2, <3>1, RowsEvolveKeeps DEF RequestSnapshots, RequestShape
    <3>2. \A d \in Clients : req'[d] = req[d] \/ req'[d] = IdleRequest
      BY <1>c, <2>3
    <3>3. QED
      BY <3>1, <3>2 DEF RequestSnapshots, Snapshot, SnapshotNext
  <2>6. QED
    BY <1>11, <1>b, <1>f, <2>2, <2>4, <2>5 DEF RequestCommit
<1>12. ASSUME NEW j \in Jobs, Trigger(j) PROVE QueueInv'
  <2>1. /\ nextRun \in RunIds /\ nextRun' = nextRun + 1
        /\ runs' = [runs EXCEPT ![nextRun] = NewRun(j)]
    BY <1>12, <1>c, RunTableAssumption DEF Trigger, RunIds, QueueInv, TypeInv, TypeOK
  <2>2. runs'[nextRun] = NewRun(j) /\ \A q \in RunIds \ {nextRun} : runs'[q] = runs[q]
    BY <1>c, <2>1 DEF Table
  <2>3. Inserted(nextRun)
    BY <2>1, <2>2, InsertedRows, RunTableAssumption DEF Inserted
  <2>4. \A q \in RunIds \ {nextRun} : RowEvolves(q)
    BY <1>c, <2>2 DEF RowEvolves, SameIdentity
  <2>5. RowEvolves(nextRun)
    BY <2>3 DEF RowEvolves
  <2>6. RowsEvolve
    BY <1>c, <2>1, <2>4, <2>5 DEF RowsEvolve
  <2>7. HeldKept
    BY <2>2, HeldAreOld DEF HeldKept
  <2>8. QED
    BY <1>12, <1>e, <1>f, <2>6, <2>7 DEF Trigger
<1>13. ASSUME NEW j \in Jobs, SetEnabled(j) PROVE QueueInv'
  <2>1. /\ RowsEvolve /\ HeldKept /\ UNCHANGED <<runs, nextRun, task, batch, req>>
        /\ ~JobLocked(j)
        /\ enabled' = [enabled EXCEPT ![j] = ~@]
    BY <1>13, TableAlone DEF SetEnabled
  <2>2. enabled \in [Jobs -> BOOLEAN]
    BY DEF QueueInv, TypeInv, TypeOK
  <2>3. \A i \in Jobs \ {j} : enabled'[i] = enabled[i]
    BY <2>1, <2>2
  <2>4. ClaimedRows'
    <3> SUFFICES ASSUME NEW t \in Consumers, task[t].pc = "claimed"
                 PROVE  enabled'[task[t].loaded.job]
      BY <1>c, <2>1 DEF ClaimedRows
    <3>1. task[t].loaded.job \in Jobs /\ task[t].loaded.job # j
      BY <1>c, <2>1 DEF ClaimedRows, TaskShape, JobLocked, Row
    <3>2. QED
      BY <1>c, <2>3, <3>1 DEF ClaimedRows
  <2>5. LocksDisjoint' /\ TaskSnapshots'
    BY <1>c, <2>1 DEF LocksDisjoint, TaskSnapshots, Snapshot
  <2>6. QED
    BY <1>13, <1>a, <1>b, <1>f, <2>1, <2>4, <2>5, SnapshotsKept DEF SetEnabled
<1>14. ASSUME ClearStart PROVE QueueInv'
  <2>1. RowsEvolve /\ HeldKept
    BY <1>14, TableAlone DEF ClearStart
  <2>2. ClearBound'
    BY <1>14, <1>c, <1>g DEF ClearStart, ClearBound, ClearState
  <2>3. QED
    BY <1>14, <1>e, <2>1, <2>2 DEF ClearStart
<1>14a. ASSUME NEW r \in RunIds, ClearRow(r) PROVE QueueInv'
  <2>1. RowsEvolve /\ HeldKept
    BY <1>14a, TableAlone DEF ClearRow
  <2>2. ClearBound'
    BY <1>14a, <1>g DEF ClearRow, ClearBound, ClearState
  <2>3. QED
    BY <1>14a, <1>e, <2>1, <2>2 DEF ClearRow
<1>14b. ASSUME ClearCommit PROVE QueueInv'
  <2>1. \A r \in RunIds : runs'[r] = NoRun \/ runs'[r] = runs[r]
    BY <1>14b DEF ClearCommit
  <2>2. RowsEvolve
    BY <1>14b, <1>c, <2>1 DEF RowsEvolve, RowEvolves, SameIdentity, ClearCommit
  <2>3. HeldKept
    BY <1>14b, <1>c, HeldAreOld DEF HeldKept, ClearCommit, HeldRowsExist
  <2>4. ClearBound'
    BY <1>14b, <1>c DEF ClearCommit, ClearBound
  <2>5. QED
    BY <1>14b, <1>e, <2>2, <2>3, <2>4 DEF ClearCommit
<1>14c. ASSUME ClearFails PROVE QueueInv'
  <2>1. RowsEvolve /\ HeldKept
    BY <1>14c, TableAlone DEF ClearFails
  <2>2. ClearBound'
    BY <1>14c, <1>c, <1>g DEF ClearFails, ClearBound, ClearState
  <2>3. QED
    BY <1>14c, <1>e, <2>1, <2>2 DEF ClearFails
<1>14d. ASSUME NEW t \in Consumers, TaskFails(t) PROVE QueueInv'
  <2>1. RowsEvolve /\ HeldKept
    BY <1>14d, TableAlone DEF TaskFails
  <2>2. QED
    BY <1>14d, <1>c, <1>e, <1>f, <2>1 DEF TaskFails
<1>15. ASSUME NEW p \in Pods, PodCrash(p) PROVE QueueInv'
  <2>1. RowsEvolve /\ HeldKept
    BY <1>15, TableAlone DEF PodCrash
  <2>2. QED
    BY <1>15, <1>e, <1>f, <2>1 DEF PodCrash
<1>16. ASSUME Tick PROVE QueueInv'
  <2>1. /\ \A r \in RunIds : runs'[r] = AgeRow(runs[r])
        /\ UNCHANGED <<nextRun, enabled, batch, req>>
    BY <1>16 DEF Tick
  <2>2. ASSUME NEW r \in RunIds, runs[r] # NoRun
        PROVE  /\ SameIdentity(runs[r], runs'[r]) /\ RowInv(runs'[r])
               /\ runs[r].status = "pending" => runs'[r] = runs[r]
    BY <1>c, <2>1, <2>2, AgedRow DEF Table
  <2>3. \A r \in RunIds : runs[r] = NoRun => runs'[r] = NoRun
    BY <2>1 DEF AgeRow
  <2>4. RowsEvolve
    BY <1>c, <2>1, <2>2, <2>3 DEF RowsEvolve, RowEvolves
  <2>5. ASSUME NEW t \in Consumers
        PROVE  /\ task'[t].pc = task[t].pc /\ task'[t].run = task[t].run
               /\ task'[t].loaded = task[t].loaded /\ task'[t].held = task[t].held
    BY <1>16, <1>c DEF Tick, TaskState
  <2>6. ClaimedRows'
    <3> SUFFICES ASSUME NEW t \in Consumers, task[t].pc = "claimed"
                 PROVE  /\ runs'[task[t].run] = task[t].loaded
                        /\ task[t].loaded.status = "pending"
                        /\ enabled'[task[t].loaded.job]
      BY <2>5 DEF ClaimedRows
    <3>1. task[t].run \in RunIds /\ runs[task[t].run] # NoRun
      BY <1>c DEF TaskShape, HeldRowsExist
    <3>2. /\ runs[task[t].run] = task[t].loaded /\ task[t].loaded.status = "pending"
          /\ enabled[task[t].loaded.job]
      BY <1>c DEF ClaimedRows
    <3>3. QED
      BY <2>1, <2>2, <3>1, <3>2
  <2>7. LocksDisjoint'
    <3>1. \A t \in Consumers : \A r \in task[t].held : runs'[r].job = runs[r].job
      BY <1>c, <2>2, HeldAreOld DEF HeldRowsExist, SameIdentity
    <3>2. QED
      BY <1>c, <2>5, <3>1 DEF LocksDisjoint
  <2>8. TaskSnapshots'
    <3>1. ASSUME NEW u \in Consumers
          PROVE  /\ task[u].pc \in {"locked", "executing"} => task[u].run < nextRun'
                 /\ task[u].pc = "executing" => SnapshotNext(task[u].run, task[u].loaded)
      BY <1>a, <1>c, <2>1, <2>4, RowsEvolveKeeps DEF TaskSnapshots, TaskShape
    <3>2. QED
      BY <2>5, <3>1 DEF TaskSnapshots, Snapshot, SnapshotNext
  <2>9. QED
    BY <1>16, <1>a, <1>b, <1>f, <2>1, <2>4, <2>6, <2>7, <2>8, SnapshotsKept DEF Tick
<1>17. ASSUME UNCHANGED vars PROVE QueueInv'
  <2>1. RowsEvolve /\ HeldKept
    BY <1>17, TableAlone DEF vars
  <2>2. QED
    BY <1>17, <1>e, <1>f, <2>1 DEF vars
<1>18. QED
  BY <1>1, <1>1a, <1>2, <1>3, <1>4, <1>5, <1>6, <1>7, <1>8, <1>9, <1>10, <1>11, <1>12,
     <1>13, <1>14, <1>14a, <1>14b, <1>14c, <1>14d, <1>15, <1>16, <1>17
     DEF Next, DequeueStep, TaskStep, SchedulerStep, ClearStep

\* QueueInv holds in every reachable state.
LEMMA QueueInvariant == Spec => []QueueInv
  BY QueueInit, QueueStep, PTL DEF Spec

\* The lock columns of a row are NULL together and NULL in queued runs,
\* however dequeue, finish, cancel and release interleave.
THEOREM LeaseColumns == Spec => []LeaseColumnsAgree
<1>1. QueueInv => LeaseColumnsAgree
  BY DEF QueueInv
<1>2. QED
  BY <1>1, QueueInvariant, PTL

\* No run is numbered beyond max_retry, and retries are numbered in order.
THEOREM RetriesBounded == Spec => []RetryBound
<1>1. QueueInv => RetryBound
  BY DEF QueueInv
<1>2. QED
  BY <1>1, QueueInvariant, PTL

\* What a dequeue transaction has found out still holds when it commits, so
\* no two consumers ever claim one run, no run of a disabled job starts and
\* no cancelled run is claimed.
THEOREM ClaimsValid == Spec => []ClaimStillValid
<1>1. QueueInv => ClaimStillValid
  BY DEF QueueInv, ClaimStillValid, ClaimedRows, LocksDisjoint, LockedByOther, TypeInv,
         TaskShape, HeldRowsExist
<1>2. QED
  BY <1>1, QueueInvariant, PTL
=============================================================================
