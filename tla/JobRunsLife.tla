---------------------------- MODULE JobRunsLife ----------------------------
(***************************************************************************)
(* What the run queue guarantees about the life of a run, in two stages.     *)
(*                                                                         *)
(* With at most one scheduler replica, and executions that end within their *)
(* lease, no run is executed by two tasks at once.  The argument: a live     *)
(* task's run is not queued, and the lease on it, if there is one, lasts at  *)
(* least as long as the task; so what the scheduler has loaded as expired    *)
(* belongs to no live task, and since nobody else puts a run back into the   *)
(* queue, that is still so when the scheduler commits.                       *)
(*                                                                         *)
(* If, in addition, nobody cancels, finishes or retries single runs, a run's *)
(* row changes only in the hands of the task that executes it or of the      *)
(* scheduler that has found it expired: the queue implements RunLife.        *)
(*                                                                         *)
(* Apart from that, jobs that wait for each other in a circle stay blocked.   *)
(***************************************************************************)
EXTENDS JobRunsProofs

SingleScheduler == \A s, u \in Schedulers : s = u

LiveRows ==
    \A t \in Tasks : Live(t) /\ runs[task[t].run] # NoRun =>
        /\ runs[task[t].run].status # "pending"
        /\ runs[task[t].run].locked_until # NULL =>
               runs[task[t].run].locked_until >= task[t].left

BatchRows ==
    \A s \in Schedulers : \A r \in InBatch(s) :
        /\ runs[r] # NoRun => runs[r].status # "pending"
        /\ \A t \in Tasks : Live(t) => task[t].run # r

ExclusiveInv == QueueInv /\ LiveRows /\ BatchRows /\ OneExecutorPerRun

-----------------------------------------------------------------------------
\* A step that queues no old row and only removes leases.
Calm ==
    \A r \in RunIds : r < nextRun /\ runs'[r] # NoRun =>
        /\ runs[r] # NoRun
        /\ runs[r].status # "pending" => runs'[r].status # "pending"
        /\ runs'[r].locked_until \in {NULL, runs[r].locked_until}

\* A step after which no task is live that was not, on the same run.
NoNewLive ==
    \A t \in Tasks : Live(t)' =>
        Live(t) /\ task'[t].run = task[t].run /\ task'[t].left = task[t].left

\* Such steps keep the invariant unless a scheduler loads something.
LEMMA CalmKeeps ==
    ASSUME ExclusiveInv, Calm, NoNewLive,
           \A s \in Schedulers : InBatch(s)' \subseteq InBatch(s)
    PROVE  LiveRows' /\ BatchRows' /\ OneExecutorPerRun'
<1>a. /\ LiveRows /\ BatchRows /\ OneExecutorPerRun
      /\ Tasks \subseteq Consumers
  BY DEF ExclusiveInv, Consumers
<1>b. \A t \in Tasks : Live(t) => task[t].run \in RunIds /\ task[t].run < nextRun
  BY <1>a DEF ExclusiveInv, QueueInv, TypeInv, TaskShape, TaskSnapshots, Live
<1>c. \A s \in Schedulers : \A r \in InBatch(s) : r \in RunIds /\ r < nextRun
  BY DEF ExclusiveInv, QueueInv, BatchSnapshots, InBatch
<1>1. LiveRows'
  <2> SUFFICES ASSUME NEW t \in Tasks, Live(t)', runs'[task'[t].run] # NoRun
               PROVE  /\ runs'[task'[t].run].status # "pending"
                      /\ runs'[task'[t].run].locked_until # NULL =>
                             runs'[task'[t].run].locked_until >= task'[t].left
    BY DEF LiveRows
  <2> DEFINE r == task[t].run
  <2>1. Live(t) /\ task'[t].run = r /\ task'[t].left = task[t].left
    BY DEF NoNewLive
  <2>2. r \in RunIds /\ r < nextRun
    BY <1>b, <2>1
  <2>3. /\ runs[r] # NoRun
        /\ runs[r].status # "pending" => runs'[r].status # "pending"
        /\ runs'[r].locked_until \in {NULL, runs[r].locked_until}
    BY <2>1, <2>2 DEF Calm
  <2>4. /\ runs[r].status # "pending"
        /\ runs[r].locked_until # NULL => runs[r].locked_until >= task[t].left
    BY <1>a, <2>1, <2>3 DEF LiveRows
  <2>5. QED
    BY <2>1, <2>3, <2>4
<1>2. BatchRows'
  <2> SUFFICES ASSUME NEW s \in Schedulers, NEW r \in InBatch(s)'
               PROVE  /\ runs'[r] # NoRun => runs'[r].status # "pending"
                      /\ \A t \in Tasks : Live(t)' => task'[t].run # r
    BY DEF BatchRows
  <2>1. r \in InBatch(s) /\ r \in RunIds /\ r < nextRun
    BY <1>c
  <2>2. QED
    BY <1>a, <2>1 DEF BatchRows, Calm, NoNewLive
<1>3. OneExecutorPerRun'
  BY <1>a DEF OneExecutorPerRun, NoNewLive
<1>4. QED
  BY <1>1, <1>2, <1>3

\* A step that leaves the table alone is calm.
LEMMA CalmTable ==
    ASSUME UNCHANGED <<runs, nextRun>>
    PROVE  Calm
  BY DEF Calm

\* Rows written back by update_status and by the awaiting update are neither
\* queued nor leased anew.
LEMMA CalmRows ==
    ASSUME NEW cur \in Row, NEW loaded \in Row
    PROVE  /\ \A status \in Finished \cup {"running"} :
                  LET new == WriteBack(cur, loaded, Updated(loaded, status)) IN
                  /\ cur.status # "pending" => new.status # "pending"
                  /\ new.locked_until \in {NULL, cur.locked_until}
           /\ LET new == WriteBack(cur, loaded,
                                   [loaded EXCEPT !.status = "awaiting_result"]) IN
              /\ cur.status # "pending" => new.status # "pending"
              /\ new.locked_until \in {NULL, cur.locked_until}
<1>1. ASSUME NEW status \in Finished
      PROVE  LET new == WriteBack(cur, loaded, Complete(loaded, status)) IN
             /\ cur.status # "pending" => new.status # "pending"
             /\ new.locked_until \in {NULL, cur.locked_until}
  BY DEF WriteBack, Complete, Row, Finished
<1>2. LET new == WriteBack(cur, loaded, Start(loaded)) IN
      /\ cur.status # "pending" => new.status # "pending"
      /\ new.locked_until \in {NULL, cur.locked_until}
  BY DEF WriteBack, Start, Row
<1>3. LET new == WriteBack(cur, loaded, [loaded EXCEPT !.status = "awaiting_result"]) IN
      /\ cur.status # "pending" => new.status # "pending"
      /\ new.locked_until \in {NULL, cur.locked_until}
  BY DEF WriteBack, Row
<1>4. "running" \notin Finished
  BY DEF Finished
<1>5. QED
  BY <1>1, <1>2, <1>3, <1>4 DEF Updated

\* update_status is calm.
LEMMA CalmUpdate ==
    ASSUME runs \in Table, nextRun \in Nat, NEW r \in RunIds, NEW loaded \in Row,
           NEW status \in Finished \cup {"running"},
           UpdateStatus(r, loaded, status)
    PROVE  Calm
<1> DEFINE new == WriteBack(runs[r], loaded, Updated(loaded, status))
<1>1. runs[r] \in Row /\ runs[r] # NoRun
  BY DEF UpdateStatus, Table
<1>2. /\ runs[r].status # "pending" => new.status # "pending"
      /\ new.locked_until \in {NULL, runs[r].locked_until}
  BY <1>1, CalmRows
<1>3. \A q \in RunIds : q < nextRun => runs'[q] = IF q = r THEN new ELSE runs[q]
  <2>1. \A q \in RunIds : q < nextRun => q # nextRun
    BY DEF RunIds
  <2>2. QED
    BY <2>1 DEF UpdateStatus, Table
<1>4. QED
  BY <1>1, <1>2, <1>3 DEF Calm

\* Initially nobody executes anything.
LEMMA ExclusiveInit == Init => ExclusiveInv
<1> SUFFICES ASSUME Init PROVE ExclusiveInv
  OBVIOUS
<1>1. \A t \in Tasks : ~Live(t)
  BY DEF Init, Live, IdleTask, Consumers
<1>2. \A s \in Schedulers : InBatch(s) = {}
  BY DEF Init, InBatch, EmptyBatch
<1>3. QED
  BY <1>1, <1>2, QueueInit DEF ExclusiveInv, LiveRows, BatchRows, OneExecutorPerRun

\* Every step keeps it, under the two hypotheses.
LEMMA ExclusiveStep ==
    ASSUME SingleScheduler, BoundedExec, ExclusiveInv, [Next]_vars
    PROVE  ExclusiveInv'
<1>a. QueueInv'
  BY QueueStep DEF ExclusiveInv
<1>b. /\ runs \in Table /\ nextRun \in Nat /\ RunIds \subseteq Nat
      /\ task \in [Consumers -> TaskState] /\ req \in [Clients -> Request]
      /\ batch \in [Schedulers -> Table]
      /\ TaskShape /\ HeldRowsExist /\ RequestShape /\ ClaimedRows
      /\ TaskSnapshots /\ RequestSnapshots /\ BatchSnapshots
      /\ LiveRows /\ BatchRows /\ OneExecutorPerRun
      /\ Tasks \subseteq Consumers
  BY RunTableAssumption DEF ExclusiveInv, QueueInv, TypeInv, TypeOK, RunIds, Consumers
<1>c. \A t \in Tasks : Live(t) => task[t].run \in RunIds /\ task[t].run < nextRun
  BY <1>b DEF TaskShape, TaskSnapshots, Live
<1>d. ASSUME LiveRows', BatchRows', OneExecutorPerRun' PROVE ExclusiveInv'
  BY <1>a, <1>d DEF ExclusiveInv
<1>e. ASSUME Calm, NoNewLive, batch' = batch PROVE ExclusiveInv'
  <2>1. \A s \in Schedulers : InBatch(s)' \subseteq InBatch(s)
    BY <1>e DEF InBatch
  <2>2. QED
    BY <1>d, <1>e, <2>1, CalmKeeps
<1>f. task' = task => NoNewLive
  BY DEF NoNewLive, Live
<1>g. ASSUME NEW t \in Consumers, task' = [task EXCEPT ![t] = IdleTask] PROVE NoNewLive
  BY <1>b, <1>g DEF NoNewLive, Live, IdleTask
<1>1. ASSUME NEW t \in Consumers, DequeueSelect(t) PROVE ExclusiveInv'
  <2>1. PICK r \in RunIds : task' = [task EXCEPT ![t] =
               ClaimedTask(r, runs[r], task[t].held \cup {r}, Deps[runs[r].job])]
    BY <1>1 DEF DequeueSelect, Candidates
  <2>2. NoNewLive
    BY <1>b, <2>1 DEF NoNewLive, Live, ClaimedTask
  <2>3. QED
    BY <1>1, <1>e, <2>2, CalmTable DEF DequeueSelect
<1>1a. ASSUME NEW t \in Consumers, DequeueCheck(t) PROVE ExclusiveInv'
  <2>1. /\ task'[t].pc \in {"claimed", "selecting"}
        /\ \A u \in Consumers \ {t} : task'[u] = task[u]
    BY <1>1a, <1>b DEF DequeueCheck, ClaimedTask, SelectingTask
  <2>2. NoNewLive
    BY <1>b, <2>1 DEF NoNewLive, Live
  <2>3. QED
    BY <1>1a, <1>e, <2>2, CalmTable DEF DequeueCheck
<1>2. ASSUME NEW t \in Consumers, DequeueNone(t) PROVE ExclusiveInv'
  BY <1>2, <1>e, <1>g, CalmTable DEF DequeueNone
<1>3. ASSUME NEW t \in Consumers, DequeueCommit(t) PROVE ExclusiveInv'
  <2> DEFINE r == task[t].run
  <2> DEFINE row == task[t].loaded
  <2> DEFINE new == WriteBack(row, row, Claim(row, WorkerIdOf[t]))
  <2>1. /\ r \in RunIds /\ row \in Row /\ runs[r] = row
        /\ row.status = "pending" /\ runs[r] # NoRun
        /\ WorkerIdOf[t] \in WorkerIds
    BY <1>3, <1>b, JobRunsAssumption DEF DequeueCommit, TaskShape, ClaimedRows, HeldRowsExist
  <2>2. RowInv(row)
    BY <2>1 DEF ExclusiveInv, QueueInv, LeaseColumnsAgree, RowInv, Agree
  <2>3. new.status = "running" /\ new.locked_until = LockSeconds
    BY <2>1, <2>2, ClaimRow
  <2>4. runs'[r] = new /\ \A q \in RunIds \ {r} : runs'[q] = runs[q]
    BY <1>3, <1>b, <2>1 DEF DequeueCommit, Table
  <2>5. /\ Live(t)' => t \in Consumers \ PullClients /\ task'[t].run = r
                        /\ task'[t].left = LockSeconds
        /\ \A u \in Consumers \ {t} : task'[u] = task[u]
        /\ batch' = batch
    BY <1>3, <1>b DEF DequeueCommit, LockedTask, IdleTask, Live
  <2>6. \A u \in Tasks : Live(u) => task[u].run # r
    BY <1>b, <2>1 DEF LiveRows
  <2>7. \A s \in Schedulers : r \notin InBatch(s)
    BY <1>b, <2>1 DEF BatchRows
  <2>8. LockSeconds >= LockSeconds
    BY RunTableAssumption
  <2>9. LiveRows'
    <3> SUFFICES ASSUME NEW u \in Tasks, Live(u)', runs'[task'[u].run] # NoRun
                 PROVE  /\ runs'[task'[u].run].status # "pending"
                        /\ runs'[task'[u].run].locked_until # NULL =>
                               runs'[task'[u].run].locked_until >= task'[u].left
      BY DEF LiveRows
    <3>1. CASE u = t
      BY <2>3, <2>4, <2>5, <2>8, <3>1
    <3>2. CASE u # t
      <4>1. task'[u] = task[u] /\ Live(u) /\ task[u].run \in RunIds \ {r}
        BY <1>b, <1>c, <2>5, <2>6, <3>2 DEF Live
      <4>2. QED
        BY <1>b, <2>4, <4>1 DEF LiveRows
    <3>3. QED
      BY <3>1, <3>2
  <2>10. BatchRows'
    <3> SUFFICES ASSUME NEW s \in Schedulers, NEW q \in InBatch(s)'
                 PROVE  /\ runs'[q] # NoRun => runs'[q].status # "pending"
                        /\ \A u \in Tasks : Live(u)' => task'[u].run # q
      BY DEF BatchRows
    <3>1. q \in InBatch(s) /\ q \in RunIds \ {r}
      BY <2>5, <2>7 DEF InBatch
    <3>2. QED
      BY <1>b, <2>4, <2>5, <3>1 DEF BatchRows, Live
  <2>11. OneExecutorPerRun'
    BY <1>b, <2>5, <2>6 DEF OneExecutorPerRun, Live
  <2>12. QED
    BY <1>d, <2>9, <2>10, <2>11
<1>4. ASSUME NEW t \in Tasks, TaskLoad(t) PROVE ExclusiveInv'
  <2>1. \/ task' = [task EXCEPT ![t] = IdleTask]
        \/ task' = [task EXCEPT ![t] =
                       ExecutingTask(task[t].run, runs[task[t].run], task[t].left)]
    BY <1>4 DEF TaskLoad
  <2>2. NoNewLive
    BY <1>4, <1>b, <2>1 DEF TaskLoad, NoNewLive, Live, IdleTask, ExecutingTask
  <2>3. QED
    BY <1>4, <1>e, <2>2, CalmTable DEF TaskLoad
<1>5. ASSUME NEW t \in Tasks, TaskFinish(t) PROVE ExclusiveInv'
  <2>1. task[t].run \in RunIds /\ task[t].loaded \in Row
    BY <1>5, <1>b DEF TaskFinish, TaskShape
  <2>2. Calm
    <3>1. CASE RunGone(task[t].run)
      BY <3>1, CalmTable DEF RunGone
    <3>2. CASE \E status \in {"success", "failed", "timeout"} :
                   UpdateStatus(task[t].run, task[t].loaded, status)
      BY <1>b, <2>1, <3>2, CalmUpdate DEF Finished
    <3>3. QED
      BY <1>5, <3>1, <3>2 DEF TaskFinish
  <2>3. QED
    BY <1>5, <1>b, <1>e, <1>g, <2>2 DEF TaskFinish
<1>6. ASSUME NEW t \in Tasks, TaskAwait(t) PROVE ExclusiveInv'
  <2> DEFINE r == task[t].run
  <2>1. r \in RunIds /\ task[t].loaded \in Row
    BY <1>6, <1>b DEF TaskAwait, TaskShape
  <2>2. Calm
    <3>1. CASE RunGone(r)
      BY <3>1, CalmTable DEF RunGone
    <3>2. CASE ~RunGone(r)
      <4> DEFINE new == WriteBack(runs[r], task[t].loaded,
                                  [task[t].loaded EXCEPT !.status = "awaiting_result"])
      <4>1. runs[r] \in Row /\ runs[r] # NoRun /\ runs' = [runs EXCEPT ![r] = new]
        BY <1>6, <1>b, <2>1, <3>2 DEF TaskAwait, Table
      <4>2. /\ runs[r].status # "pending" => new.status # "pending"
            /\ new.locked_until \in {NULL, runs[r].locked_until}
        BY <2>1, <4>1, CalmRows
      <4>3. \A q \in RunIds : runs'[q] = IF q = r THEN new ELSE runs[q]
        BY <1>b, <2>1, <4>1 DEF Table
      <4>4. QED
        BY <4>1, <4>2, <4>3 DEF Calm
    <3>3. QED
      BY <3>1, <3>2
  <2>3. QED
    BY <1>6, <1>b, <1>e, <1>g, <2>2 DEF TaskAwait
<1>7. ASSUME NEW s \in Schedulers, ReleaseLoad(s) PROVE ExclusiveInv'
  <2>1. UNCHANGED <<runs, task>>
    BY <1>7 DEF ReleaseLoad
  <2>2. \A r \in InBatch(s)' : r \in FindExpired(runs) /\ r \in RunIds
    BY <1>7, <1>b DEF ReleaseLoad, InBatch
  <2>3. ASSUME NEW r \in FindExpired(runs)
        PROVE  /\ runs[r].status # "pending"
               /\ \A t \in Tasks : Live(t) => task[t].run # r
    <3>1. r \in RunIds /\ runs[r] # NoRun /\ ExpiredLease(runs[r])
      BY DEF FindExpired
    <3>2. runs[r].locked_until \in Int /\ runs[r].locked_until < 0
      <4>1. runs[r].locked_until \in Lease /\ runs[r].locked_until < 0
        BY <1>b, <3>1 DEF ExpiredLease, Table, Row
      <4>2. Lease \subseteq Int
        BY RunTableAssumption DEF Lease, Expired
      <4>3. QED
        BY <4>1, <4>2
    <3>3. \A t \in Tasks : task[t].left \in Nat
      BY <1>b, RunTableAssumption DEF TaskState
    <3>4. \A t \in Tasks : Live(t) => task[t].run # r
      BY <1>b, <3>1, <3>2, <3>3 DEF LiveRows, ExpiredLease
    <3>5. QED
      BY <3>1, <3>4 DEF ExpiredLease
  <2>4. BatchRows'
    BY <2>1, <2>2, <2>3 DEF BatchRows, Live, SingleScheduler
  <2>5. LiveRows' /\ OneExecutorPerRun'
    BY <1>b, <2>1 DEF LiveRows, OneExecutorPerRun, Live
  <2>6. QED
    BY <1>d, <2>4, <2>5
<1>8. ASSUME NEW s \in Schedulers, ReleaseCommit(s) PROVE ExclusiveInv'
  <2>1. task' = task /\ batch' = [batch EXCEPT ![s] = EmptyBatch]
    BY <1>8 DEF ReleaseCommit
  <2>2. \A r \in RunIds \ InBatch(s) : runs'[r] = runs[r]
    BY <1>8 DEF ReleaseCommit
  <2>3. \A t \in Tasks : Live(t) => task[t].run \in RunIds \ InBatch(s)
    BY <1>b, <1>c DEF BatchRows
  <2>4. LiveRows'
    BY <1>b, <2>1, <2>2, <2>3 DEF LiveRows, Live
  <2>5. \A u \in Schedulers : InBatch(u)' = {}
    BY <1>b, <2>1 DEF InBatch, EmptyBatch, SingleScheduler
  <2>6. BatchRows' /\ OneExecutorPerRun'
    BY <1>b, <2>1, <2>5 DEF BatchRows, OneExecutorPerRun, Live
  <2>7. QED
    BY <1>d, <2>4, <2>6
<1>9. ASSUME NEW s \in Schedulers, SchedulerCrash(s) PROVE ExclusiveInv'
  <2>1. Calm /\ NoNewLive
    BY <1>9, <1>f, CalmTable DEF SchedulerCrash
  <2>2. \A u \in Schedulers : InBatch(u)' \subseteq InBatch(u)
    BY <1>9, <1>b DEF SchedulerCrash, InBatch, EmptyBatch
  <2>3. QED
    BY <1>d, <2>1, <2>2, CalmKeeps
<1>10. ASSUME NEW c \in Clients, NEW op \in ClientOps, NEW r \in RunIds,
              RequestLoad(c, op, r)
       PROVE  ExclusiveInv'
  BY <1>10, <1>e, <1>f, CalmTable DEF RequestLoad
<1>11. ASSUME NEW c \in Clients, RequestCommit(c) PROVE ExclusiveInv'
  <2> DEFINE r == req[c].run
  <2>1. r \in RunIds /\ req[c].loaded \in Row /\ req[c].op \in ClientOps
    BY <1>11, <1>b DEF RequestCommit, RequestShape
  <2>2. Calm
    <3>1. CASE RunGone(r)
      BY <3>1, CalmTable DEF RunGone
    <3>2. CASE CommitRetry(r, req[c].loaded)
      <4>1. \A q \in RunIds : q < nextRun => runs'[q] = runs[q]
        BY <1>b, <3>2 DEF CommitRetry, Table
      <4>2. QED
        BY <4>1 DEF Calm
    <3>3. CASE req[c].op # "retry" /\ UpdateStatus(r, req[c].loaded, req[c].op)
      <4>1. req[c].op \in Finished \cup {"running"}
        BY <2>1, <3>3, JobRunsAssumption
      <4>2. QED
        BY <1>b, <2>1, <3>3, <4>1, CalmUpdate
    <3>4. QED
      BY <1>11, <3>1, <3>2, <3>3 DEF RequestCommit
  <2>3. QED
    BY <1>11, <1>e, <1>f, <2>2 DEF RequestCommit
<1>12. ASSUME NEW j \in Jobs, Trigger(j) PROVE ExclusiveInv'
  <2>1. \A q \in RunIds : q < nextRun => runs'[q] = runs[q]
    BY <1>12, <1>b DEF Trigger, Table
  <2>2. Calm
    BY <2>1 DEF Calm
  <2>3. QED
    BY <1>12, <1>e, <1>f, <2>2 DEF Trigger
<1>13. ASSUME NEW j \in Jobs, SetEnabled(j) PROVE ExclusiveInv'
  BY <1>13, <1>e, <1>f, CalmTable DEF SetEnabled
<1>14. ASSUME ClearStart \/ ClearFails PROVE ExclusiveInv'
  BY <1>14, <1>e, <1>f, CalmTable DEF ClearStart, ClearFails
<1>14a. ASSUME NEW r \in RunIds, ClearRow(r) PROVE ExclusiveInv'
  BY <1>14a, <1>e, <1>f, CalmTable DEF ClearRow
<1>14b. ASSUME ClearCommit PROVE ExclusiveInv'
  <2>1. \A r \in RunIds : runs'[r] = NoRun \/ runs'[r] = runs[r]
    BY <1>14b DEF ClearCommit
  <2>2. Calm
    BY <2>1 DEF Calm
  <2>3. QED
    BY <1>14b, <1>e, <1>f, <2>2 DEF ClearCommit
<1>14c. ASSUME NEW t \in Consumers, TaskFails(t) PROVE ExclusiveInv'
  BY <1>14c, <1>e, <1>g, CalmTable DEF TaskFails
<1>15. ASSUME NEW p \in Pods, PodCrash(p) PROVE ExclusiveInv'
  <2>1. NoNewLive
    BY <1>15, <1>b DEF PodCrash, NoNewLive, Live, IdleTask
  <2>2. QED
    BY <1>15, <1>e, <2>1, CalmTable DEF PodCrash
<1>16. ASSUME Tick PROVE ExclusiveInv'
  <2>1. /\ \A r \in RunIds : runs'[r] = AgeRow(runs[r])
        /\ batch' = batch
        /\ \A t \in Tasks : Live(t) => task[t].left > 0
    BY <1>16 DEF Tick
  <2>2. ASSUME NEW t \in Tasks
        PROVE  /\ Live(t)' <=> Live(t)
               /\ task'[t].run = task[t].run
               /\ Live(t) => task'[t].left = task[t].left - 1 /\ task[t].left \in Nat
    BY <1>16, <1>b, <2>1, RunTableAssumption DEF Tick, TaskState, Live
  <2>3. ASSUME NEW r \in RunIds
        PROVE  /\ runs'[r] # NoRun => runs[r] # NoRun /\ runs'[r].status = runs[r].status
               /\ runs'[r] # NoRun /\ runs'[r].locked_until # NULL =>
                      /\ runs[r].locked_until \in Int
                      /\ runs[r].locked_until > 0 =>
                             runs'[r].locked_until = runs[r].locked_until - 1
    <3>1. CASE runs[r] = NoRun
      BY <2>1, <3>1 DEF AgeRow
    <3>2. CASE runs[r] # NoRun
      <4>1. runs[r] \in Row
        BY <1>b, <3>2 DEF Table
      <4>2. CASE runs[r].locked_until \in {NULL, Expired}
        <5>1. runs'[r] = runs[r]
          BY <2>1, <3>2, <4>2 DEF AgeRow
        <5>2. runs[r].locked_until # NULL => runs[r].locked_until = -1
          BY <4>2 DEF Expired
        <5>3. runs[r].locked_until # NULL =>
                /\ runs[r].locked_until \in Int
                /\ ~(runs[r].locked_until > 0)
          BY <5>2
        <5>4. QED
          BY <3>2, <5>1, <5>3
      <4>3. CASE runs[r].locked_until \notin {NULL, Expired}
        <5>1. runs'[r] = [runs[r] EXCEPT !.locked_until = runs[r].locked_until - 1]
          BY <2>1, <3>2, <4>3 DEF AgeRow
        <5>2. runs[r].locked_until \in Int
          BY <4>1, <4>3, RunTableAssumption DEF Row, Lease, Expired
        <5>3. QED
          BY <3>2, <4>1, <5>1, <5>2 DEF Row
      <4>4. QED
        BY <4>2, <4>3
    <3>3. QED
      BY <3>1, <3>2
  <2>4. LiveRows'
    <3> SUFFICES ASSUME NEW t \in Tasks, Live(t), runs'[task[t].run] # NoRun
                 PROVE  /\ runs'[task[t].run].status # "pending"
                        /\ runs'[task[t].run].locked_until # NULL =>
                               runs'[task[t].run].locked_until >= task[t].left - 1
      BY <2>2 DEF LiveRows
    <3> DEFINE r == task[t].run
    <3>1. r \in RunIds
      BY <1>c
    <3>2. runs[r] # NoRun /\ runs'[r].status = runs[r].status
      BY <2>3, <3>1
    <3>3. /\ runs[r].status # "pending"
          /\ runs[r].locked_until # NULL => runs[r].locked_until >= task[t].left
      BY <1>b, <3>2 DEF LiveRows
    <3>4. ASSUME runs'[r].locked_until # NULL
          PROVE  runs'[r].locked_until >= task[t].left - 1
      <4>1. /\ runs[r].locked_until \in Int
            /\ runs[r].locked_until > 0 => runs'[r].locked_until = runs[r].locked_until - 1
        BY <2>3, <3>1, <3>4
      <4>2. runs[r].locked_until # NULL
        BY <4>1, RunTableAssumption
      <4>3. QED
        BY <2>1, <2>2, <3>3, <4>1, <4>2
    <3>5. QED
      BY <3>2, <3>3, <3>4
  <2>5. BatchRows'
    <3>1. \A s \in Schedulers : InBatch(s)' = InBatch(s) /\ InBatch(s) \subseteq RunIds
      BY <2>1 DEF InBatch
    <3> SUFFICES ASSUME NEW s \in Schedulers, NEW r \in InBatch(s)
                 PROVE  /\ runs'[r] # NoRun => runs'[r].status # "pending"
                        /\ \A t \in Tasks : Live(t)' => task'[t].run # r
      BY <3>1 DEF BatchRows
    <3>2. r \in RunIds
      BY <3>1
    <3>3. /\ runs[r] # NoRun => runs[r].status # "pending"
          /\ \A t \in Tasks : Live(t) => task[t].run # r
      BY <1>b DEF BatchRows
    <3>4. runs'[r] # NoRun => runs'[r].status # "pending"
      BY <2>3, <3>2, <3>3
    <3>5. \A t \in Tasks : Live(t)' => task'[t].run # r
      BY <2>2, <3>3
    <3>6. QED
      BY <3>4, <3>5
  <2>6. OneExecutorPerRun'
    BY <1>b, <2>2 DEF OneExecutorPerRun
  <2>7. QED
    BY <1>d, <2>4, <2>5, <2>6
<1>17. ASSUME UNCHANGED vars PROVE ExclusiveInv'
  BY <1>17, <1>e, <1>f, CalmTable DEF vars
<1>18. QED
  BY <1>1, <1>1a, <1>2, <1>3, <1>4, <1>5, <1>6, <1>7, <1>8, <1>9, <1>10, <1>11, <1>12,
     <1>13, <1>14, <1>14a, <1>14b, <1>14c, <1>15, <1>16, <1>17
     DEF Next, DequeueStep, TaskStep, SchedulerStep, ClearStep

\* With one scheduler replica and executions that end within their lease, no
\* run is executed twice at the same time: whatever the number of worker
\* pods, HTTP workers and requests in flight, whatever crashes.
THEOREM OneExecutor ==
    ASSUME SingleScheduler, BoundedExec
    PROVE  Spec => []OneExecutorPerRun
<1>1. Init => ExclusiveInv
  BY ExclusiveInit
<1>2. ExclusiveInv /\ [Next]_vars => ExclusiveInv'
  BY ExclusiveStep
<1>3. ExclusiveInv => OneExecutorPerRun
  BY DEF ExclusiveInv
<1>4. QED
  BY <1>1, <1>2, <1>3, PTL DEF Spec

-----------------------------------------------------------------------------
(* The life of a run.  With, in addition, no request on single runs, a row    *)
(* changes only in the hands of the task that executes it or of the scheduler *)
(* that has found it expired, and only while it runs.  So a run that has      *)
(* ended stays as it is, is retried once, and what waits for it never waits   *)
(* again.                                                                    *)

NoRequests == Clients = {}

\* some run satisfies the dependency d
UpstreamRun(d) ==
    \E q \in RunIds :
        runs[q] # NoRun /\ runs[q].job = d.up /\ runs[q].status = d.required

\* the same after a step
UpstreamRunNext(d) ==
    \E q \in RunIds :
        runs'[q] # NoRun /\ runs'[q].job = d.up /\ runs'[q].status = d.required

Upstream(j) == \A d \in Deps[j] : UpstreamRun(d)

LiveRunning ==
    \A t \in Tasks : Live(t) /\ runs[task[t].run] # NoRun =>
        /\ runs[task[t].run].status = "running"
        /\ task[t].pc = "executing" =>
               task[t].loaded.status = "running" /\ ~task[t].loaded.ended

BatchRunning ==
    \A s \in Schedulers : \A r \in InBatch(s) :
        runs[r] # NoRun => runs[r].status = "running"

EndedWhenFinished ==
    \A r \in RunIds : runs[r] # NoRun => (runs[r].ended <=> runs[r].status \in Finished)

RetriedHasEnded ==
    \A r \in RunIds : runs[r] # NoRun /\ runs[r].retry_of # NULL =>
        LET q == runs[r].retry_of IN runs[q] # NoRun => runs[q].status \in Finished

\* what a dequeue has checked was inserted after the last clear: still true
ClaimedUpstream ==
    \A t \in Consumers : task[t].pc = "claimed" /\ task[t].run >= clear.last =>
        \A d \in Deps[task[t].loaded.job] : d \in task[t].todo \/ UpstreamRun(d)

TableInv ==
    /\ EndedWhenFinished
    /\ RunningHasLease
    /\ RetriedHasEnded
    /\ SingleRetry
    /\ UpstreamFirst

LifeInv == ExclusiveInv /\ TableInv /\ LiveRunning /\ BatchRunning /\ ClaimedUpstream

-----------------------------------------------------------------------------
(* What one step may do to the rows, as far as their status goes.          *)

Kept(old, new) ==
    /\ new.status = old.status /\ new.ended = old.ended
    /\ new.locked_until = NULL <=> old.locked_until = NULL

Taken(old, new) ==
    /\ old.status = "pending" /\ new.status = "running"
    /\ new.locked_until # NULL
    /\ new.ended = old.ended

Requeued(old, new) ==
    /\ old.status = "running" /\ new.status = "pending"
    /\ new.ended = old.ended

Left(old, new) ==
    /\ old.status \in {"running", "awaiting_result"}
    /\ \/ new.status = "awaiting_result" /\ new.ended = old.ended
       \/ new.status \in Finished /\ new.ended

Moved(r) ==
    /\ runs[r] # NoRun /\ runs'[r] # NoRun
    /\ SameIdentity(runs[r], runs'[r])
    /\ \/ Kept(runs[r], runs'[r])
       \/ Taken(runs[r], runs'[r]) /\ (r >= clear.last => Upstream(runs[r].job))
       \/ Requeued(runs[r], runs'[r]) \/ Left(runs[r], runs'[r])

\* an inserted row is the first retry of a run that ends in the same step
Submitted(r) ==
    /\ r = nextRun
    /\ runs'[r] # NoRun
    /\ runs'[r].status = "pending" /\ ~runs'[r].ended
    /\ LET q == runs'[r].retry_of IN
       q # NULL => /\ runs[q] # NoRun /\ runs[q].status \notin Finished
                   /\ runs'[q] # NoRun /\ runs'[q].status \in Finished

TableMoves ==
    \A r \in RunIds :
        (runs[r] = NoRun /\ runs'[r] = NoRun) \/ Moved(r) \/ Submitted(r)

\* Facts about the types and the ids that every step uses.
LEMMA LifeFacts ==
    ASSUME QueueInv
    PROVE  /\ nextRun \in Nat /\ RunIds \subseteq Nat /\ runs \in Table
           /\ \A r \in RunIds : r >= nextRun => runs[r] = NoRun
           /\ \A r \in RunIds : runs[r] # NoRun =>
                  runs[r] \in Row /\ r < nextRun /\ runs[r].job \in Jobs
           /\ \A j \in Jobs : \A d \in Deps[j] : d.required \in Finished
           /\ \A r \in RunIds : runs[r] # NoRun /\ runs[r].retry_of # NULL =>
                  runs[r].retry_of \in RunIds /\ runs[r].retry_of < r
<1>1. nextRun \in Nat /\ RunIds \subseteq Nat /\ runs \in Table
  BY RunTableAssumption DEF QueueInv, TypeInv, TypeOK, RunIds
<1>2. \A r \in RunIds : r >= nextRun => runs[r] = NoRun
  BY DEF QueueInv, FreshIds
<1>3. \A r \in RunIds : runs[r] # NoRun =>
          runs[r] \in Row /\ r < nextRun /\ runs[r].job \in Jobs
  BY <1>1, <1>2 DEF Table, Row
<1>4. \A j \in Jobs : \A d \in Deps[j] : d.required \in Finished
  BY RunTableAssumption DEF Dependency
<1>5. \A r \in RunIds : runs[r] # NoRun /\ runs[r].retry_of # NULL =>
          runs[r].retry_of \in RunIds /\ runs[r].retry_of < r
  BY <1>3 DEF QueueInv, RetryBound, Row
<1>6. QED
  BY <1>1, <1>2, <1>3, <1>4, <1>5

\* Rows with a final status only stay as they are.
LEMMA FinishedKept ==
    ASSUME TableMoves, NEW r \in RunIds, runs[r] # NoRun, runs[r].status \in Finished,
           r # nextRun
    PROVE  runs'[r] # NoRun /\ runs'[r].status = runs[r].status
  BY DEF TableMoves, Moved, Submitted, Kept, Taken, Requeued, Left, Finished

\* What satisfies a dependency goes on satisfying it.
LEMMA UpstreamKept ==
    ASSUME QueueInv, TableMoves, NEW j \in Jobs, NEW d \in Deps[j], UpstreamRun(d)
    PROVE  UpstreamRunNext(d)
<1>1. PICK q \in RunIds :
          runs[q] # NoRun /\ runs[q].job = d.up /\ runs[q].status = d.required
  BY DEF UpstreamRun
<1>2. runs[q].status \in Finished /\ q # nextRun
  BY <1>1, LifeFacts
<1>3. runs'[q] # NoRun /\ runs'[q].status = runs[q].status
  BY <1>1, <1>2, FinishedKept
<1>4. runs'[q].job = runs[q].job
  BY <1>1, <1>2 DEF TableMoves, Moved, Submitted, SameIdentity
<1>5. QED
  BY <1>1, <1>3, <1>4 DEF UpstreamRunNext

\* Such steps keep what the invariant says of the table alone.
LEMMA MovesKeep ==
    ASSUME QueueInv, QueueInv', TableInv, TableMoves, clear'.last = clear.last
    PROVE  TableInv'
<1>a. /\ nextRun \in Nat /\ RunIds \subseteq Nat
      /\ \A r \in RunIds : r >= nextRun => runs[r] = NoRun
      /\ \A r \in RunIds : runs[r] # NoRun => r < nextRun /\ runs[r].job \in Jobs
      /\ \A r \in RunIds : runs[r] # NoRun /\ runs[r].retry_of # NULL =>
             runs[r].retry_of \in RunIds /\ runs[r].retry_of < r
  BY LifeFacts
<1>b. \A r \in RunIds : runs'[r] # NoRun /\ runs'[r].retry_of # NULL =>
          runs'[r].retry_of \in RunIds /\ runs'[r].retry_of < r
  <2>1. runs' \in Table
    BY DEF QueueInv, TypeInv, TypeOK
  <2>2. QED
    BY <2>1 DEF QueueInv, RetryBound, Table, Row
<1>c. ASSUME NEW r \in RunIds, runs'[r] # NoRun
      PROVE  Moved(r) \/ Submitted(r)
  BY <1>c DEF TableMoves
<1>1. EndedWhenFinished'
  BY <1>c DEF TableInv, EndedWhenFinished, Moved, Submitted, Kept, Taken, Requeued, Left,
              Finished
<1>2. RunningHasLease'
  BY <1>c DEF TableInv, RunningHasLease, Moved, Submitted, Kept, Taken, Requeued, Left,
              Finished
<1>3. RetriedHasEnded'
  <2> SUFFICES ASSUME NEW r \in RunIds, runs'[r] # NoRun, runs'[r].retry_of # NULL,
                      runs'[runs'[r].retry_of] # NoRun
               PROVE  runs'[runs'[r].retry_of].status \in Finished
    BY DEF RetriedHasEnded
  <2> DEFINE q == runs'[r].retry_of
  <2>1. q \in RunIds /\ q < r
    BY <1>b
  <2>2. CASE Submitted(r)
    BY <2>2 DEF Submitted
  <2>3. CASE Moved(r)
    <3>1. runs[r] # NoRun /\ runs[r].retry_of = q /\ r < nextRun
      BY <1>a, <2>3 DEF Moved, SameIdentity
    <3>2. q # nextRun
      <4> HIDE DEF q
      <4>1. QED
        BY <1>a, <2>1, <3>1
    <3>3. runs[q] # NoRun
      BY <1>c, <2>1, <3>2 DEF Moved, Submitted
    <3>4. runs[q].status \in Finished
      BY <3>1, <3>3 DEF TableInv, RetriedHasEnded
    <3>5. QED
      BY <2>1, <3>2, <3>3, <3>4, FinishedKept
  <2>4. QED
    BY <1>c, <2>2, <2>3
<1>4. SingleRetry'
  <2> SUFFICES ASSUME NEW r \in RunIds, NEW q \in RunIds,
                      runs'[r] # NoRun, runs'[q] # NoRun,
                      runs'[r].retry_of # NULL, runs'[r].retry_of = runs'[q].retry_of
               PROVE  r = q
    BY DEF SingleRetry
  <2>a. ASSUME NEW x \in RunIds, NEW y \in RunIds, Submitted(x), Moved(y),
               runs'[x].retry_of # NULL, runs'[x].retry_of = runs'[y].retry_of
        PROVE  FALSE
    <3> DEFINE z == runs'[x].retry_of
    <3>1. runs[z] # NoRun /\ runs[z].status \notin Finished
      BY <2>a DEF Submitted
    <3>2. runs[y] # NoRun /\ runs[y].retry_of = z
      BY <2>a DEF Moved, SameIdentity
    <3>3. QED
      BY <2>a, <3>1, <3>2 DEF TableInv, RetriedHasEnded
  <2>1. CASE Moved(r) /\ Moved(q)
    BY <2>1 DEF TableInv, SingleRetry, Moved, SameIdentity
  <2>2. CASE Submitted(r) /\ Submitted(q)
    BY <2>2 DEF Submitted
  <2>3. QED
    BY <1>c, <2>a, <2>1, <2>2
<1>5. UpstreamFirst'
  <2> SUFFICES ASSUME NEW r \in RunIds, runs'[r] # NoRun, runs'[r].status # "pending",
                      r >= clear.last, NEW d \in Deps[runs'[r].job]
               PROVE  UpstreamRunNext(d)
    BY DEF UpstreamFirst, UpstreamRunNext
  <2>1. Moved(r)
    BY <1>c DEF Submitted
  <2>2. runs'[r].job = runs[r].job /\ runs[r].job \in Jobs
    BY <1>a, <2>1 DEF Moved, SameIdentity
  <2>3. UpstreamRun(d)
    BY <2>1, <2>2 DEF TableInv, UpstreamFirst, Upstream, UpstreamRun, Moved, Kept, Taken,
                      Requeued, Left
  <2>4. QED
    BY <2>2, <2>3, UpstreamKept
<1>6. QED
  BY <1>1, <1>2, <1>3, <1>4, <1>5 DEF TableInv

-----------------------------------------------------------------------------
(* Every step moves rows like that, or deletes some and keeps the others.   *)

\* A step that leaves the table alone.
LEMMA MovesAlone ==
    ASSUME runs' = runs
    PROVE  TableMoves
<1>1. \A r \in RunIds : runs[r] # NoRun => Moved(r)
  BY DEF Moved, SameIdentity, Kept
<1>2. QED
  BY <1>1 DEF TableMoves

\* What the write-backs make of a row.
LEMMA MovedRows ==
    ASSUME NEW cur \in Row, NEW loaded \in Row, RowInv(cur)
    PROVE  /\ \A status \in Finished :
                  /\ cur.status \in {"running", "awaiting_result"}
                  /\ loaded.status \notin Finished /\ ~loaded.ended
                  => LET new == WriteBack(cur, loaded, Updated(loaded, status)) IN
                     /\ SameIdentity(cur, new) /\ Left(cur, new) /\ new.status = status
           /\ cur.status = "running" /\ loaded.status = "running" =>
                  LET new == WriteBack(cur, loaded,
                                       [loaded EXCEPT !.status = "awaiting_result"]) IN
                  /\ SameIdentity(cur, new) /\ Left(cur, new)
                  /\ new.status = "awaiting_result"
           /\ cur.status = "running" /\ loaded.status = "running" =>
                  LET new == WriteBack(cur, loaded, Release(loaded)) IN
                  SameIdentity(cur, new) /\ Requeued(cur, new)
<1>1. ASSUME NEW status \in Finished, cur.status \in {"running", "awaiting_result"},
             loaded.status \notin Finished, ~loaded.ended
      PROVE  LET new == WriteBack(cur, loaded, Complete(loaded, status)) IN
             /\ SameIdentity(cur, new) /\ Left(cur, new) /\ new.status = status
  BY <1>1 DEF WriteBack, Complete, SameIdentity, Left, Row
<1>2. ASSUME cur.status = "running", loaded.status = "running"
      PROVE  LET new == WriteBack(cur, loaded,
                                  [loaded EXCEPT !.status = "awaiting_result"]) IN
             /\ SameIdentity(cur, new) /\ Left(cur, new)
             /\ new.status = "awaiting_result"
  BY <1>2 DEF WriteBack, SameIdentity, Left, Row
<1>3. ASSUME cur.status = "running", loaded.status = "running"
      PROVE  LET new == WriteBack(cur, loaded, Release(loaded)) IN
             SameIdentity(cur, new) /\ Requeued(cur, new)
  BY <1>3 DEF WriteBack, Release, SameIdentity, Requeued, Row
<1>4. "running" \notin Finished
  BY DEF Finished
<1>5. QED
  BY <1>1, <1>2, <1>3, <1>4 DEF Updated

\* The passing of time only shortens leases.
LEMMA AgedMoves ==
    ASSUME NEW row \in Row, RowInv(row)
    PROVE  /\ AgeRow(row) # NoRun
           /\ SameIdentity(row, AgeRow(row)) /\ Kept(row, AgeRow(row))
<1>1. row # NoRun /\ AgeRow(row) # NoRun /\ SameIdentity(row, AgeRow(row))
  BY AgedRow, AgeRowType, RunTableAssumption
<1>2. CASE row.locked_until \in {NULL, Expired}
  BY <1>1, <1>2 DEF AgeRow, Kept
<1>3. CASE row.locked_until \notin {NULL, Expired}
  <2>1. row.locked_until - 1 # NULL
    BY <1>3, RunTableAssumption DEF Row, Lease, Expired
  <2>2. AgeRow(row) = [row EXCEPT !.locked_until = row.locked_until - 1]
    BY <1>1, <1>3 DEF AgeRow
  <2>3. Kept(row, AgeRow(row))
    BY <1>3, <2>1, <2>2 DEF Kept, Row
  <2>4. QED
    BY <1>1, <2>3
<1>4. QED
  BY <1>2, <1>3

\* update_status of a run that has not ended, from a snapshot taken before
\* its end: the run ends, and its retry, if there is one, is the first.
LEMMA UpdateMoves ==
    ASSUME QueueInv, TableInv, NEW r \in RunIds, NEW loaded \in Row,
           Snapshot(r, loaded), NEW status \in Finished,
           UpdateStatus(r, loaded, status),
           runs[r].status \in {"running", "awaiting_result"},
           loaded.status \notin Finished, ~loaded.ended
    PROVE  /\ TableMoves
           /\ runs'[r] # NoRun /\ runs'[r].status = status
           /\ \A q \in RunIds \ {r} : q < nextRun => runs'[q] = runs[q]
<1> DEFINE new == WriteBack(runs[r], loaded, Updated(loaded, status))
<1>a. /\ nextRun \in Nat /\ runs \in Table /\ runs[r] \in Row /\ runs[r] # NoRun
      /\ r < nextRun /\ r # nextRun /\ RowInv(runs[r]) /\ RunIds \subseteq Nat
  BY LifeFacts DEF UpdateStatus, QueueInv, LeaseColumnsAgree, RowInv, Agree
<1>b. SameIdentity(runs[r], new) /\ Left(runs[r], new) /\ new.status = status
  BY <1>a, MovedRows
<1>c. new # NoRun
  BY <1>a, UpdatedType, WriteBackType, RunTableAssumption
<1>d. \A q \in RunIds : runs[q] # NoRun /\ runs'[q] = runs[q] => Moved(q)
  BY DEF Moved, SameIdentity, Kept
<1>e. runs'[r] = new => Moved(r)
  BY <1>a, <1>b, <1>c DEF Moved
<1>1. CASE AutoRetry(loaded, status)
  <2>1. /\ nextRun \in RunIds /\ runs'[r] = new
        /\ runs'[nextRun] = RetryRun(loaded, r)
        /\ \A q \in RunIds \ {r, nextRun} : runs'[q] = runs[q]
    BY <1>1, <1>a, RunTableAssumption DEF UpdateStatus, Table, RunIds
  <2>2. RetryRun(loaded, r) # NoRun
    BY InsertedType, RunTableAssumption
  <2>3. /\ runs'[nextRun].status = "pending" /\ ~runs'[nextRun].ended
        /\ runs'[nextRun].retry_of = r
    BY <2>1 DEF RetryRun, NewRun
  <2>4. Submitted(nextRun)
    BY <1>a, <1>b, <1>c, <2>1, <2>2, <2>3 DEF Submitted, Finished
  <2>5. TableMoves
    BY <1>d, <1>e, <2>1, <2>4 DEF TableMoves
  <2>6. QED
    BY <1>a, <1>b, <1>c, <2>1, <2>5
<1>2. CASE ~AutoRetry(loaded, status)
  <2>1. runs'[r] = new /\ \A q \in RunIds \ {r} : runs'[q] = runs[q]
    BY <1>2, <1>a DEF UpdateStatus, Table
  <2>2. QED
    BY <1>b, <1>c, <1>d, <1>e, <2>1 DEF TableMoves
<1>3. QED
  BY <1>1, <1>2

\* What a live task is about to report on is the row it holds.
LEMMA LiveFacts ==
    ASSUME LifeInv, NEW t \in Tasks, task[t].pc = "executing", runs[task[t].run] # NoRun
    PROVE  /\ task[t].run \in RunIds /\ task[t].loaded \in Row
           /\ Snapshot(task[t].run, task[t].loaded)
           /\ runs[task[t].run] \in Row /\ RowInv(runs[task[t].run])
           /\ runs[task[t].run].status = "running"
           /\ task[t].loaded.status = "running" /\ ~task[t].loaded.ended
<1>1. t \in Consumers /\ Live(t)
  BY DEF Consumers, Live
<1>2. QueueInv /\ LiveRunning
  BY DEF LifeInv, ExclusiveInv
<1>3. task[t].run \in RunIds /\ task[t].loaded \in Row
      /\ Snapshot(task[t].run, task[t].loaded)
  BY <1>1, <1>2 DEF QueueInv, TypeInv, TaskShape, TaskSnapshots
<1>4. runs[task[t].run] \in Row /\ RowInv(runs[task[t].run])
  BY <1>2, <1>3, LifeFacts DEF QueueInv, LeaseColumnsAgree, RowInv, Agree
<1>5. QED
  BY <1>1, <1>2, <1>3, <1>4 DEF LiveRunning

\* The commit of a dequeue takes the row it has found.
LEMMA DequeueMoves ==
    ASSUME LifeInv, NEW t \in Consumers, DequeueCommit(t)
    PROVE  /\ TableMoves
           /\ LET r == task[t].run IN
              /\ r \in RunIds /\ r < nextRun
              /\ runs[r] # NoRun /\ runs[r].status = "pending"
              /\ runs'[r] # NoRun /\ runs'[r].status = "running"
              /\ \A q \in RunIds \ {r} : runs'[q] = runs[q]
<1> DEFINE r == task[t].run
<1> DEFINE row == task[t].loaded
<1> DEFINE new == WriteBack(row, row, Claim(row, WorkerIdOf[t]))
<1>a. QueueInv /\ ClaimedUpstream
  BY DEF LifeInv, ExclusiveInv
<1>1. /\ r \in RunIds /\ row \in Row /\ runs[r] = row /\ row.status = "pending"
      /\ runs[r] # NoRun /\ WorkerIdOf[t] \in WorkerIds
  BY <1>a, JobRunsAssumption
     DEF DequeueCommit, QueueInv, TypeInv, TaskShape, ClaimedRows, HeldRowsExist
<1>2. RowInv(row) /\ r < nextRun /\ runs \in Table
  BY <1>a, <1>1, LifeFacts DEF QueueInv, LeaseColumnsAgree, RowInv, Agree
<1>3. /\ SameIdentity(row, new) /\ new.status = "running" /\ new.locked_until = LockSeconds
      /\ LockSeconds # NULL
  BY <1>1, <1>2, ClaimRow, RunTableAssumption
<1>4. new.ended = row.ended
  BY <1>1 DEF WriteBack, Claim, Row
<1>5. new # NoRun
  <2>1. Claim(row, WorkerIdOf[t]) \in Row
    BY <1>1, RowOperations
  <2>2. new \in Row
    BY <1>1, <2>1, WriteBackType
  <2>3. QED
    BY <2>2, RunTableAssumption
<1>6. runs'[r] = new /\ \A q \in RunIds \ {r} : runs'[q] = runs[q]
  BY <1>1, <1>2 DEF DequeueCommit, Table
<1>7. r >= clear.last => Upstream(row.job)
  BY <1>a DEF ClaimedUpstream, DequeueCommit, Upstream
<1>8. Moved(r)
  BY <1>1, <1>3, <1>4, <1>5, <1>6, <1>7 DEF Moved, Taken
<1>9. \A q \in RunIds \ {r} : runs[q] # NoRun => Moved(q)
  BY <1>6 DEF Moved, SameIdentity, Kept
<1>10. QED
  BY <1>1, <1>2, <1>3, <1>5, <1>6, <1>8, <1>9 DEF TableMoves

\* The end of an execution ends the run.
LEMMA FinishMoves ==
    ASSUME LifeInv, NEW t \in Tasks, TaskFinish(t)
    PROVE  /\ TableMoves
           /\ \A q \in RunIds : q # task[t].run /\ q < nextRun => runs'[q] = runs[q]
<1> DEFINE r == task[t].run
<1>a. QueueInv /\ TableInv
  BY DEF LifeInv, ExclusiveInv
<1>1. CASE RunGone(r)
  BY <1>1, MovesAlone DEF RunGone
<1>2. ASSUME NEW status \in {"success", "failed", "timeout"},
             UpdateStatus(r, task[t].loaded, status)
      PROVE  TableMoves /\ \A q \in RunIds : q # r /\ q < nextRun => runs'[q] = runs[q]
  <2>1. task[t].pc = "executing" /\ runs[r] # NoRun
    BY <1>2 DEF TaskFinish, UpdateStatus
  <2>2. /\ r \in RunIds /\ task[t].loaded \in Row /\ Snapshot(r, task[t].loaded)
        /\ runs[r].status = "running" /\ task[t].loaded.status = "running"
        /\ ~task[t].loaded.ended
    BY <2>1, LiveFacts
  <2>3. status \in Finished /\ "running" \notin Finished
    BY DEF Finished
  <2>4. TableMoves /\ \A q \in RunIds \ {r} : q < nextRun => runs'[q] = runs[q]
    BY <1>a, <1>2, <2>2, <2>3, UpdateMoves
  <2>5. QED
    BY <2>4
<1>3. QED
  BY <1>1, <1>2 DEF TaskFinish

\* An accepted external job leaves the run waiting.
LEMMA AwaitMoves ==
    ASSUME LifeInv, NEW t \in Tasks, TaskAwait(t)
    PROVE  /\ TableMoves
           /\ \A q \in RunIds : q # task[t].run => runs'[q] = runs[q]
<1> DEFINE r == task[t].run
<1> DEFINE new == WriteBack(runs[r], task[t].loaded,
                            [task[t].loaded EXCEPT !.status = "awaiting_result"])
<1>1. CASE RunGone(r)
  BY <1>1, MovesAlone DEF RunGone
<1>2. CASE runs[r] # NoRun /\ runs' = [runs EXCEPT ![r] = new]
  <2>1. /\ r \in RunIds /\ task[t].loaded \in Row /\ runs[r] \in Row /\ RowInv(runs[r])
        /\ runs[r].status = "running" /\ task[t].loaded.status = "running"
    BY <1>2, LiveFacts DEF TaskAwait
  <2>2. SameIdentity(runs[r], new) /\ Left(runs[r], new)
    BY <2>1, MovedRows
  <2>3. new # NoRun
    BY <2>1, RowOperations, WriteBackType, RunTableAssumption
  <2>4. runs \in Table
    BY LifeFacts DEF LifeInv, ExclusiveInv
  <2>5. runs'[r] = new /\ \A q \in RunIds : q # r => runs'[q] = runs[q]
    BY <1>2, <2>1, <2>4 DEF Table
  <2>6. Moved(r) /\ \A q \in RunIds : q # r /\ runs[q] # NoRun => Moved(q)
    BY <1>2, <2>2, <2>3, <2>5 DEF Moved, SameIdentity, Kept
  <2>7. QED
    BY <2>5, <2>6 DEF TableMoves
<1>3. QED
  BY <1>1, <1>2 DEF TaskAwait

\* The scheduler's commit puts running rows back.
LEMMA ReleaseMoves ==
    ASSUME LifeInv, NEW s \in Schedulers, ReleaseCommit(s)
    PROVE  /\ TableMoves
           /\ \A q \in RunIds \ InBatch(s) : runs'[q] = runs[q]
           /\ \/ runs' = runs
              \/ \A q \in InBatch(s) : /\ runs[q] # NoRun /\ runs[q].status = "running"
                                       /\ runs'[q] # NoRun /\ runs'[q].status = "pending"
<1>1. CASE runs' = runs
  BY <1>1, MovesAlone
<1>2. CASE /\ \A r \in InBatch(s) : runs[r] # NoRun /\ ~RowLocked(r)
           /\ runs' = [r \in RunIds |->
                  IF r \in InBatch(s)
                  THEN WriteBack(runs[r], batch[s][r], Release(batch[s][r]))
                  ELSE runs[r]]
  <2>1. \A q \in RunIds \ InBatch(s) : runs'[q] = runs[q]
    BY <1>2
  <2>2. ASSUME NEW q \in InBatch(s)
        PROVE  /\ Moved(q) /\ runs[q] # NoRun /\ runs[q].status = "running"
               /\ runs'[q] # NoRun /\ runs'[q].status = "pending"
    <3> DEFINE new == WriteBack(runs[q], batch[s][q], Release(batch[s][q]))
    <3>1. /\ q \in RunIds /\ runs[q] # NoRun /\ batch[s][q] # NoRun /\ runs'[q] = new
      BY <1>2 DEF InBatch
    <3>2. /\ runs[q] \in Row /\ RowInv(runs[q]) /\ batch[s][q] \in Row
          /\ batch[s][q].status = "running" /\ runs[q].status = "running"
      BY <3>1, LifeFacts
         DEF LifeInv, ExclusiveInv, QueueInv, TypeInv, TypeOK, Table, LeaseColumnsAgree,
             RowInv, Agree, BatchSnapshots, BatchRunning
    <3>3. SameIdentity(runs[q], new) /\ Requeued(runs[q], new)
      BY <3>2, MovedRows
    <3>4. new # NoRun
      <4>1. Release(batch[s][q]) \in Row
        BY <3>2, RowOperations
      <4>2. new \in Row
        BY <3>2, <4>1, WriteBackType
      <4>3. QED
        BY <4>2, RunTableAssumption
    <3>5. QED
      BY <3>1, <3>2, <3>3, <3>4 DEF Moved, Requeued
  <2>3. \A q \in RunIds \ InBatch(s) : runs[q] # NoRun => Moved(q)
    BY <2>1 DEF Moved, SameIdentity, Kept
  <2>4. TableMoves
    BY <2>1, <2>2, <2>3 DEF TableMoves
  <2>5. QED
    BY <2>1, <2>2, <2>4
<1>3. QED
  BY <1>1, <1>2 DEF ReleaseCommit

\* A triggered run is no retry.
LEMMA TriggerMoves ==
    ASSUME LifeInv, NEW j \in Jobs, Trigger(j)
    PROVE  /\ TableMoves
           /\ nextRun \in RunIds /\ runs'[nextRun] = NewRun(j) /\ NewRun(j) # NoRun
           /\ \A q \in RunIds \ {nextRun} : runs'[q] = runs[q]
<1>a. runs \in Table /\ nextRun \in Nat
  BY LifeFacts DEF LifeInv, ExclusiveInv
<1>b. nextRun \in RunIds
  BY RunTableAssumption
     DEF Trigger, RunIds, LifeInv, ExclusiveInv, QueueInv, TypeInv, TypeOK
<1>1. runs'[nextRun] = NewRun(j) /\ \A q \in RunIds \ {nextRun} : runs'[q] = runs[q]
  BY <1>a, <1>b DEF Trigger, Table
<1>2. NewRun(j) # NoRun
  BY InsertedType, RunTableAssumption
<1>3. Submitted(nextRun)
  BY <1>1, <1>2 DEF Submitted, NewRun
<1>4. \A q \in RunIds \ {nextRun} : runs[q] # NoRun => Moved(q)
  BY <1>1 DEF Moved, SameIdentity, Kept
<1>5. QED
  BY <1>1, <1>2, <1>3, <1>4, <1>b DEF TableMoves

\* The passing of time.
LEMMA TickMoves ==
    ASSUME LifeInv, Tick
    PROVE  /\ TableMoves
           /\ \A q \in RunIds : \/ runs[q] = NoRun /\ runs'[q] = NoRun
                                \/ /\ runs[q] # NoRun /\ runs'[q] # NoRun
                                   /\ runs'[q].status = runs[q].status
<1>1. \A q \in RunIds : runs'[q] = AgeRow(runs[q])
  BY DEF Tick
<1>2. \A q \in RunIds : runs[q] # NoRun => runs[q] \in Row /\ RowInv(runs[q])
  BY LifeFacts DEF LifeInv, ExclusiveInv, QueueInv, LeaseColumnsAgree, RowInv, Agree
<1>3. \A q \in RunIds : runs[q] # NoRun =>
          Moved(q) /\ runs'[q].status = runs[q].status
  BY <1>1, <1>2, AgedMoves DEF Moved, Kept
<1>4. \A q \in RunIds : runs[q] = NoRun => runs'[q] = NoRun
  BY <1>1 DEF AgeRow
<1>5. QED
  BY <1>3, <1>4 DEF TableMoves, Moved

-----------------------------------------------------------------------------
(* The rest of the invariant: tasks, schedulers and claims.                 *)

StillRow(r) == runs'[r] # NoRun => runs[r] # NoRun /\ runs'[r].status = runs[r].status

\* a step after which the live tasks are as before, and so are their rows
TasksStill ==
    \A t \in Tasks : Live(t)' =>
        /\ Live(t) /\ task'[t].pc = task[t].pc
        /\ task'[t].run = task[t].run /\ task'[t].loaded = task[t].loaded
        /\ StillRow(task[t].run)

BatchStill ==
    \A s \in Schedulers : \A r \in InBatch(s)' : r \in InBatch(s) /\ StillRow(r)

ClaimsStill ==
    \A u \in Consumers : task'[u].pc = "claimed" =>
        /\ task[u].pc = "claimed" /\ task'[u].run = task[u].run
        /\ task'[u].loaded = task[u].loaded /\ task'[u].todo = task[u].todo

\* What each of the three keeps.
LEMMA StillKeeps ==
    ASSUME LifeInv, TableMoves, clear'.last = clear.last
    PROVE  /\ TasksStill => LiveRunning'
           /\ BatchStill => BatchRunning'
           /\ ClaimsStill => ClaimedUpstream'
<1>a. QueueInv /\ LiveRunning /\ BatchRunning /\ ClaimedUpstream
  BY DEF LifeInv, ExclusiveInv
<1>1. TasksStill => LiveRunning'
  BY <1>a DEF TasksStill, StillRow, LiveRunning
<1>2. BatchStill => BatchRunning'
  BY <1>a DEF BatchStill, StillRow, BatchRunning
<1>3. ASSUME ClaimsStill PROVE ClaimedUpstream'
  <2> SUFFICES ASSUME NEW u \in Consumers, task'[u].pc = "claimed",
                      task'[u].run >= clear.last,
                      NEW d \in Deps[task'[u].loaded.job], d \notin task'[u].todo
               PROVE  UpstreamRunNext(d)
    BY DEF ClaimedUpstream, UpstreamRun, UpstreamRunNext
  <2>1. /\ task[u].pc = "claimed" /\ task'[u].loaded = task[u].loaded
        /\ task'[u].run = task[u].run /\ task'[u].todo = task[u].todo
    BY <1>3 DEF ClaimsStill
  <2>2. task[u].loaded.job \in Jobs
    BY <1>a, <2>1 DEF QueueInv, TypeInv, TaskShape, Row
  <2>3. UpstreamRun(d)
    BY <1>a, <2>1 DEF ClaimedUpstream
  <2>4. QED
    BY <1>a, <2>1, <2>2, <2>3, UpstreamKept
<1>4. QED
  BY <1>1, <1>2, <1>3

\* A dependency check that succeeds has found the run.
LEMMA SatisfiedUpstream ==
    ASSUME NEW d, DependencySatisfied(runs, d)
    PROVE  UpstreamRun(d)
<1>1. PICK q \in RunIds : IsLatest(runs, q, d.up) /\ runs[q].status = d.required
  BY DEF DependencySatisfied
<1>2. QED
  BY <1>1 DEF IsLatest, RunsOf, UpstreamRun

\* Initially there is no run and nobody does anything.
LEMMA LifeInit == Init => LifeInv
<1> SUFFICES ASSUME Init PROVE LifeInv
  OBVIOUS
<1>1. \A r \in RunIds : runs[r] = NoRun
  BY DEF Init, EmptyBatch
<1>2. \A t \in Consumers : task[t].pc = "idle"
  BY DEF Init, IdleTask
<1>3. \A s \in Schedulers : InBatch(s) = {}
  BY DEF Init, InBatch, EmptyBatch
<1>4. TableInv
  BY <1>1 DEF TableInv, EndedWhenFinished, RunningHasLease, RetriedHasEnded, SingleRetry,
              UpstreamFirst
<1>5. LiveRunning /\ BatchRunning /\ ClaimedUpstream
  BY <1>2, <1>3 DEF LiveRunning, BatchRunning, ClaimedUpstream, Live, Consumers
<1>6. QED
  BY <1>4, <1>5, ExclusiveInit DEF LifeInv

\* Every step keeps the invariant, and moves rows or deletes some of them.
LEMMA LifeStep ==
    ASSUME SingleScheduler, BoundedExec, NoRequests, LifeInv, [Next]_vars
    PROVE  LifeInv' /\ (TableMoves \/ \A r \in RunIds : runs'[r] \in {NoRun, runs[r]})
<1>a. ExclusiveInv'
  BY ExclusiveStep DEF LifeInv
<1>b. /\ QueueInv /\ TableInv /\ LiveRunning /\ BatchRunning /\ ClaimedUpstream
      /\ OneExecutorPerRun /\ BatchRows /\ QueueInv'
  BY <1>a DEF LifeInv, ExclusiveInv
<1>c. /\ task \in [Consumers -> TaskState] /\ Tasks \subseteq Consumers
      /\ nextRun \in Nat /\ RunIds \subseteq Nat /\ runs \in Table
      /\ batch \in [Schedulers -> Table]
  BY <1>b, LifeFacts DEF QueueInv, TypeInv, TypeOK, Consumers
<1>d. \A t \in Tasks : Live(t) => task[t].run \in RunIds /\ task[t].run < nextRun
  BY <1>b, <1>c DEF QueueInv, TypeInv, TaskShape, TaskSnapshots, Live
<1>e. \A s \in Schedulers : \A r \in InBatch(s) : r \in RunIds /\ r < nextRun
  BY <1>b DEF QueueInv, BatchSnapshots, InBatch
<1>0. ASSUME ClearCommit PROVE LifeInv' /\ \A r \in RunIds : runs'[r] \in {NoRun, runs[r]}
  <2>1. /\ \A r \in RunIds : runs'[r] = NoRun \/ runs'[r] = runs[r]
        /\ task' = task /\ batch' = batch /\ nextRun' = nextRun /\ clear'.last = nextRun
    BY <1>0 DEF ClearCommit
  <2>2. \A r \in RunIds : r >= nextRun => runs'[r] = NoRun
    BY <1>b, <2>1, LifeFacts
  <2>3. \A r \in RunIds : runs'[r] # NoRun /\ runs'[r].retry_of # NULL =>
            runs'[r].retry_of \in RunIds
    BY <1>b, <2>1, LifeFacts
  <2>4. EndedWhenFinished' /\ RunningHasLease' /\ SingleRetry'
    BY <1>b, <2>1 DEF TableInv, EndedWhenFinished, RunningHasLease, SingleRetry
  <2>5. RetriedHasEnded'
    BY <1>b, <2>1, <2>3 DEF TableInv, RetriedHasEnded
  <2>6. UpstreamFirst'
    BY <2>1, <2>2 DEF UpstreamFirst
  <2>7. LiveRunning' /\ BatchRunning'
    BY <1>b, <1>d, <1>e, <2>1 DEF LiveRunning, BatchRunning, Live, InBatch
  <2>8. \A t \in Consumers : task[t].pc = "claimed" => ~(task[t].run >= nextRun)
    <3>1. \A t \in Consumers : task[t].pc = "claimed" =>
              task[t].run \in RunIds /\ task[t].run < nextRun
      BY <1>b, HeldAreOld DEF QueueInv, TypeInv, TaskShape
    <3>2. \A r \in RunIds : r < nextRun => ~(r >= nextRun)
      BY <1>c
    <3>3. QED
      BY <3>1, <3>2
  <2>9. ClaimedUpstream'
    BY <2>1, <2>8 DEF ClaimedUpstream
  <2>10. QED
    BY <1>a, <2>1, <2>4, <2>5, <2>6, <2>7, <2>9 DEF LifeInv, TableInv
<1> SUFFICES ASSUME clear'.last = clear.last, ~ClearCommit
             PROVE  LifeInv' /\ TableMoves
  <2>1. clear'.last = clear.last \/ ClearCommit
    <3>1. clear \in ClearState
      BY <1>b DEF QueueInv, TypeInv, TypeOK
    <3>2. clear' = clear \/ ClearCommit \/ clear' = [clear EXCEPT !.below = nextRun]
          \/ clear' = [clear EXCEPT !.below = 0, !.held = {}]
          \/ \E r \in RunIds : clear' = [clear EXCEPT !.held = @ \cup {r}]
      BY DEF Next, DequeueStep, TaskStep, SchedulerStep, ClearStep, vars, DequeueSelect,
             DequeueCheck, DequeueNone, DequeueCommit, TaskFails, TaskLoad, TaskFinish,
             TaskAwait, ReleaseLoad, ReleaseCommit, SchedulerCrash, RequestLoad,
             RequestCommit, Trigger, SetEnabled, ClearStart, ClearRow, ClearFails,
             PodCrash, Tick
    <3>3. QED
      BY <3>1, <3>2 DEF ClearState
  <2>2. QED
    BY <1>0, <2>1
<1>f. ASSUME TableMoves, LiveRunning', BatchRunning', ClaimedUpstream'
      PROVE  LifeInv' /\ TableMoves
  BY <1>a, <1>b, <1>f, MovesKeep DEF LifeInv
<1>g. ASSUME TableMoves, TasksStill, BatchStill, ClaimsStill
      PROVE  LifeInv' /\ TableMoves
  BY <1>f, <1>g, StillKeeps DEF LifeInv
<1>h. /\ runs' = runs => TableMoves /\ \A r \in RunIds : StillRow(r)
      /\ task' = task /\ (\A r \in RunIds : r < nextRun => StillRow(r)) =>
             TasksStill /\ ClaimsStill
      /\ batch' = batch /\ (\A r \in RunIds : r < nextRun => StillRow(r)) => BatchStill
  BY <1>d, <1>e, MovesAlone DEF StillRow, TasksStill, ClaimsStill, BatchStill, Live, InBatch
<1>i. IdleTask.pc = "idle"
  BY DEF IdleTask
<1>1. ASSUME NEW t \in Consumers, DequeueSelect(t) PROVE LifeInv' /\ TableMoves
  <2>1. PICK r \in Candidates(t) : task' = [task EXCEPT ![t] =
               ClaimedTask(r, runs[r], task[t].held \cup {r}, Deps[runs[r].job])]
    BY <1>1 DEF DequeueSelect
  <2>2. runs' = runs /\ batch' = batch
    BY <1>1 DEF DequeueSelect
  <2>3. /\ task'[t].pc = "claimed" /\ task'[t].todo = Deps[task'[t].loaded.job]
        /\ \A u \in Consumers \ {t} : task'[u] = task[u]
    BY <1>c, <2>1 DEF ClaimedTask
  <2>4. TasksStill
    BY <1>c, <1>d, <1>h, <2>2, <2>3 DEF TasksStill, Live
  <2>5. ClaimedUpstream'
    BY <1>b, <2>2, <2>3 DEF ClaimedUpstream, UpstreamRun
  <2>6. QED
    BY <1>f, <1>h, <2>2, <2>4, <2>5, StillKeeps
<1>1a. ASSUME NEW t \in Consumers, DequeueCheck(t) PROVE LifeInv' /\ TableMoves
  <2>1. PICK d \in task[t].todo : task' = [task EXCEPT ![t] =
               IF DependencySatisfied(runs, d)
               THEN ClaimedTask(task[t].run, task[t].loaded, task[t].held, task[t].todo \ {d})
               ELSE SelectingTask(task[t].held)]
    BY <1>1a DEF DequeueCheck
  <2>2. runs' = runs /\ batch' = batch /\ task[t].pc = "claimed"
    BY <1>1a DEF DequeueCheck
  <2>3. /\ task'[t].pc \in {"claimed", "selecting"}
        /\ task'[t].pc = "claimed" =>
               /\ DependencySatisfied(runs, d) /\ task'[t].run = task[t].run
               /\ task'[t].loaded = task[t].loaded /\ task'[t].todo = task[t].todo \ {d}
        /\ \A u \in Consumers \ {t} : task'[u] = task[u]
    BY <1>c, <2>1 DEF ClaimedTask, SelectingTask
  <2>4. TasksStill
    BY <1>c, <1>d, <1>h, <2>2, <2>3 DEF TasksStill, Live
  <2>5. ClaimedUpstream'
    <3> SUFFICES ASSUME NEW u \in Consumers, task'[u].pc = "claimed",
                        task'[u].run >= clear.last,
                        NEW e \in Deps[task'[u].loaded.job], e \notin task'[u].todo
                 PROVE  UpstreamRun(e)
      BY <2>2 DEF ClaimedUpstream, UpstreamRun
    <3>1. CASE u # t
      BY <1>b, <2>3, <3>1 DEF ClaimedUpstream
    <3>2. CASE u = t
      <4>1. e # d => UpstreamRun(e)
        BY <1>b, <2>2, <2>3, <3>2 DEF ClaimedUpstream
      <4>2. e = d => UpstreamRun(e)
        BY <2>3, <3>2, SatisfiedUpstream
      <4>3. QED
        BY <4>1, <4>2
    <3>3. QED
      BY <3>1, <3>2
  <2>6. QED
    BY <1>f, <1>h, <2>2, <2>4, <2>5, StillKeeps
<1>2. ASSUME NEW t \in Consumers, DequeueNone(t) PROVE LifeInv' /\ TableMoves
  <2>1. runs' = runs /\ batch' = batch /\ task' = [task EXCEPT ![t] = IdleTask]
    BY <1>2 DEF DequeueNone
  <2>2. TasksStill /\ ClaimsStill
    BY <1>c, <1>d, <1>h, <1>i, <2>1 DEF TasksStill, ClaimsStill, Live
  <2>3. QED
    BY <1>g, <1>h, <2>1, <2>2
<1>3. ASSUME NEW t \in Consumers, DequeueCommit(t) PROVE LifeInv' /\ TableMoves
  <2> DEFINE r == task[t].run
  <2>1. /\ TableMoves
        /\ r \in RunIds /\ r < nextRun /\ runs[r] # NoRun /\ runs[r].status = "pending"
        /\ runs'[r] # NoRun /\ runs'[r].status = "running"
        /\ \A q \in RunIds \ {r} : runs'[q] = runs[q]
    BY <1>3, DequeueMoves
  <2>2. /\ batch' = batch
        /\ task' = [task EXCEPT ![t] = IF t \in PullClients THEN IdleTask ELSE LockedTask(r)]
    BY <1>3 DEF DequeueCommit
  <2>3. LiveRunning'
    <3> SUFFICES ASSUME NEW u \in Tasks, Live(u)', runs'[task'[u].run] # NoRun
                 PROVE  /\ runs'[task'[u].run].status = "running"
                        /\ task'[u].pc = "executing" =>
                               task'[u].loaded.status = "running" /\ ~task'[u].loaded.ended
      BY DEF LiveRunning
    <3>1. CASE u = t
      BY <1>c, <1>i, <2>1, <2>2, <3>1 DEF Live, LockedTask
    <3>2. CASE u # t
      <4>1. task'[u] = task[u] /\ Live(u) /\ task[u].run \in RunIds
        BY <1>c, <1>d, <2>2, <3>2 DEF Live
      <4>2. task[u].run # r
        BY <1>b, <2>1, <4>1 DEF LiveRunning
      <4>3. QED
        BY <1>b, <2>1, <4>1, <4>2 DEF LiveRunning
    <3>3. QED
      BY <3>1, <3>2
  <2>4. BatchStill
    BY <1>b, <1>e, <2>1, <2>2 DEF BatchStill, StillRow, BatchRunning, InBatch
  <2>5. ClaimsStill
    BY <1>c, <1>i, <2>2 DEF ClaimsStill, LockedTask
  <2>6. QED
    BY <1>f, <2>1, <2>3, <2>4, <2>5, StillKeeps
<1>4. ASSUME NEW t \in Tasks, TaskLoad(t) PROVE LifeInv' /\ TableMoves
  <2>1. runs' = runs /\ batch' = batch /\ t \in Consumers /\ Live(t)
    BY <1>4, <1>c DEF TaskLoad, Live
  <2>2. \/ task' = [task EXCEPT ![t] = IdleTask]
        \/ /\ runs[task[t].run] # NoRun
           /\ task' = [task EXCEPT ![t] =
                  ExecutingTask(task[t].run, runs[task[t].run], task[t].left)]
    BY <1>4 DEF TaskLoad
  <2>3. LiveRunning'
    <3> SUFFICES ASSUME NEW u \in Tasks, Live(u)', runs'[task'[u].run] # NoRun
                 PROVE  /\ runs'[task'[u].run].status = "running"
                        /\ task'[u].pc = "executing" =>
                               task'[u].loaded.status = "running" /\ ~task'[u].loaded.ended
      BY DEF LiveRunning
    <3>1. CASE u = t
      <4>1. task'[t] = ExecutingTask(task[t].run, runs[task[t].run], task[t].left)
        BY <1>c, <1>i, <2>1, <2>2, <3>1 DEF Live
      <4>2. task'[t].run = task[t].run /\ task'[t].loaded = runs[task[t].run]
        BY <4>1 DEF ExecutingTask
      <4>3. runs[task[t].run].status = "running" /\ runs[task[t].run] # NoRun
        BY <1>b, <2>1, <3>1, <4>2 DEF LiveRunning
      <4>4. ~runs[task[t].run].ended
        BY <1>b, <1>d, <2>1, <4>3 DEF TableInv, EndedWhenFinished, Finished
      <4>5. QED
        BY <2>1, <3>1, <4>2, <4>3, <4>4
    <3>2. CASE u # t
      BY <1>b, <1>c, <2>1, <2>2, <3>2 DEF LiveRunning, Live
    <3>3. QED
      BY <3>1, <3>2
  <2>4. ClaimsStill
    BY <1>c, <1>i, <2>1, <2>2 DEF ClaimsStill, ExecutingTask
  <2>5. QED
    BY <1>f, <1>h, <2>1, <2>3, <2>4, StillKeeps
<1>5. ASSUME NEW t \in Tasks, TaskFinish(t) \/ TaskAwait(t) PROVE LifeInv' /\ TableMoves
  <2>1. /\ TableMoves /\ t \in Consumers /\ Live(t)
        /\ \A q \in RunIds : q # task[t].run /\ q < nextRun => runs'[q] = runs[q]
    BY <1>5, <1>c, FinishMoves, AwaitMoves DEF TaskFinish, TaskAwait, Live
  <2>2. batch' = batch /\ task' = [task EXCEPT ![t] = IdleTask]
    BY <1>5 DEF TaskFinish, TaskAwait
  <2>3. TasksStill
    <3> SUFFICES ASSUME NEW u \in Tasks, Live(u)'
                 PROVE  Live(u) /\ task'[u] = task[u] /\ StillRow(task[u].run)
      BY DEF TasksStill
    <3>1. u # t /\ task'[u] = task[u] /\ Live(u)
      BY <1>c, <1>i, <2>2 DEF Live
    <3>2. task[u].run # task[t].run
      BY <1>b, <2>1, <3>1 DEF OneExecutorPerRun
    <3>3. QED
      BY <1>d, <2>1, <3>1, <3>2 DEF StillRow
  <2>4. BatchStill
    BY <1>b, <1>e, <2>1, <2>2 DEF BatchStill, StillRow, BatchRows, InBatch
  <2>5. ClaimsStill
    BY <1>c, <1>i, <2>2 DEF ClaimsStill
  <2>6. QED
    BY <1>g, <2>1, <2>3, <2>4, <2>5
<1>6. ASSUME NEW s \in Schedulers, ReleaseLoad(s) PROVE LifeInv' /\ TableMoves
  <2>1. runs' = runs /\ task' = task
    BY <1>6 DEF ReleaseLoad
  <2>2. \A r \in InBatch(s)' : r \in FindExpired(runs)
    BY <1>6, <1>c DEF ReleaseLoad, InBatch
  <2>3. BatchRunning'
    BY <2>1, <2>2 DEF BatchRunning, FindExpired, ExpiredLease, SingleScheduler
  <2>4. QED
    BY <1>f, <1>h, <2>1, <2>3, StillKeeps
<1>7. ASSUME NEW s \in Schedulers, ReleaseCommit(s) PROVE LifeInv' /\ TableMoves
  <2>1. TableMoves /\ \A q \in RunIds \ InBatch(s) : runs'[q] = runs[q]
    BY <1>7, ReleaseMoves
  <2>2. task' = task /\ batch' = [batch EXCEPT ![s] = EmptyBatch]
    BY <1>7 DEF ReleaseCommit
  <2>3. TasksStill /\ ClaimsStill
    BY <1>b, <1>d, <2>1, <2>2 DEF TasksStill, ClaimsStill, StillRow, BatchRows, Live
  <2>4. BatchStill
    BY <1>c, <2>2 DEF BatchStill, InBatch, EmptyBatch, SingleScheduler
  <2>5. QED
    BY <1>g, <2>1, <2>3, <2>4
<1>8. ASSUME NEW s \in Schedulers, SchedulerCrash(s) PROVE LifeInv' /\ TableMoves
  <2>1. runs' = runs /\ task' = task /\ batch' = [batch EXCEPT ![s] = EmptyBatch]
    BY <1>8 DEF SchedulerCrash
  <2>2. BatchStill
    BY <1>c, <1>e, <1>h, <2>1 DEF BatchStill, InBatch, EmptyBatch
  <2>3. QED
    BY <1>g, <1>h, <2>1, <2>2
<1>9. ASSUME NEW c \in Clients PROVE FALSE
  BY <1>9 DEF NoRequests
<1>10. ASSUME NEW j \in Jobs, Trigger(j) PROVE LifeInv' /\ TableMoves
  <2>1. TableMoves /\ \A q \in RunIds \ {nextRun} : runs'[q] = runs[q]
    BY <1>10, TriggerMoves
  <2>2. \A q \in RunIds : q < nextRun => StillRow(q)
    BY <1>c, <2>1 DEF StillRow
  <2>3. QED
    BY <1>10, <1>g, <1>h, <2>1, <2>2 DEF Trigger
<1>11. ASSUME NEW j \in Jobs, SetEnabled(j) PROVE LifeInv' /\ TableMoves
  BY <1>11, <1>g, <1>h DEF SetEnabled
<1>12. ASSUME ClearStart \/ ClearFails \/ \E r \in RunIds : ClearRow(r)
       PROVE  LifeInv' /\ TableMoves
  BY <1>12, <1>g, <1>h DEF ClearStart, ClearFails, ClearRow
<1>12a. ASSUME NEW t \in Consumers, TaskFails(t) PROVE LifeInv' /\ TableMoves
  <2>1. runs' = runs /\ batch' = batch /\ task' = [task EXCEPT ![t] = IdleTask]
    BY <1>12a DEF TaskFails
  <2>2. TasksStill /\ ClaimsStill
    BY <1>c, <1>d, <1>h, <1>i, <2>1 DEF TasksStill, ClaimsStill, Live
  <2>3. QED
    BY <1>g, <1>h, <2>1, <2>2
<1>13. ASSUME NEW p \in Pods, PodCrash(p) PROVE LifeInv' /\ TableMoves
  <2>1. runs' = runs /\ batch' = batch
    BY <1>13 DEF PodCrash
  <2>2. \A u \in Consumers : task'[u] = task[u] \/ task'[u] = IdleTask
    BY <1>13 DEF PodCrash
  <2>3. TasksStill /\ ClaimsStill
    BY <1>c, <1>d, <1>h, <1>i, <2>1, <2>2 DEF TasksStill, ClaimsStill, Live
  <2>4. QED
    BY <1>g, <1>h, <2>1, <2>3
<1>14. ASSUME Tick PROVE LifeInv' /\ TableMoves
  <2>1. TableMoves /\ \A q \in RunIds : StillRow(q)
    BY <1>14, TickMoves DEF StillRow
  <2>2. ASSUME NEW u \in Consumers
        PROVE  /\ task'[u].pc = task[u].pc /\ task'[u].run = task[u].run
               /\ task'[u].loaded = task[u].loaded /\ task'[u].todo = task[u].todo
    BY <1>14, <1>c DEF Tick, TaskState
  <2>3. TasksStill /\ ClaimsStill
    BY <1>c, <1>d, <2>1, <2>2 DEF TasksStill, ClaimsStill, Live
  <2>4. QED
    BY <1>14, <1>g, <1>h, <2>1, <2>3 DEF Tick
<1>15. ASSUME UNCHANGED vars PROVE LifeInv' /\ TableMoves
  BY <1>15, <1>g, <1>h DEF vars
<1>16. QED
  BY <1>1, <1>1a, <1>2, <1>3, <1>4, <1>5, <1>6, <1>7, <1>8, <1>9, <1>10, <1>11, <1>12,
     <1>12a, <1>13, <1>14, <1>15
     DEF Next, DequeueStep, TaskStep, SchedulerStep, ClearStep

\* So the invariant holds in every state.
LEMMA LifeInvariant ==
    ASSUME SingleScheduler, BoundedExec, NoRequests
    PROVE  Spec => []LifeInv
<1>1. LifeInv /\ [Next]_vars => LifeInv'
  BY LifeStep
<1>2. QED
  BY <1>1, LifeInit, PTL DEF Spec

\* As long as only workers and schedulers write runs, every running run has a
\* lease that can expire, so that a lost one is found again.
THEOREM LeasesKept ==
    ASSUME SingleScheduler, BoundedExec, NoRequests
    PROVE  Spec => []RunningHasLease
<1>1. LifeInv => RunningHasLease
  BY DEF LifeInv, TableInv
<1>2. QED
  BY <1>1, LifeInvariant, PTL

\* A run is retried at most once, however crashes, releases and the reports of
\* the runs' own workers interleave.
THEOREM RetriedOnce ==
    ASSUME SingleScheduler, BoundedExec, NoRequests
    PROVE  Spec => []SingleRetry
<1>1. LifeInv => SingleRetry
  BY DEF LifeInv, TableInv
<1>2. QED
  BY <1>1, LifeInvariant, PTL

\* A run inserted after the last clear was committed does not leave the queue
\* before the runs its job waits for have ended with the required status, for
\* every graph of dependencies, although each dependency is looked at in a
\* query of its own.
THEOREM UpstreamRunsFirst ==
    ASSUME SingleScheduler, BoundedExec, NoRequests
    PROVE  Spec => []UpstreamFirst
<1>1. LifeInv => UpstreamFirst
  BY DEF LifeInv, TableInv
<1>2. QED
  BY <1>1, LifeInvariant, PTL

\* A run that has ended keeps its status until the table is cleared.  The
\* hypotheses leave no late worker: one that outlives its lease, or a request
\* on the run, does overwrite it.
THEOREM FinishedForGood ==
    ASSUME SingleScheduler, BoundedExec, NoRequests
    PROVE  Spec => FinishedStays
<1> DEFINE Stays == \A r \in RunIds :
                        runs[r] # NoRun /\ runs[r].status \in Finished =>
                            \/ runs'[r] = NoRun
                            \/ runs'[r].status = runs[r].status
<1>1. ASSUME LifeInv, [Next]_vars PROVE Stays
  <2>1. TableMoves \/ \A r \in RunIds : runs'[r] \in {NoRun, runs[r]}
    BY <1>1, LifeStep
  <2>2. \A r \in RunIds : runs[r] # NoRun => r # nextRun
    BY <1>1, LifeFacts DEF LifeInv, ExclusiveInv
  <2>3. QED
    BY <2>1, <2>2, FinishedKept
<1>2. LifeInv /\ [Next]_vars => [Stays]_vars
  BY <1>1
<1> HIDE DEF Stays
<1>3. Spec => [][Stays]_vars
  BY <1>2, LifeInvariant, PTL DEF Spec
<1>4. QED
  BY <1>3 DEF FinishedStays, Stays

-----------------------------------------------------------------------------
(* Circles of dependencies.  Nothing is assumed here of schedulers and of how *)
(* long executions take.  A run of a circle is queued; a dequeue that has     *)
(* locked it cannot tick off its dependency inside the circle, where there    *)
(* are queued runs only, so it never commits; and what was never started is   *)
(* in nobody's hands.                                                        *)

InCircle(j) == \E S \in SUBSET Jobs : Circular(S) /\ j \in S

CircleRows ==
    \A r \in RunIds : runs[r] # NoRun /\ InCircle(runs[r].job) => runs[r].status = "pending"

CircleClaims ==
    \A t \in Consumers : task[t].pc = "claimed" =>
        \A d \in Deps[task[t].loaded.job] : InCircle(d.up) => d \in task[t].todo

CircleTasks ==
    \A t \in Tasks : Live(t) /\ runs[task[t].run] # NoRun =>
        ~InCircle(runs[task[t].run].job)

CircleInv == QueueInv /\ CircleRows /\ CircleClaims /\ CircleTasks

\* a step that writes no row of a circle, except back into the queue
CircleMoves ==
    \A r \in RunIds : runs'[r] # NoRun =>
        \/ r = nextRun /\ runs'[r].status = "pending"
        \/ /\ runs[r] # NoRun /\ runs'[r].job = runs[r].job
           /\ \/ runs'[r].status \in {"pending", runs[r].status}
              \/ ~InCircle(runs[r].job)

\* a step after which the live tasks and the claims are old ones
CircleTasksStill ==
    \A t \in Consumers :
        /\ Live(t)' => Live(t) /\ task'[t].run = task[t].run
        /\ task'[t].pc = "claimed" =>
               /\ task[t].pc = "claimed" /\ task'[t].loaded = task[t].loaded
               /\ task'[t].todo = task[t].todo

\* A dependency inside a circle is never satisfied.
LEMMA CircleBlocks ==
    ASSUME CircleRows, NEW j \in Jobs, NEW d \in Deps[j], InCircle(d.up)
    PROVE  ~DependencySatisfied(runs, d)
<1>1. d.required \in Finished /\ "pending" \notin Finished
  BY RunTableAssumption DEF Dependency, Finished
<1>2. \A q \in RunIds : IsLatest(runs, q, d.up) => runs[q].status = "pending"
  BY DEF CircleRows, IsLatest, RunsOf
<1>3. QED
  BY <1>1, <1>2 DEF DependencySatisfied

\* update_status of a run outside the circles.
LEMMA CircleUpdate ==
    ASSUME QueueInv, NEW r \in RunIds, NEW loaded, NEW status,
           UpdateStatus(r, loaded, status), ~InCircle(runs[r].job)
    PROVE  CircleMoves
<1> DEFINE new == WriteBack(runs[r], loaded, Updated(loaded, status))
<1>1. /\ runs \in Table /\ nextRun \in Nat /\ runs[r] # NoRun
      /\ r # nextRun /\ RunIds \subseteq Nat
  BY LifeFacts DEF UpdateStatus
<1>2. new.job = runs[r].job
  BY DEF WriteBack
<1>3. RetryRun(loaded, r).status = "pending"
  BY DEF RetryRun, NewRun
<1>4. \A q \in RunIds : \/ q = r /\ runs'[q] = new
                        \/ q = nextRun /\ runs'[q] = RetryRun(loaded, r)
                        \/ runs'[q] = runs[q]
  BY <1>1 DEF UpdateStatus, Table
<1>5. QED
  BY <1>1, <1>2, <1>3, <1>4 DEF CircleMoves

\* Every step keeps the circles waiting.
LEMMA CircleStep ==
    ASSUME NoRequests, CircleInv, [Next]_vars
    PROVE  CircleInv'
<1>a. QueueInv /\ QueueInv' /\ CircleRows /\ CircleClaims /\ CircleTasks
  BY QueueStep DEF CircleInv
<1>b. /\ task \in [Consumers -> TaskState] /\ Tasks \subseteq Consumers
      /\ nextRun \in Nat /\ RunIds \subseteq Nat /\ runs \in Table
      /\ \A r \in RunIds : runs[r] # NoRun =>
             runs[r] \in Row /\ RowInv(runs[r]) /\ r # nextRun /\ runs[r].job \in Jobs
      /\ IdleTask.pc = "idle"
  BY <1>a, LifeFacts
     DEF QueueInv, TypeInv, TypeOK, Consumers, LeaseColumnsAgree, RowInv, Agree, IdleTask
<1>c. \A t \in Tasks : Live(t) =>
          task[t].run \in RunIds /\ task[t].run < nextRun /\ task[t].run # nextRun
  BY <1>a, <1>b DEF QueueInv, TypeInv, TaskShape, TaskSnapshots, Live
<1>d. CircleMoves => CircleRows'
  BY <1>a DEF CircleMoves, CircleRows
<1>e. runs' = runs => CircleMoves
  BY <1>b DEF CircleMoves
<1>f. CircleMoves /\ CircleTasksStill => CircleInv'
  <2> SUFFICES ASSUME CircleMoves, CircleTasksStill PROVE CircleInv'
    OBVIOUS
  <2>1. CircleTasks'
    BY <1>a, <1>b, <1>c DEF CircleTasks, CircleMoves, CircleTasksStill
  <2>2. CircleClaims'
    BY <1>a DEF CircleClaims, CircleTasksStill
  <2>3. QED
    BY <1>a, <1>d, <2>1, <2>2 DEF CircleInv
<1>g. task' = task => CircleTasksStill
  BY DEF CircleTasksStill, Live
<1>h. \A t \in Consumers : task' = [task EXCEPT ![t] = IdleTask] => CircleTasksStill
  BY <1>b DEF CircleTasksStill, Live
<1>1. ASSUME NEW t \in Consumers, DequeueSelect(t) PROVE CircleInv'
  <2>1. /\ runs' = runs /\ task'[t].pc = "claimed"
        /\ task'[t].todo = Deps[task'[t].loaded.job]
        /\ \A u \in Consumers \ {t} : task'[u] = task[u]
    BY <1>1, <1>b DEF DequeueSelect, ClaimedTask
  <2>2. CircleClaims'
    BY <1>a, <2>1 DEF CircleClaims
  <2>3. CircleTasks'
    BY <1>a, <1>b, <2>1 DEF CircleTasks, Live
  <2>4. QED
    BY <1>a, <1>d, <1>e, <2>1, <2>2, <2>3 DEF CircleInv
<1>2. ASSUME NEW t \in Consumers, DequeueCheck(t) PROVE CircleInv'
  <2>1. PICK d \in task[t].todo : task' = [task EXCEPT ![t] =
               IF DependencySatisfied(runs, d)
               THEN ClaimedTask(task[t].run, task[t].loaded, task[t].held, task[t].todo \ {d})
               ELSE SelectingTask(task[t].held)]
    BY <1>2 DEF DequeueCheck
  <2>2. /\ runs' = runs /\ task[t].pc = "claimed"
        /\ task'[t].pc \in {"claimed", "selecting"}
        /\ task'[t].pc = "claimed" =>
               /\ DependencySatisfied(runs, d)
               /\ task'[t].loaded = task[t].loaded /\ task'[t].todo = task[t].todo \ {d}
        /\ \A u \in Consumers \ {t} : task'[u] = task[u]
    BY <1>2, <1>b, <2>1 DEF DequeueCheck, ClaimedTask, SelectingTask
  <2>3. CircleTasks'
    BY <1>a, <1>b, <2>2 DEF CircleTasks, Live
  <2>4. CircleClaims'
    <3> SUFFICES ASSUME NEW u \in Consumers, task'[u].pc = "claimed",
                        NEW e \in Deps[task'[u].loaded.job], InCircle(e.up)
                 PROVE  e \in task'[u].todo
      BY DEF CircleClaims
    <3>1. CASE u # t
      BY <1>a, <2>2, <3>1 DEF CircleClaims
    <3>2. CASE u = t
      <4>1. task[t].loaded.job \in Jobs
        BY <1>a, <2>2 DEF QueueInv, TypeInv, TaskShape, Row
      <4>2. e \in task[t].todo /\ e # d
        BY <1>a, <2>2, <3>2, <4>1, CircleBlocks DEF CircleClaims
      <4>3. QED
        BY <2>2, <3>2, <4>2
    <3>3. QED
      BY <3>1, <3>2
  <2>5. QED
    BY <1>a, <1>d, <1>e, <2>2, <2>3, <2>4 DEF CircleInv
<1>3. ASSUME NEW t \in Consumers, DequeueNone(t) \/ TaskFails(t) PROVE CircleInv'
  BY <1>3, <1>e, <1>f, <1>h DEF DequeueNone, TaskFails
<1>4. ASSUME NEW t \in Consumers, DequeueCommit(t) PROVE CircleInv'
  <2> DEFINE r == task[t].run
  <2>1. /\ r \in RunIds /\ runs[r] # NoRun /\ runs[r] = task[t].loaded
        /\ task[t].pc = "claimed" /\ task[t].todo = {}
    BY <1>4, <1>a DEF DequeueCommit, QueueInv, TypeInv, TaskShape, ClaimedRows, HeldRowsExist
  <2>2. ~InCircle(runs[r].job)
    BY <1>a, <2>1 DEF CircleClaims, InCircle, Circular
  <2>3. /\ runs'[r].job = runs[r].job
        /\ \A q \in RunIds \ {r} : runs'[q] = runs[q]
    BY <1>4, <1>b, <2>1 DEF DequeueCommit, WriteBack, Table
  <2>4. CircleMoves
    BY <1>b, <2>1, <2>2, <2>3 DEF CircleMoves
  <2>5. /\ task'[t].pc # "claimed" /\ (Live(t)' => task'[t].run = r)
        /\ \A u \in Consumers \ {t} : task'[u] = task[u]
    BY <1>4, <1>b DEF DequeueCommit, LockedTask, Live
  <2>6. CircleClaims'
    BY <1>a, <2>5 DEF CircleClaims
  <2>7. CircleTasks'
    <3> SUFFICES ASSUME NEW u \in Tasks, Live(u)', runs'[task'[u].run] # NoRun
                 PROVE  ~InCircle(runs'[task'[u].run].job)
      BY DEF CircleTasks
    <3>1. CASE u = t
      BY <2>2, <2>3, <2>5, <3>1
    <3>2. CASE u # t
      BY <1>a, <1>b, <1>c, <2>2, <2>3, <2>5, <3>2 DEF CircleTasks, Live
    <3>3. QED
      BY <3>1, <3>2
  <2>8. QED
    BY <1>a, <1>d, <2>4, <2>6, <2>7 DEF CircleInv
<1>5. ASSUME NEW t \in Tasks, TaskLoad(t) PROVE CircleInv'
  <2>1. CircleTasksStill
    BY <1>5, <1>b DEF TaskLoad, CircleTasksStill, Live, ExecutingTask
  <2>2. QED
    BY <1>5, <1>e, <1>f, <2>1 DEF TaskLoad
<1>6. ASSUME NEW t \in Tasks, TaskFinish(t) PROVE CircleInv'
  <2>1. Live(t) /\ task[t].run \in RunIds
    BY <1>6, <1>c DEF TaskFinish, Live
  <2>2. CASE RunGone(task[t].run)
    BY <1>6, <1>b, <1>e, <1>f, <1>h, <2>2 DEF TaskFinish, RunGone
  <2>3. ASSUME NEW status, UpdateStatus(task[t].run, task[t].loaded, status)
        PROVE  CircleMoves
    <3>1. ~InCircle(runs[task[t].run].job)
      BY <1>a, <2>1, <2>3 DEF CircleTasks, UpdateStatus
    <3>2. QED
      BY <1>a, <2>1, <2>3, <3>1, CircleUpdate
  <2>4. QED
    BY <1>6, <1>b, <1>f, <1>h, <2>2, <2>3 DEF TaskFinish
<1>7. ASSUME NEW t \in Tasks, TaskAwait(t) PROVE CircleInv'
  <2> DEFINE r == task[t].run
  <2>1. Live(t) /\ r \in RunIds
    BY <1>7, <1>c DEF TaskAwait, Live
  <2>2. CASE RunGone(r)
    BY <1>7, <1>b, <1>e, <1>f, <1>h, <2>2 DEF TaskAwait, RunGone
  <2>3. CASE ~RunGone(r)
    <3>1. /\ runs[r] # NoRun /\ runs'[r].job = runs[r].job
          /\ \A q \in RunIds \ {r} : runs'[q] = runs[q]
      BY <1>7, <1>b, <2>1, <2>3 DEF TaskAwait, WriteBack, Table
    <3>2. ~InCircle(runs[r].job)
      BY <1>a, <2>1, <3>1 DEF CircleTasks
    <3>3. CircleMoves
      BY <1>b, <3>1, <3>2 DEF CircleMoves
    <3>4. QED
      BY <1>7, <1>b, <1>f, <1>h, <3>3 DEF TaskAwait
  <2>4. QED
    BY <2>2, <2>3
<1>8. ASSUME NEW s \in Schedulers, ReleaseLoad(s) \/ SchedulerCrash(s) PROVE CircleInv'
  BY <1>8, <1>e, <1>f, <1>g DEF ReleaseLoad, SchedulerCrash
<1>9. ASSUME NEW s \in Schedulers, ReleaseCommit(s) PROVE CircleInv'
  <2>1. ASSUME NEW r \in RunIds, runs'[r] # NoRun
        PROVE  /\ runs[r] # NoRun /\ runs'[r].job = runs[r].job
               /\ runs'[r].status \in {"pending", runs[r].status}
    <3>1. CASE runs'[r] = runs[r]
      BY <2>1, <3>1
    <3>2. CASE /\ runs[r] # NoRun
               /\ runs'[r] = WriteBack(runs[r], batch[s][r], Release(batch[s][r]))
      <4>1. batch[s][r] # NoRun => batch[s][r] \in Row
        BY <1>a DEF QueueInv, TypeInv, TypeOK, Table
      <4>2. Release(batch[s][r]).status = "pending" \/ batch[s][r] = NoRun
        BY <4>1 DEF Release, Row
      <4>3. CASE batch[s][r] # NoRun
        BY <3>2, <4>2, <4>3 DEF WriteBack
      <4>4. CASE batch[s][r] = NoRun
        BY <1>9, <2>1, <3>2, <4>4 DEF ReleaseCommit, InBatch
      <4>5. QED
        BY <4>3, <4>4
    <3>3. QED
      BY <1>9, <2>1, <3>1, <3>2 DEF ReleaseCommit
  <2>2. CircleMoves
    BY <2>1 DEF CircleMoves
  <2>3. QED
    BY <1>9, <1>f, <1>g, <2>2 DEF ReleaseCommit
<1>10. ASSUME NEW c \in Clients PROVE FALSE
  BY <1>10 DEF NoRequests
<1>11. ASSUME NEW j \in Jobs, Trigger(j) PROVE CircleInv'
  <2>1. NewRun(j).status = "pending"
    BY DEF NewRun
  <2>2. CircleMoves
    BY <1>11, <1>b, <2>1 DEF Trigger, Table, CircleMoves
  <2>3. QED
    BY <1>11, <1>f, <1>g, <2>2 DEF Trigger
<1>12. ASSUME NEW j \in Jobs, SetEnabled(j) PROVE CircleInv'
  BY <1>12, <1>e, <1>f, <1>g DEF SetEnabled
<1>13. ASSUME ClearStart \/ ClearFails \/ \E r \in RunIds : ClearRow(r) PROVE CircleInv'
  BY <1>13, <1>e, <1>f, <1>g DEF ClearStart, ClearFails, ClearRow
<1>14. ASSUME ClearCommit PROVE CircleInv'
  <2>1. CircleMoves
    BY <1>14 DEF ClearCommit, CircleMoves
  <2>2. QED
    BY <1>14, <1>f, <1>g, <2>1 DEF ClearCommit
<1>15. ASSUME NEW p \in Pods, PodCrash(p) PROVE CircleInv'
  <2>1. \A u \in Consumers : task'[u] = task[u] \/ task'[u] = IdleTask
    BY <1>15 DEF PodCrash
  <2>2. CircleTasksStill
    BY <1>b, <2>1 DEF CircleTasksStill, Live
  <2>3. QED
    BY <1>15, <1>e, <1>f, <2>2 DEF PodCrash
<1>16. ASSUME Tick PROVE CircleInv'
  <2>1. \A r \in RunIds : runs'[r] = AgeRow(runs[r])
    BY <1>16 DEF Tick
  <2>2. CircleMoves
    BY <1>b, <2>1, AgedMoves DEF CircleMoves, Kept, SameIdentity, AgeRow
  <2>3. \A u \in Consumers :
            /\ task'[u].pc = task[u].pc /\ task'[u].run = task[u].run
            /\ task'[u].loaded = task[u].loaded /\ task'[u].todo = task[u].todo
    BY <1>16, <1>b DEF Tick, TaskState
  <2>4. CircleTasksStill
    BY <2>3 DEF CircleTasksStill, Live
  <2>5. QED
    BY <1>f, <2>2, <2>4
<1>17. ASSUME UNCHANGED vars PROVE CircleInv'
  BY <1>17, <1>e, <1>f, <1>g DEF vars
<1>18. QED
  BY <1>1, <1>2, <1>3, <1>4, <1>5, <1>6, <1>7, <1>8, <1>9, <1>10, <1>11, <1>12, <1>13,
     <1>14, <1>15, <1>16, <1>17
     DEF Next, DequeueStep, TaskStep, SchedulerStep, ClearStep

\* The runs of jobs that wait for each other in a circle stay in the queue for
\* ever, for every graph of dependencies, every number of schedulers and
\* workers and executions of any length, as long as no request reports on
\* single runs.
THEOREM CirclesStayBlocked ==
    ASSUME NoRequests
    PROVE  Spec => []CirclesWait
<1>1. Init => CircleInv
  <2> SUFFICES ASSUME Init PROVE CircleInv
    OBVIOUS
  <2>1. \A r \in RunIds : runs[r] = NoRun
    BY DEF Init, EmptyBatch
  <2>2. \A t \in Consumers : task[t].pc = "idle"
    BY DEF Init, IdleTask
  <2>3. QED
    BY <2>1, <2>2, QueueInit DEF CircleInv, CircleRows, CircleClaims, CircleTasks, Live,
                                 Consumers
<1>2. CircleInv /\ [Next]_vars => CircleInv'
  BY CircleStep
<1>3. CircleInv => CirclesWait
  BY DEF CircleInv, CircleRows, CirclesWait, InCircle
<1>4. QED
  BY <1>1, <1>2, <1>3, PTL DEF Spec

-----------------------------------------------------------------------------
(* The refinement.  What a step does to the phases and the holders of runs.  *)

\* The phase is a function of the status.
LEMMA Phases ==
    /\ Phase(NoRun) = "absent"
    /\ \A row \in Row :
           /\ row.status = "pending" => Phase(row) = "queued"
           /\ row.status = "running" => Phase(row) = "running"
           /\ row.status = "awaiting_result" => Phase(row) = "waiting"
           /\ row.status \in Finished => Phase(row) = "ended"
<1>1. NoRun \notin Row
  BY RunTableAssumption
<1>2. QED
  BY <1>1 DEF Phase, Finished

\* A row whose status stays keeps its phase.
LEMMA PhaseStill ==
    ASSUME NEW a, NEW b,
           \/ a = NoRun /\ b = NoRun
           \/ a # NoRun /\ b # NoRun /\ a.status = b.status
    PROVE  Phase(a) = Phase(b)
  BY DEF Phase

\* A run has one holder at most.
LEMMA HolderFacts ==
    ASSUME OneExecutorPerRun, NEW r
    PROVE  /\ \A t \in Holders(r) : Holder(r) = t
           /\ Holders(r) = {} => Holder(r) = NULL
<1>1. \A t, u \in Holders(r) : t = u
  BY DEF OneExecutorPerRun, Holders
<1>2. Holders(r) # {} => Holder(r) \in Holders(r)
  BY Zenon DEF Holder
<1>3. Holders(r) = {} => Holder(r) = NULL
  BY DEF Holder
<1>4. QED
  BY <1>1, <1>2, <1>3

\* The same after a step.
LEMMA HolderFactsNext ==
    ASSUME OneExecutorPerRun', NEW CONSTANT r
    PROVE  /\ \A t \in Holders(r)' : Holder(r)' = t
           /\ Holders(r)' = {} => Holder(r)' = NULL
<1>1. \A t, u \in Holders(r)' : t = u
  BY DEF OneExecutorPerRun, Holders
<1>2. Holders(r)' # {} => Holder(r)' \in Holders(r)'
  BY Zenon DEF Holder
<1>3. Holders(r)' = {} => Holder(r)' = NULL
  BY DEF Holder
<1>4. QED
  BY <1>1, <1>2, <1>3

\* Who holds a run stays who holds it while the holders stay.
LEMMA HolderStill ==
    ASSUME OneExecutorPerRun, OneExecutorPerRun', NEW CONSTANT r, Holders(r)' = Holders(r)
    PROVE  Holder(r)' = Holder(r)
<1>1. CASE Holders(r) = {}
  BY <1>1, HolderFacts, HolderFactsNext
<1>2. CASE Holders(r) # {}
  BY <1>2, HolderFacts, HolderFactsNext
<1>3. QED
  BY <1>1, <1>2

\* Initially nothing has been submitted.
LEMMA LifeStarts == Init => Life!Init
<1> SUFFICES ASSUME Init PROVE Life!Init
  OBVIOUS
<1>1. \A r \in RunIds : runs[r] = NoRun
  BY DEF Init, EmptyBatch
<1>2. \A r \in RunIds : Holder(r) = NULL
  BY <1>1 DEF Holder, Holders
<1>3. [r \in RunIds |-> Phase(runs[r])] = [r \in RunIds |-> "absent"]
  BY <1>1, Phases
<1>4. [r \in RunIds |-> Holder(r)] = [r \in RunIds |-> NULL]
  BY <1>2
<1>5. nextRun = 1
  BY DEF Init
<1>6. QED
  BY <1>3, <1>4, <1>5 DEF Life!Init

\* Every step of the queue is a step in the life of a run, or none.
LEMMA LifeRefines ==
    ASSUME SingleScheduler, BoundedExec, NoRequests, LifeInv, [Next]_vars
    PROVE  [Life!Next]_Life!lifeVars
<1> DEFINE phase == [r \in RunIds |-> Phase(runs[r])]
<1> DEFINE holder == [r \in RunIds |-> Holder(r)]
<1>a. LifeInv'
  BY LifeStep
<1>b. /\ QueueInv /\ OneExecutorPerRun /\ OneExecutorPerRun' /\ LiveRunning
      /\ BatchRows
  BY <1>a DEF LifeInv, ExclusiveInv
<1>c. /\ task \in [Consumers -> TaskState] /\ Tasks \subseteq Consumers
      /\ nextRun \in Nat /\ RunIds \subseteq Nat /\ runs \in Table
      /\ \A r \in RunIds : r >= nextRun => runs[r] = NoRun
      /\ \A r \in RunIds : runs[r] # NoRun => runs[r] \in Row
      /\ NULL \notin Tasks
      /\ \A r \in RunIds : runs'[r] # NoRun => runs'[r] \in Row
  BY <1>a, <1>b, LifeFacts, JobRunsAssumption
     DEF LifeInv, ExclusiveInv, QueueInv, TypeInv, TypeOK, Consumers, Table
<1>d. \A t \in Tasks : Live(t) => task[t].run \in RunIds /\ task[t].run < nextRun
  BY <1>b, <1>c DEF QueueInv, TypeInv, TaskShape, TaskSnapshots, Live
<1>e. IdleTask.pc = "idle"
  BY DEF IdleTask
\* a run that exists as before and is executed as before
<1> DEFINE Same(r) == /\ runs'[r] = NoRun <=> runs[r] = NoRun
                      /\ \A t \in Tasks : /\ Live(t)' /\ task'[t].run = r
                                          <=> Live(t) /\ task[t].run = r
<1>f. ASSUME NEW CONSTANT r \in RunIds, Same(r) PROVE Holder(r)' = Holder(r)
  <2>1. Holders(r)' = Holders(r)
    BY <1>f DEF Holders
  <2>2. QED
    BY <1>b, <2>1, HolderStill
<1>g. ASSUME \A r \in RunIds : Phase(runs'[r]) = Phase(runs[r]),
             \A r \in RunIds : Same(r), nextRun' = nextRun
      PROVE  UNCHANGED Life!lifeVars
  <2>1. \A r \in RunIds : Holder(r)' = Holder(r)
    BY <1>f, <1>g
  <2>2. phase' = phase /\ holder' = holder
    BY <1>g, <2>1
  <2>3. QED
    BY <1>g, <2>2 DEF Life!lifeVars
<1>h. ASSUME runs' = runs, nextRun' = nextRun,
             \A t \in Tasks : Live(t)' => Live(t) /\ task'[t].run = task[t].run,
             \A t \in Tasks : Live(t) => Live(t)'
      PROVE  UNCHANGED Life!lifeVars
  BY <1>g, <1>h
<1>1. ASSUME NEW t \in Consumers, DequeueSelect(t) \/ DequeueCheck(t) \/ DequeueNone(t)
      PROVE  UNCHANGED Life!lifeVars
  <2>1. /\ runs' = runs /\ nextRun' = nextRun
        /\ {task[t].pc, task'[t].pc} \subseteq {"idle", "selecting", "claimed"}
        /\ \A u \in Consumers \ {t} : task'[u] = task[u]
    BY <1>1, <1>c, <1>e
       DEF DequeueSelect, DequeueCheck, DequeueNone, ClaimedTask, SelectingTask
  <2>2. QED
    BY <1>c, <1>h, <2>1 DEF Live
<1>2. ASSUME NEW t \in Consumers, DequeueCommit(t) PROVE Life!Next
  <2> DEFINE w == IF t \in Tasks THEN t ELSE NULL
  <2>0. PICK r \in RunIds : r = task[t].run
    BY <1>2, DequeueMoves
  <2>1. /\ runs[r] # NoRun /\ runs[r].status = "pending"
        /\ runs'[r] # NoRun /\ runs'[r].status = "running"
        /\ \A q \in RunIds \ {r} : runs'[q] = runs[q]
    BY <1>2, <2>0, DequeueMoves
  <2>2. /\ task[t].pc = "claimed" /\ nextRun' = nextRun
        /\ task' = [task EXCEPT ![t] = IF t \in PullClients THEN IdleTask ELSE LockedTask(r)]
    BY <1>2, <2>0 DEF DequeueCommit
  <2>3. /\ \A u \in Consumers \ {t} : task'[u] = task[u]
        /\ ~Live(t) /\ (Live(t)' <=> t \notin PullClients)
        /\ Live(t)' => task'[t].run = r
    BY <1>c, <1>e, <2>2 DEF Live, LockedTask
  <2>4. \A u \in Tasks : Live(u) => task[u].run # r
    BY <1>b, <2>1 DEF LiveRunning
  <2>5. phase[r] = "queued" /\ phase' = [phase EXCEPT ![r] = "running"]
    BY <1>c, <2>1, Phases
  <2>6. Holder(r)' = w
    <3>1. Holders(r)' = IF t \in Tasks THEN {t} ELSE {}
      BY <1>c, <2>1, <2>3, <2>4, JobRunsAssumption DEF Holders, Live, Consumers
    <3>2. QED
      BY <1>b, <3>1, HolderFactsNext
  <2>7. \A q \in RunIds \ {r} : Holder(q)' = Holder(q)
    <3>1. \A q \in RunIds \ {r} : Same(q)
      BY <1>c, <2>1, <2>3 DEF Live
    <3>2. QED
      BY <1>f, <3>1
  <2>8. holder' = [holder EXCEPT ![r] = w]
    BY <2>1, <2>6, <2>7
  <2>9. Life!Take(r, w)
    BY <2>2, <2>5, <2>8 DEF Life!Take
  <2>10. QED
    BY <2>1, <2>9 DEF Life!Next
<1>3. ASSUME NEW t \in Tasks, TaskLoad(t) PROVE UNCHANGED Life!lifeVars
  <2>1. /\ runs' = runs /\ nextRun' = nextRun /\ Live(t)
        /\ \A u \in Consumers \ {t} : task'[u] = task[u]
        /\ \/ runs[task[t].run] = NoRun /\ ~Live(t)'
           \/ Live(t)' /\ task'[t].run = task[t].run
    BY <1>3, <1>c, <1>e DEF TaskLoad, Live, ExecutingTask
  <2>2. CASE Live(t)' /\ task'[t].run = task[t].run
    BY <1>c, <1>h, <2>1, <2>2 DEF Live
  <2>3. CASE runs[task[t].run] = NoRun /\ ~Live(t)'
    <3>1. ASSUME NEW CONSTANT r \in RunIds PROVE Holders(r)' = Holders(r)
      BY <1>c, <2>1, <2>3 DEF Holders, Live
    <3>2. \A r \in RunIds : Holder(r)' = Holder(r)
      BY <1>b, <3>1, HolderStill
    <3>3. phase' = phase /\ holder' = holder
      BY <2>1, <3>2
    <3>4. QED
      BY <2>1, <3>3 DEF Life!lifeVars
  <2>4. QED
    BY <2>1, <2>2, <2>3
\* the end of the execution of a run that has been deleted
<1>4. ASSUME NEW t \in Tasks, task[t].pc = "executing", RunGone(task[t].run),
             task' = [task EXCEPT ![t] = IdleTask]
      PROVE  UNCHANGED Life!lifeVars
  <2>1. runs' = runs /\ nextRun' = nextRun /\ runs[task[t].run] = NoRun
    BY <1>4 DEF RunGone
  <2>2. ASSUME NEW CONSTANT r \in RunIds PROVE Holders(r)' = Holders(r)
    BY <1>4, <1>c, <1>e, <2>1 DEF Holders, Live
  <2>3. \A r \in RunIds : Holder(r)' = Holder(r)
    BY <1>b, <2>2, HolderStill
  <2>4. phase' = phase /\ holder' = holder
    BY <2>1, <2>3
  <2>5. QED
    BY <2>1, <2>4 DEF Life!lifeVars
\* the holder of a run leaves it
<1>5. ASSUME NEW t \in Tasks, NEW CONSTANT r \in RunIds, r = task[t].run,
             task[t].pc = "executing", runs[r] # NoRun,
             task' = [task EXCEPT ![t] = IdleTask],
             runs'[r] # NoRun,
             \A q \in RunIds : q # r /\ q < nextRun => runs'[q] = runs[q]
      PROVE  /\ phase[r] = "running" /\ holder[r] # NULL
             /\ holder' = [holder EXCEPT ![r] = NULL]
  <2>1. Live(t) /\ t \in Consumers /\ r < nextRun
    BY <1>5, <1>c, <1>d DEF Live
  <2>2. phase[r] = "running"
    BY <1>5, <1>b, <1>c, <2>1, Phases DEF LiveRunning
  <2>3. t \in Holders(r)
    BY <1>5, <2>1 DEF Holders
  <2>4. holder[r] # NULL
    BY <1>b, <1>c, <2>3, HolderFacts
  <2>5. /\ ~Live(t)' /\ \A u \in Consumers \ {t} : task'[u] = task[u]
        /\ \A u \in Tasks \ {t} : Live(u) => task[u].run # r
    BY <1>5, <1>b, <1>c, <1>e, <2>1 DEF Live, OneExecutorPerRun
  <2>6. Holders(r)' = {}
    BY <1>c, <2>5 DEF Holders, Live
  <2>7. Holder(r)' = NULL
    BY <1>b, <2>6, HolderFactsNext
  <2>8. ASSUME NEW CONSTANT q \in RunIds \ {r} PROVE Holder(q)' = Holder(q)
    <3>1. CASE q < nextRun
      <4>1. Same(q)
        BY <1>5, <1>c, <2>1, <2>5, <3>1 DEF Live
      <4>2. QED
        BY <1>f, <4>1
    <3>2. CASE ~(q < nextRun)
      <4>1. \A u \in Tasks : Live(u) => task[u].run # q
        BY <1>c, <1>d, <3>2
      <4>2. Holders(q) = {} /\ Holders(q)' = {}
        BY <1>c, <2>5, <4>1 DEF Holders, Live
      <4>3. QED
        BY <1>b, <4>2, HolderStill
    <3>3. QED
      BY <3>1, <3>2
  <2>9. holder' = [holder EXCEPT ![r] = NULL]
    BY <2>7, <2>8
  <2>10. QED
    BY <2>2, <2>4, <2>9
<1>6. ASSUME NEW t \in Tasks, TaskFinish(t) PROVE Life!Next \/ UNCHANGED Life!lifeVars
  <2>1. task[t].pc = "executing" /\ task' = [task EXCEPT ![t] = IdleTask]
    BY <1>6 DEF TaskFinish
  <2>2. CASE RunGone(task[t].run)
    BY <1>4, <2>1, <2>2
  <2>3. ASSUME NEW status \in {"success", "failed", "timeout"},
               UpdateStatus(task[t].run, task[t].loaded, status)
        PROVE  Life!Next
    <3>1. runs[task[t].run] # NoRun
      BY <2>3 DEF UpdateStatus
    <3>2. PICK r \in RunIds : r = task[t].run
      BY <2>1, <3>1, LiveFacts
    <3> DEFINE loaded == task[t].loaded
    <3>3. /\ loaded \in Row /\ Snapshot(r, loaded) /\ runs[r].status = "running"
          /\ loaded.status = "running" /\ ~loaded.ended
      BY <2>1, <3>1, <3>2, LiveFacts
    <3>4. status \in Finished /\ "running" \notin Finished
      BY DEF Finished
    <3>5. /\ runs'[r] # NoRun /\ runs'[r].status = status
          /\ \A q \in RunIds : q # r /\ q < nextRun => runs'[q] = runs[q]
      <4>1. QueueInv /\ TableInv
        BY DEF LifeInv, ExclusiveInv
      <4>2. /\ runs'[r] # NoRun /\ runs'[r].status = status
            /\ \A q \in RunIds \ {r} : q < nextRun => runs'[q] = runs[q]
        BY <2>3, <3>2, <3>3, <3>4, <4>1, UpdateMoves
      <4>3. QED
        BY <4>2
    <3>6. /\ phase[r] = "running" /\ holder[r] # NULL
          /\ holder' = [holder EXCEPT ![r] = NULL]
      BY <1>5, <2>1, <3>1, <3>2, <3>5
    <3>7. Phase(runs'[r]) = "ended" /\ r < nextRun /\ r # nextRun
      BY <1>c, <3>3, <3>4, <3>5, Phases DEF Snapshot
    <3>8. CASE AutoRetry(loaded, status)
      <4>1. /\ nextRun \in RunIds /\ nextRun' = nextRun + 1
            /\ runs'[nextRun] = RetryRun(loaded, r)
            /\ \A q \in RunIds \ {r, nextRun} : runs'[q] = runs[q]
        <5>1. /\ nextRun <= MaxRuns /\ nextRun' = nextRun + 1
              /\ runs' = [runs EXCEPT ![task[t].run] =
                             WriteBack(@, task[t].loaded, Updated(task[t].loaded, status)),
                                     ![nextRun] = RetryRun(task[t].loaded, task[t].run)]
          BY <2>3, <3>8 DEF UpdateStatus
        <5>2. nextRun \in RunIds
          <6>1. nextRun \in 1..(MaxRuns + 1)
            BY <1>b DEF QueueInv, TypeInv, TypeOK
          <6>2. QED
            BY <5>1, <6>1, RunTableAssumption DEF RunIds
        <5>3. DOMAIN runs = RunIds
          BY <1>c DEF Table
        <5> HIDE DEF loaded
        <5>4. QED
          BY <3>2, <3>7, <5>1, <5>2, <5>3 DEF loaded
      <4>2. Phase(runs'[nextRun]) = "queued"
        BY <3>3, <4>1, InsertedType, InsertedRows, Phases
      <4>3. phase' = [phase EXCEPT ![r] = "ended", ![nextRun] = "queued"]
        BY <3>7, <4>1, <4>2
      <4>4. Life!End(r)
        BY <3>6, <4>1, <4>3 DEF Life!End
      <4>5. QED
        BY <4>4 DEF Life!Next
    <3>9. CASE ~AutoRetry(loaded, status)
      <4>1. nextRun' = nextRun /\ \A q \in RunIds \ {r} : runs'[q] = runs[q]
        BY <1>c, <2>3, <3>2, <3>9 DEF UpdateStatus, Table
      <4>2. phase' = [phase EXCEPT ![r] = "ended"]
        BY <3>7, <4>1
      <4>3. Life!End(r)
        BY <3>6, <4>1, <4>2 DEF Life!End
      <4>4. QED
        BY <4>3 DEF Life!Next
    <3>10. QED
      BY <3>8, <3>9
  <2>4. QED
    BY <1>6, <2>2, <2>3 DEF TaskFinish
<1>7. ASSUME NEW t \in Tasks, TaskAwait(t) PROVE Life!Next \/ UNCHANGED Life!lifeVars
  <2>1. task[t].pc = "executing" /\ task' = [task EXCEPT ![t] = IdleTask]
    BY <1>7 DEF TaskAwait
  <2>2. CASE RunGone(task[t].run)
    BY <1>4, <2>1, <2>2
  <2>3. CASE ~RunGone(task[t].run)
    <3> DEFINE loaded == task[t].loaded
    <3>1. /\ runs[task[t].run] # NoRun /\ nextRun' = nextRun
          /\ runs' = [runs EXCEPT ![task[t].run] =
                 WriteBack(runs[task[t].run], loaded,
                           [loaded EXCEPT !.status = "awaiting_result"])]
      BY <1>7, <2>3 DEF TaskAwait
    <3>2. PICK r \in RunIds : r = task[t].run
      BY <2>1, <3>1, LiveFacts
    <3>3. /\ loaded \in Row /\ runs[r] \in Row /\ RowInv(runs[r])
          /\ runs[r].status = "running" /\ loaded.status = "running"
      BY <2>1, <3>1, <3>2, LiveFacts
    <3> DEFINE new == WriteBack(runs[r], loaded, [loaded EXCEPT !.status = "awaiting_result"])
    <3>4. new.status = "awaiting_result"
      BY <3>3, MovedRows
    <3>5. new \in Row /\ new # NoRun
      BY <3>3, RowOperations, WriteBackType, RunTableAssumption
    <3>6. runs'[r] = new /\ \A q \in RunIds \ {r} : runs'[q] = runs[q]
      BY <1>c, <3>1, <3>2 DEF Table
    <3>7. /\ phase[r] = "running" /\ holder[r] # NULL
          /\ holder' = [holder EXCEPT ![r] = NULL]
      <4>1. runs[r] # NoRun
        BY <3>1, <3>2
      <4>2. runs'[r] # NoRun
        BY <3>5, <3>6
      <4>3. \A q \in RunIds : q # r /\ q < nextRun => runs'[q] = runs[q]
        BY <3>6
      <4>4. QED
        BY <1>5, <2>1, <3>2, <4>1, <4>2, <4>3
    <3>8. phase' = [phase EXCEPT ![r] = "waiting"]
      BY <3>4, <3>5, <3>6, Phases
    <3>9. Life!Await(r)
      BY <3>1, <3>7, <3>8 DEF Life!Await
    <3>10. QED
      BY <3>9 DEF Life!Next
  <2>4. QED
    BY <2>2, <2>3
<1>8. ASSUME NEW s \in Schedulers, ReleaseLoad(s) \/ SchedulerCrash(s)
      PROVE  UNCHANGED Life!lifeVars
  BY <1>8, <1>h DEF ReleaseLoad, SchedulerCrash, Live
<1>9. ASSUME NEW s \in Schedulers, ReleaseCommit(s)
      PROVE  Life!Next \/ UNCHANGED Life!lifeVars
  <2>1. task' = task /\ nextRun' = nextRun
    BY <1>9 DEF ReleaseCommit
  <2>2. CASE runs' = runs
    BY <1>h, <2>1, <2>2 DEF Live
  <2>3. CASE runs' # runs
    <3>1. PICK stale \in SUBSET RunIds : stale = InBatch(s)
      BY DEF InBatch
    <3>2. /\ \A q \in RunIds \ stale : runs'[q] = runs[q]
          /\ \A q \in stale : /\ runs[q] # NoRun /\ runs[q].status = "running"
                              /\ runs'[q] # NoRun /\ runs'[q].status = "pending"
      BY <1>9, <2>3, <3>1, ReleaseMoves
    <3>3. \A q \in stale : Holders(q) = {}
      BY <1>b, <3>1 DEF BatchRows, Holders
    <3>4. \A q \in stale : phase[q] = "running" /\ holder[q] = NULL
      BY <1>b, <1>c, <3>2, <3>3, HolderFacts, Phases
    <3>5. phase' = [r \in RunIds |-> IF r \in stale THEN "queued" ELSE phase[r]]
      BY <1>c, <3>2, Phases
    <3>6. \A r \in RunIds : Same(r)
      BY <2>1, <3>2 DEF Live
    <3>7. holder' = holder
      BY <1>f, <3>6
    <3>8. Life!Requeue(stale)
      BY <2>1, <3>4, <3>5, <3>7 DEF Life!Requeue
    <3>9. QED
      BY <3>8 DEF Life!Next
  <2>4. QED
    BY <2>2, <2>3
<1>10. ASSUME NEW j \in Jobs, Trigger(j) PROVE Life!Next
  <2>1. /\ nextRun \in RunIds /\ runs'[nextRun] = NewRun(j)
        /\ NewRun(j) \in Row /\ NewRun(j).status = "pending"
        /\ \A q \in RunIds \ {nextRun} : runs'[q] = runs[q]
        /\ nextRun' = nextRun + 1 /\ task' = task
    BY <1>10, TriggerMoves, InsertedType, InsertedRows DEF Trigger
  <2>2. phase' = [phase EXCEPT ![nextRun] = "queued"]
    BY <2>1, Phases
  <2>3. ASSUME NEW CONSTANT q \in RunIds PROVE Holder(q)' = Holder(q)
    <3>1. CASE q # nextRun
      <4>1. Same(q)
        BY <2>1, <3>1 DEF Live
      <4>2. QED
        BY <1>f, <4>1
    <3>2. CASE q = nextRun
      <4>1. \A u \in Tasks : Live(u) => task[u].run # q
        BY <1>c, <1>d, <3>2
      <4>2. Holders(q) = {} /\ Holders(q)' = {}
        BY <2>1, <4>1 DEF Holders, Live
      <4>3. QED
        BY <1>b, <4>2, HolderStill
    <3>3. QED
      BY <3>1, <3>2
  <2>4. holder' = holder
    BY <2>3
  <2>5. Life!Submit
    BY <2>1, <2>2, <2>4 DEF Life!Submit
  <2>6. QED
    BY <2>5 DEF Life!Next
<1>11. ASSUME NEW j \in Jobs, SetEnabled(j) PROVE UNCHANGED Life!lifeVars
  BY <1>11, <1>h DEF SetEnabled, Live
<1>12. ASSUME ClearStart \/ ClearFails \/ \E r \in RunIds : ClearRow(r)
       PROVE  UNCHANGED Life!lifeVars
  BY <1>12, <1>h DEF ClearStart, ClearFails, ClearRow, Live
<1>12a. ASSUME ClearCommit PROVE Life!Next
  <2>0. PICK k \in 1..nextRun : k = clear.below
    BY <1>12a, <1>b, <1>c DEF ClearCommit, QueueInv, TypeInv, TypeOK, ClearState, ClearBound
  <2>1. /\ \A r \in RunIds : runs'[r] = IF r < k THEN NoRun ELSE runs[r]
        /\ nextRun' = nextRun /\ task' = task
    BY <1>12a, <2>0 DEF ClearCommit
  <2>2. phase' = [r \in RunIds |-> IF r < k THEN "absent" ELSE phase[r]]
    BY <2>1, Phases
  <2>3. ASSUME NEW CONSTANT r \in RunIds
        PROVE  Holder(r)' = IF r < k THEN NULL ELSE Holder(r)
    <3>1. CASE r < k
      <4>1. Holders(r)' = {}
        BY <2>1, <3>1 DEF Holders
      <4>2. QED
        BY <1>b, <3>1, <4>1, HolderFactsNext
    <3>2. CASE ~(r < k)
      <4>1. Same(r)
        BY <2>1, <3>2 DEF Live
      <4>2. QED
        BY <1>f, <3>2, <4>1
    <3>3. QED
      BY <3>1, <3>2
  <2>4. holder' = [r \in RunIds |-> IF r < k THEN NULL ELSE holder[r]]
    BY <2>3
  <2>5. Life!Clear(k)
    BY <2>1, <2>2, <2>4 DEF Life!Clear
  <2>6. QED
    BY <2>0, <2>5 DEF Life!Next
<1>12b. ASSUME NEW CONSTANT t \in Consumers, TaskFails(t) PROVE Life!Next
  <2>1. /\ runs' = runs /\ nextRun' = nextRun
        /\ ~Live(t)' /\ \A u \in Consumers \ {t} : task'[u] = task[u]
    BY <1>12b, <1>c, <1>e DEF TaskFails, Live
  <2>2. PICK lost \in SUBSET RunIds : lost = {r \in RunIds : t \in Holders(r)}
    OBVIOUS
  <2>3. \A r \in lost : holder[r] # NULL
    BY <1>b, <1>c, <2>2, HolderFacts DEF Holders
  <2>4. ASSUME NEW CONSTANT r \in lost PROVE Holder(r)' = NULL
    <3>1. \A u \in Holders(r) : u = t
      BY <1>b, <2>2 DEF OneExecutorPerRun, Holders
    <3>2. Holders(r)' = {}
      BY <1>c, <2>1, <3>1 DEF Holders, Live
    <3>3. QED
      BY <1>b, <3>2, HolderFactsNext
  <2>5. ASSUME NEW CONSTANT r \in RunIds \ lost PROVE Holder(r)' = Holder(r)
    <3>1. Holders(r)' = Holders(r)
      BY <1>c, <2>1, <2>2 DEF Holders, Live
    <3>2. QED
      BY <1>b, <3>1, HolderStill
  <2>6. holder' = [r \in RunIds |-> IF r \in lost THEN NULL ELSE holder[r]]
    BY <2>4, <2>5
  <2>7. phase' = phase
    BY <2>1
  <2>8. Life!Lose(lost)
    BY <2>1, <2>3, <2>6, <2>7 DEF Life!Lose
  <2>9. QED
    BY <2>8 DEF Life!Next
<1>13. ASSUME NEW p \in Pods, PodCrash(p) PROVE Life!Next
  <2>1. /\ runs' = runs /\ nextRun' = nextRun
        /\ \A t \in Tasks : task'[t] = IF PodOf[t] = p THEN IdleTask ELSE task[t]
    BY <1>13, <1>c DEF PodCrash
  <2>2. PICK lost \in SUBSET RunIds :
            lost = {r \in RunIds : \E t \in Holders(r) : PodOf[t] = p}
    OBVIOUS
  <2>3. \A r \in lost : holder[r] # NULL
    BY <1>b, <1>c, <2>2, HolderFacts DEF Holders
  <2>4. ASSUME NEW CONSTANT r \in lost PROVE Holder(r)' = NULL
    <3>1. PICK t \in Holders(r) : PodOf[t] = p
      BY <2>2
    <3>2. \A u \in Holders(r) : u = t
      BY <1>b DEF OneExecutorPerRun, Holders
    <3>3. Holders(r)' = {}
      BY <1>e, <2>1, <3>1, <3>2 DEF Holders, Live
    <3>4. QED
      BY <1>b, <3>3, HolderFactsNext
  <2>5. ASSUME NEW CONSTANT r \in RunIds \ lost PROVE Holder(r)' = Holder(r)
    <3>1. Holders(r)' = Holders(r)
      BY <1>e, <2>1, <2>2 DEF Holders, Live
    <3>2. QED
      BY <1>b, <3>1, HolderStill
  <2>6. holder' = [r \in RunIds |-> IF r \in lost THEN NULL ELSE holder[r]]
    BY <2>4, <2>5
  <2>7. phase' = phase
    BY <2>1
  <2>8. Life!Lose(lost)
    BY <2>1, <2>3, <2>6, <2>7 DEF Life!Lose
  <2>9. QED
    BY <2>8 DEF Life!Next
<1>14. ASSUME Tick PROVE UNCHANGED Life!lifeVars
  <2>1. nextRun' = nextRun
    BY <1>14 DEF Tick
  <2>2. \A r \in RunIds : /\ runs'[r] = NoRun <=> runs[r] = NoRun
                          /\ Phase(runs'[r]) = Phase(runs[r])
    BY <1>14, TickMoves, PhaseStill
  <2>3. \A u \in Tasks : task'[u].pc = task[u].pc /\ task'[u].run = task[u].run
    BY <1>14, <1>c DEF Tick, TaskState
  <2>4. \A r \in RunIds : Same(r)
    BY <2>2, <2>3 DEF Live
  <2>5. QED
    BY <1>g, <2>1, <2>2, <2>4
<1>15. ASSUME UNCHANGED vars PROVE UNCHANGED Life!lifeVars
  BY <1>15, <1>h DEF vars, Live
<1>16. ASSUME NEW c \in Clients PROVE FALSE
  BY <1>16 DEF NoRequests
<1>17. QED
  BY <1>1, <1>2, <1>3, <1>6, <1>7, <1>8, <1>9, <1>10, <1>11, <1>12, <1>12a, <1>12b,
     <1>13, <1>14, <1>15, <1>16
     DEF Next, DequeueStep, TaskStep, SchedulerStep, ClearStep

\* The run queue with its leases, snapshots and column-wise commits implements
\* RunLife, for every number of jobs, runs, worker pods, tasks and HTTP
\* workers, with one scheduler replica, executions that end within their
\* lease and no request on single runs.
THEOREM QueueImplementsLife ==
    ASSUME SingleScheduler, BoundedExec, NoRequests
    PROVE  Spec => ImplementsRunLife
<1>1. LifeInv /\ [Next]_vars => [Life!Next]_Life!lifeVars
  BY LifeRefines
<1>2. QED
  BY <1>1, LifeStarts, LifeInvariant, PTL DEF Spec, ImplementsRunLife, Life!Spec
=============================================================================
