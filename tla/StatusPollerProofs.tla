------------------------- MODULE StatusPollerProofs -------------------------
(***************************************************************************)
(* The status poller beside the run queue.  It takes no lock, and what it   *)
(* writes back it has loaded long before; that is harmless as long as       *)
(* nobody else ends a run that waits.  The queue itself does not: it         *)
(* implements RunLife, where a run that waits only waits or is deleted.      *)
(* With one poller and no request on single runs, the rows the poller still  *)
(* has to ask about therefore wait, and what it has seen of them is right.   *)
(***************************************************************************)
EXTENDS StatusPoller, JobRunsLife

\* the poller finishes a run only with what it has loaded of it
PollShape ==
    \A p \in Pollers : poll[p].run # NULL => poll[p].seen[poll[p].run] # NoRun

PollTypeInv == TypeInv /\ poll \in [Pollers -> Poll] /\ PollShape

\* What one step of poller p does to the poller's state, by case.
LEMMA PollStates ==
    ASSUME PollTypeInv, NEW p \in Pollers
    PROVE  /\ poll[p].todo \in SUBSET RunIds /\ poll[p].seen \in Table
           /\ poll[p].run # NULL =>
                  poll[p].run \in RunIds /\ poll[p].seen[poll[p].run] \in Row
           /\ NULL \notin RunIds
<1>1. poll[p] \in Poll /\ PollShape
  BY DEF PollTypeInv
<1>2. NULL \notin RunIds
  BY RunTableAssumption DEF RunIds
<1>3. QED
  BY <1>1, <1>2 DEF Poll, PollShape, Table

\* A step that changes nothing but the state of one poller keeps the types.
LEMMA PollTypeAlone ==
    ASSUME PollTypeInv, NEW p \in Pollers, NEW new \in Poll, UNCHANGED vars,
           poll' = [poll EXCEPT ![p] = new],
           new.run # NULL => new.seen[new.run] # NoRun
    PROVE  PollTypeInv'
<1>1. TypeInv'
  BY TypeStep DEF PollTypeInv
<1>2. poll' \in [Pollers -> Poll]
  BY DEF PollTypeInv
<1>3. PollShape'
  BY DEF PollTypeInv, PollShape
<1>4. QED
  BY <1>1, <1>2, <1>3 DEF PollTypeInv

\* The states the poller moves to.
LEMMA PollTypes ==
    /\ EmptyBatch \in Table
    /\ IdlePoll \in Poll /\ IdlePoll.run = NULL /\ IdlePoll.todo = {}
    /\ \A todo \in SUBSET RunIds, r \in RunIds \cup {NULL}, seen \in Table :
           /\ Polling(todo, r, seen) \in Poll
           /\ Polling(todo, r, seen).run = r
           /\ Polling(todo, r, seen).seen = seen
           /\ Polling(todo, r, seen).todo = todo
<1>1. EmptyBatch \in Table
  BY DEF EmptyBatch, Table
<1>2. QED
  BY <1>1 DEF IdlePoll, Polling, Poll

\* So does a step of a poller that goes on with its pass.
LEMMA PollingAlone ==
    ASSUME PollTypeInv, NEW p \in Pollers, UNCHANGED vars,
           NEW todo \in SUBSET RunIds, NEW r \in RunIds \cup {NULL}, NEW seen \in Table,
           r # NULL => seen[r] # NoRun,
           poll' = [poll EXCEPT ![p] = Polling(todo, r, seen)]
    PROVE  PollTypeInv'
<1>1. /\ Polling(todo, r, seen) \in Poll
      /\ Polling(todo, r, seen).run = r /\ Polling(todo, r, seen).seen = seen
  BY PollTypes
<1>2. QED
  BY <1>1, PollTypeAlone

\* The commit of the poller keeps the types of the queue.
LEMMA PollCommitType ==
    ASSUME PollTypeInv, NEW r \in RunIds, NEW row \in Row, NEW status \in Finished,
           UpdateStatus(r, row, status),
           UNCHANGED <<enabled, task, batch, req, clear, crashes>>
    PROVE  TypeInv'
<1>1. TypeOK /\ TaskShape /\ HeldRowsExist /\ RequestShape
  BY DEF PollTypeInv, TypeInv
<1>2. runs' \in Table /\ nextRun' \in 1..(MaxRuns + 1) /\ RowsPersist
  BY <1>1, UpdateStatusType DEF TypeOK
<1>3. TypeOK'
  BY <1>1, <1>2 DEF TypeOK
<1>4. HeldRowsExist'
  BY <1>1, <1>2 DEF HeldRowsExist, RowsPersist, TypeOK, TaskState
<1>5. TaskShape' /\ RequestShape'
  BY <1>1 DEF TaskShape, RequestShape
<1>6. QED
  BY <1>3, <1>4, <1>5 DEF TypeInv

\* The crash of a poller keeps them too.
LEMMA PollCrashType ==
    ASSUME TypeInv, crashes < MaxCrashes, crashes' = crashes + 1,
           UNCHANGED <<runs, nextRun, enabled, task, batch, req, clear>>
    PROVE  TypeInv'
<1>1. TypeOK'
  BY JobRunsAssumption DEF TypeInv, TypeOK
<1>2. TaskShape' /\ HeldRowsExist' /\ RequestShape'
  BY DEF TypeInv, TaskShape, HeldRowsExist, RequestShape
<1>3. QED
  BY <1>1, <1>2 DEF TypeInv

\* Every step keeps the types.
LEMMA PollTypeStep == PollTypeInv /\ [PollerNext]_pollVars => PollTypeInv'
<1> SUFFICES ASSUME PollTypeInv, [PollerNext]_pollVars PROVE PollTypeInv'
  OBVIOUS
<1>a. TypeInv /\ poll \in [Pollers -> Poll] /\ PollShape
  BY DEF PollTypeInv
<1>1. ASSUME [Next]_vars, UNCHANGED poll PROVE PollTypeInv'
  BY <1>1, <1>a, TypeStep DEF PollTypeInv, PollShape
<1>2. ASSUME NEW p \in Pollers, PollLoad(p) PROVE PollTypeInv'
  <2> DEFINE seen == [r \in RunIds |-> IF r \in Awaiting THEN runs[r] ELSE NoRun]
  <2>1. Awaiting \in SUBSET RunIds /\ seen \in Table
    BY <1>a DEF Awaiting, TypeInv, TypeOK, Table
  <2>2. poll' = [poll EXCEPT ![p] = Polling(Awaiting, NULL, seen)] /\ UNCHANGED vars
    BY <1>2 DEF PollLoad
  <2> HIDE DEF seen
  <2>3. QED
    BY <2>1, <2>2, PollingAlone
<1>3. ASSUME NEW p \in Pollers, PollNext(p) PROVE PollTypeInv'
  <2>1. PICK r \in poll[p].todo :
            poll' = [poll EXCEPT ![p] =
                IF poll[p].seen[r] # NoRun THEN Polling(poll[p].todo \ {r}, r, poll[p].seen)
                ELSE IF runs[r] # NoRun
                     THEN Polling(poll[p].todo \ {r}, r, [poll[p].seen EXCEPT ![r] = runs[r]])
                     ELSE IdlePoll]
    BY <1>3 DEF PollNext
  <2>2. /\ UNCHANGED vars /\ r \in RunIds /\ poll[p].todo \ {r} \in SUBSET RunIds
        /\ poll[p].seen \in Table
    BY <1>3, PollStates DEF PollNext
  <2>3. CASE poll[p].seen[r] # NoRun
    BY <2>1, <2>2, <2>3, PollingAlone
  <2>4. CASE poll[p].seen[r] = NoRun /\ runs[r] # NoRun
    <3> DEFINE seen == [poll[p].seen EXCEPT ![r] = runs[r]]
    <3>1. seen \in Table /\ seen[r] # NoRun
      BY <1>a, <2>2, <2>4 DEF TypeInv, TypeOK, Table
    <3>2. poll' = [poll EXCEPT ![p] = Polling(poll[p].todo \ {r}, r, seen)]
      BY <2>1, <2>4
    <3> HIDE DEF seen
    <3>3. QED
      BY <2>2, <3>1, <3>2, PollingAlone
  <2>5. CASE poll[p].seen[r] = NoRun /\ runs[r] = NoRun
    BY <2>1, <2>2, <2>5, PollTypes, PollTypeAlone
  <2>6. QED
    BY <2>3, <2>4, <2>5
<1>4. ASSUME NEW p \in Pollers, PollNoResult(p) PROVE PollTypeInv'
  <2>1. /\ poll' = [poll EXCEPT ![p] = Polling(poll[p].todo, NULL, poll[p].seen)]
        /\ UNCHANGED vars
    BY <1>4 DEF PollNoResult
  <2>2. QED
    BY <2>1, PollStates, PollingAlone
<1>5. ASSUME NEW p \in Pollers, PollFinish(p) PROVE PollTypeInv'
  <2>1. /\ poll[p].run \in RunIds /\ poll[p].seen[poll[p].run] \in Row
        /\ UNCHANGED <<enabled, task, batch, req, clear, crashes>>
    BY <1>5, PollStates DEF PollFinish
  <2>2. CASE RunGone(poll[p].run)
             /\ poll' = [poll EXCEPT ![p] = Polling(poll[p].todo, NULL, poll[p].seen)]
    <3>1. UNCHANGED vars
      BY <2>1, <2>2 DEF RunGone, vars
    <3>2. QED
      BY <2>2, <3>1, PollStates, PollingAlone
  <2>3. ASSUME NEW status \in {"success", "failed"},
               UpdateStatus(poll[p].run, poll[p].seen[poll[p].run], status),
               poll' = [poll EXCEPT ![p] = Polling(poll[p].todo, NULL, EmptyBatch)]
        PROVE  PollTypeInv'
    <3>1. TypeInv'
      BY <2>1, <2>3, PollCommitType DEF Finished
    <3>2. /\ Polling(poll[p].todo, NULL, EmptyBatch) \in Poll
          /\ Polling(poll[p].todo, NULL, EmptyBatch).run = NULL
      BY PollStates, PollTypes
    <3>3. QED
      BY <1>a, <2>3, <3>1, <3>2 DEF PollTypeInv, PollShape
  <2>4. QED
    BY <1>5, <2>2, <2>3 DEF PollFinish
<1>6. ASSUME NEW p \in Pollers, PollDone(p) PROVE PollTypeInv'
  <2>1. poll' = [poll EXCEPT ![p] = IdlePoll] /\ UNCHANGED vars
    BY <1>6 DEF PollDone
  <2>2. QED
    BY <2>1, PollTypes, PollTypeAlone
<1>7. ASSUME NEW p \in Pollers, PollerCrash(p) PROVE PollTypeInv'
  <2>1. TypeInv'
    BY <1>7, <1>a, PollCrashType DEF PollerCrash
  <2>2. poll' = [poll EXCEPT ![p] = IdlePoll] /\ IdlePoll \in Poll /\ IdlePoll.run = NULL
    BY <1>7, PollTypes DEF PollerCrash
  <2>3. QED
    BY <1>a, <2>1, <2>2 DEF PollTypeInv, PollShape
<1>8. QED
  BY <1>1, <1>2, <1>3, <1>4, <1>5, <1>6, <1>7 DEF PollerNext, PollStep, pollVars

\* The types hold at the start.
LEMMA PollTypeInit == PollInit => PollTypeInv
  BY TypeInit, PollTypes DEF PollInit, PollTypeInv, PollShape

\* Whatever the number of pollers, schedulers and requests, the poller and the
\* queue stay within their types: a retry the poller inserts is a well-formed
\* row, built from a row it has loaded.
THEOREM PollerTypes == PollerSpec => []PollTypeOK
<1>1. PollTypeInv => PollTypeOK
  BY DEF PollTypeInv, TypeInv, PollTypeOK
<1>2. QED
  BY <1>1, PollTypeInit, PollTypeStep, PTL DEF PollerSpec

-----------------------------------------------------------------------------
(* One poller, one scheduler, executions within their lease, no requests on  *)
(* single runs.                                                             *)

SinglePoller == \A p, q \in Pollers : p = q

\* the runs a poller still has to ask about, or is asking about
OnHand(st) == st.todo \cup ({st.run} \ {NULL})

RightPoll(st) ==
    /\ st.run \notin st.todo
    /\ \A r \in OnHand(st) :
           /\ r < nextRun
           /\ runs[r] # NoRun => runs[r].status = "awaiting_result"
           /\ st.seen[r] # NoRun =>
                  /\ st.seen[r].status = "awaiting_result" /\ ~st.seen[r].ended
                  /\ Snapshot(r, st.seen[r])

PollRows == \A p \in Pollers : RightPoll(poll[p])

PollInv == PollTypeInv /\ LifeInv /\ PollRows

\* A step of the queue leaves a run that waits waiting, or deletes it: so it is
\* in the life of a run, which the queue implements.
LEMMA WaitingStays ==
    ASSUME SingleScheduler, BoundedExec, NoRequests, LifeInv, [Next]_vars,
           NEW r \in RunIds, runs[r] # NoRun, runs[r].status = "awaiting_result",
           runs'[r] # NoRun
    PROVE  runs'[r].status = "awaiting_result"
<1> DEFINE phase == [q \in RunIds |-> Phase(runs[q])]
<1>1. /\ runs[r] \in Row /\ r < nextRun /\ r # nextRun
      /\ runs'[r] \in Row
  <2>1. LifeInv' /\ QueueInv
    BY LifeStep DEF LifeInv, ExclusiveInv
  <2>2. runs[r] \in Row /\ r < nextRun /\ nextRun \in Nat /\ r \in Nat
    BY <2>1, LifeFacts
  <2>3. runs' \in Table
    BY <2>1 DEF LifeInv, ExclusiveInv, QueueInv, TypeInv, TypeOK
  <2>4. QED
    BY <2>2, <2>3 DEF Table
<1>2. phase[r] = "waiting"
  BY <1>1, Phases
<1>3. phase'[r] \in {"waiting", "absent"}
  <2>1. [Life!Next]_Life!lifeVars
    BY LifeRefines
  <2>2. CASE UNCHANGED Life!lifeVars
    BY <1>2, <2>2 DEF Life!lifeVars
  <2>3. CASE Life!Submit
    BY <1>1, <1>2, <2>3 DEF Life!Submit
  <2>4. CASE \E q \in RunIds : Life!End(q)
    BY <1>1, <1>2, <2>4 DEF Life!End
  <2>5. CASE \E q \in RunIds : Life!Await(q)
    BY <1>1, <1>2, <2>5 DEF Life!Await
  <2>6. CASE \E q \in RunIds : \E w \in Tasks \cup {NULL} : Life!Take(q, w)
    BY <1>1, <1>2, <2>6 DEF Life!Take
  <2>7. CASE \E S \in SUBSET RunIds : Life!Lose(S)
    BY <1>2, <2>7 DEF Life!Lose
  <2>8. CASE \E S \in SUBSET RunIds : Life!Requeue(S)
    BY <1>2, <2>8 DEF Life!Requeue
  <2>9. CASE \E k \in 1..nextRun : Life!Clear(k)
    BY <1>2, <2>9 DEF Life!Clear
  <2>10. QED
    BY <2>1, <2>2, <2>3, <2>4, <2>5, <2>6, <2>7, <2>8, <2>9 DEF Life!Next
<1>4. Phase(runs'[r]) \in {"waiting", "absent"}
  BY <1>3
<1>5. runs'[r].status \in Status
  BY <1>1 DEF Row
<1>6. QED
  BY <1>1, <1>4, <1>5, Phases DEF Status

\* What keeps the queue's invariant when somebody outside it writes the table:
\* the rows of live tasks, and those a scheduler has loaded, stay as they are.
LEMMA OutsideStep ==
    ASSUME LifeInv, TypeInv', RowsEvolve, HeldKept, Calm, TableMoves,
           UNCHANGED <<enabled, task, batch, req, clear>>,
           \A t \in Tasks : Live(t) => StillRow(task[t].run),
           \A s \in Schedulers : \A r \in InBatch(s) : StillRow(r)
    PROVE  LifeInv'
<1>a. ExclusiveInv /\ QueueInv /\ TableInv
  BY DEF LifeInv, ExclusiveInv
<1>1. QueueInv'
  <2>1. FreshIds' /\ LeaseColumnsAgree' /\ RetryBound'
    BY <1>a, RowsEvolveKeeps
  <2>2. ClaimedRows' /\ LocksDisjoint' /\ TaskSnapshots'
    BY <1>a, TasksIdle
  <2>3. RequestSnapshots' /\ BatchSnapshots' /\ ClearBound'
    BY <1>a, SnapshotsKept
  <2>4. QED
    BY <2>1, <2>2, <2>3 DEF QueueInv
<1>2. LiveRows' /\ BatchRows' /\ OneExecutorPerRun'
  <2>1. NoNewLive /\ \A s \in Schedulers : InBatch(s)' \subseteq InBatch(s)
    BY DEF NoNewLive, Live, InBatch
  <2>2. QED
    BY <1>a, <2>1, CalmKeeps
<1>3. TableInv'
  BY <1>a, <1>1, MovesKeep
<1>4. TasksStill /\ BatchStill /\ ClaimsStill
  BY DEF TasksStill, BatchStill, ClaimsStill, StillRow, Live, InBatch
<1>5. LiveRunning' /\ BatchRunning' /\ ClaimedUpstream'
  BY <1>4, StillKeeps
<1>6. QED
  BY <1>1, <1>2, <1>3, <1>5 DEF LifeInv, ExclusiveInv

\* What the poller has on hand stays right while nobody ends it.
LEMMA PollRowsKept ==
    ASSUME PollInv, TypeInv', nextRun' >= nextRun,
           \A r \in RunIds : r < nextRun /\ runs'[r] # NoRun =>
               /\ runs[r] # NoRun /\ SameIdentity(runs[r], runs'[r])
               /\ runs[r].status = "awaiting_result" => runs'[r].status = "awaiting_result",
           UNCHANGED poll
    PROVE  PollRows'
<1> SUFFICES ASSUME NEW p \in Pollers
             PROVE  /\ poll[p].run \notin poll[p].todo
                    /\ \A r \in OnHand(poll[p]) :
                          /\ r < nextRun'
                          /\ runs'[r] # NoRun => runs'[r].status = "awaiting_result"
                          /\ poll[p].seen[r] # NoRun =>
                                 /\ poll[p].seen[r].status = "awaiting_result"
                                 /\ ~poll[p].seen[r].ended
                                 /\ SnapshotNext(r, poll[p].seen[r])
  BY DEF PollRows, RightPoll, OnHand, Snapshot, SnapshotNext
<1>a. PollTypeInv /\ PollRows /\ QueueInv
  BY DEF PollInv, LifeInv, ExclusiveInv
<1>1. poll[p].run \notin poll[p].todo
  BY <1>a DEF PollRows, RightPoll
<1>2. ASSUME NEW r \in OnHand(poll[p])
      PROVE  /\ r < nextRun'
             /\ runs'[r] # NoRun => runs'[r].status = "awaiting_result"
             /\ poll[p].seen[r] # NoRun =>
                    /\ poll[p].seen[r].status = "awaiting_result" /\ ~poll[p].seen[r].ended
                    /\ SnapshotNext(r, poll[p].seen[r])
  <2>1. r \in RunIds
    BY <1>a, PollStates DEF OnHand
  <2>2. /\ r < nextRun
        /\ runs[r] # NoRun => runs[r].status = "awaiting_result"
        /\ poll[p].seen[r] # NoRun =>
               /\ poll[p].seen[r].status = "awaiting_result" /\ ~poll[p].seen[r].ended
               /\ Snapshot(r, poll[p].seen[r])
    BY <1>a DEF PollRows, RightPoll
  <2>3. nextRun \in Nat /\ nextRun' \in Nat /\ r \in Nat
    BY <1>a, <2>1, LifeFacts DEF TypeInv, TypeOK
  <2>4. r < nextRun'
    BY <2>2, <2>3
  <2>5. poll[p].seen[r] # NoRun => SnapshotNext(r, poll[p].seen[r])
    BY <2>1, <2>2, <2>4 DEF Snapshot, SnapshotNext, SameIdentity
  <2>6. QED
    BY <2>1, <2>2, <2>4, <2>5
<1>3. QED
  BY <1>1, <1>2

\* A step of the queue keeps what the poller has on hand, and the queue's
\* invariant.
LEMMA PollQueueStep ==
    ASSUME SingleScheduler, BoundedExec, NoRequests, PollInv, [Next]_vars, UNCHANGED poll
    PROVE  PollInv'
<1>a. LifeInv /\ QueueInv
  BY DEF PollInv, LifeInv, ExclusiveInv
<1>1. LifeInv' /\ (TableMoves \/ \A r \in RunIds : runs'[r] \in {NoRun, runs[r]})
  BY <1>a, LifeStep
<1>2. TypeInv'
  BY <1>1 DEF LifeInv, ExclusiveInv, QueueInv
<1>3. nextRun' >= nextRun
  <2>1. nextRun \in Nat
    BY <1>a, LifeFacts
  <2>2. [Life!Next]_Life!lifeVars
    BY <1>a, LifeRefines
  <2>3. nextRun' = nextRun \/ nextRun' = nextRun + 1
    BY <2>2 DEF Life!Next, Life!lifeVars, Life!Submit, Life!End, Life!Await, Life!Take,
                Life!Lose, Life!Requeue, Life!Clear
  <2>4. QED
    BY <2>1, <2>3
<1>4. ASSUME NEW r \in RunIds, r < nextRun, runs'[r] # NoRun
      PROVE  /\ runs[r] # NoRun /\ SameIdentity(runs[r], runs'[r])
             /\ runs[r].status = "awaiting_result" => runs'[r].status = "awaiting_result"
  <2>1. r # nextRun
    BY <1>4, <1>a, LifeFacts
  <2>2. runs'[r] = runs[r] \/ Moved(r)
    BY <1>1, <1>4, <2>1 DEF TableMoves, Submitted
  <2>3. runs[r] # NoRun /\ SameIdentity(runs[r], runs'[r])
    BY <1>4, <2>2 DEF Moved, SameIdentity
  <2>4. QED
    BY <1>4, <1>a, <2>3, WaitingStays
<1>5. PollRows'
  BY <1>2, <1>3, <1>4, PollRowsKept
<1>6. PollTypeInv'
  BY <1>2 DEF PollInv, PollTypeInv, PollShape
<1>7. QED
  BY <1>1, <1>5, <1>6 DEF PollInv

\* The poller ends the run it has asked about, and only that one.
LEMMA PollCommits ==
    ASSUME SinglePoller, PollInv, NEW p \in Pollers, poll[p].run # NULL,
           NEW status \in {"success", "failed"},
           UpdateStatus(poll[p].run, poll[p].seen[poll[p].run], status),
           UNCHANGED <<enabled, task, batch, req, clear, crashes>>
    PROVE  /\ LifeInv' /\ TableMoves /\ runs'[poll[p].run].status = status
           /\ \A q \in RunIds : q # poll[p].run /\ q < nextRun => runs'[q] = runs[q]
           /\ nextRun' >= nextRun
<1>a. PollTypeInv /\ LifeInv /\ QueueInv /\ TableInv /\ PollRows
  BY DEF PollInv, LifeInv, ExclusiveInv
<1>1. PICK r \in RunIds : r = poll[p].run
  BY <1>a, PollStates
<1>2. PICK row \in Row : row = poll[p].seen[poll[p].run]
  BY <1>a, PollStates
<1>3. UpdateStatus(r, row, status) /\ runs[r] # NoRun
  BY <1>1, <1>2 DEF UpdateStatus
<1>4. r \in OnHand(poll[p]) /\ row # NoRun
  BY <1>1, <1>2, RunTableAssumption DEF OnHand
<1>5. /\ runs[r].status = "awaiting_result" /\ Snapshot(r, row)
      /\ row.status = "awaiting_result" /\ ~row.ended
  BY <1>a, <1>1, <1>2, <1>3, <1>4 DEF PollRows, RightPoll
<1>6. status \in Finished /\ "awaiting_result" \notin Finished
  BY DEF Finished
<1>7. /\ TableMoves /\ runs'[r] # NoRun /\ runs'[r].status = status
      /\ \A q \in RunIds \ {r} : q < nextRun => runs'[q] = runs[q]
  BY <1>a, <1>3, <1>5, <1>6, UpdateMoves
<1>8. TypeInv'
  BY <1>a, <1>3, <1>6, PollCommitType
<1>9. RowsEvolve /\ HeldKept
  BY <1>a, <1>3, <1>5, <1>6, UpdateStatusEvolves
<1>10. Calm
  BY <1>a, <1>3, <1>6, CalmUpdate, LifeFacts
<1>11. \A t \in Tasks : Live(t) => StillRow(task[t].run)
  <2> SUFFICES ASSUME NEW t \in Tasks, Live(t), runs'[task[t].run] # NoRun
               PROVE  runs'[task[t].run] = runs[task[t].run]
    BY DEF StillRow
  <2>1. task[t].run \in RunIds /\ task[t].run < nextRun
    BY <1>a DEF QueueInv, TypeInv, TaskShape, TaskSnapshots, Live, Consumers
  <2>2. task[t].run # r
    BY <1>a, <1>3, <1>5 DEF LifeInv, LiveRunning
  <2>3. QED
    BY <1>7, <2>1, <2>2
<1>12. \A s \in Schedulers : \A q \in InBatch(s) : StillRow(q)
  <2> SUFFICES ASSUME NEW s \in Schedulers, NEW q \in InBatch(s), runs'[q] # NoRun
               PROVE  runs'[q] = runs[q]
    BY DEF StillRow
  <2>1. q \in RunIds /\ q < nextRun
    BY <1>a DEF QueueInv, BatchSnapshots, InBatch
  <2>2. q # r
    BY <1>a, <1>3, <1>5 DEF LifeInv, BatchRunning
  <2>3. QED
    BY <1>7, <2>1, <2>2
<1>13. LifeInv'
  BY <1>a, <1>7, <1>8, <1>9, <1>10, <1>11, <1>12, OutsideStep
<1>14. QED
  BY <1>1, <1>7, <1>9, <1>13 DEF RowsEvolve

\* A step of the poller that leaves the queue alone.
LEMMA PollerAlone ==
    ASSUME SinglePoller, PollInv, PollTypeInv', UNCHANGED vars, NEW p \in Pollers,
           NEW new, poll' = [poll EXCEPT ![p] = new], RightPoll(new)
    PROVE  PollInv'
<1>1. \A q \in Pollers : poll'[q] = new
  BY DEF SinglePoller, PollInv, PollTypeInv
<1>2. RightPoll(new)'
  BY DEF RightPoll, Snapshot, vars
<1>3. PollRows'
  BY <1>1, <1>2 DEF PollRows
<1>4. LifeInv'
  <2>1. LifeInv /\ QueueInv /\ TypeInv' /\ UNCHANGED <<runs, nextRun>>
    BY DEF PollInv, PollTypeInv, LifeInv, ExclusiveInv, vars
  <2>2. RowsEvolve /\ HeldKept /\ Calm /\ TableMoves
    BY <2>1, TableAlone, CalmTable, MovesAlone
  <2>3. QED
    BY <2>1, <2>2, OutsideStep DEF StillRow, vars
<1>5. QED
  BY <1>3, <1>4 DEF PollInv

\* States the poller moves to are right, if the state it moves from is.
LEMMA RightPolls ==
    ASSUME PollInv, NEW p \in Pollers
    PROVE  /\ RightPoll(IdlePoll)
           /\ RightPoll(Polling(poll[p].todo, NULL, poll[p].seen))
           /\ \A r \in poll[p].todo : poll[p].run = NULL =>
                  /\ poll[p].seen[r] # NoRun =>
                         RightPoll(Polling(poll[p].todo \ {r}, r, poll[p].seen))
                  /\ runs[r] # NoRun =>
                         RightPoll(Polling(poll[p].todo \ {r}, r,
                                           [poll[p].seen EXCEPT ![r] = runs[r]]))
<1>a. PollTypeInv /\ QueueInv /\ TableInv /\ RightPoll(poll[p])
  BY DEF PollInv, PollRows, LifeInv, ExclusiveInv
<1>b. poll[p].todo \in SUBSET RunIds /\ poll[p].seen \in Table /\ NULL \notin RunIds
  BY <1>a, PollStates
<1>c. \A r \in poll[p].todo : r \in OnHand(poll[p])
  BY DEF OnHand
<1>1. RightPoll(IdlePoll)
  <2>1. IdlePoll.run = NULL /\ IdlePoll.todo = {}
    BY PollTypes
  <2>2. QED
    BY <2>1 DEF RightPoll, OnHand
<1>2. RightPoll(Polling(poll[p].todo, NULL, poll[p].seen))
  <2> DEFINE new == Polling(poll[p].todo, NULL, poll[p].seen)
  <2>1. new.run = NULL /\ new.todo = poll[p].todo /\ new.seen = poll[p].seen
    BY <1>b, PollTypes
  <2>2. \A r \in OnHand(new) : r \in OnHand(poll[p])
    BY <2>1 DEF OnHand
  <2> HIDE DEF new
  <2>3. QED
    BY <1>a, <1>b, <2>1, <2>2 DEF RightPoll, new
<1>3. ASSUME NEW r \in poll[p].todo, poll[p].seen[r] # NoRun
      PROVE  RightPoll(Polling(poll[p].todo \ {r}, r, poll[p].seen))
  <2> DEFINE new == Polling(poll[p].todo \ {r}, r, poll[p].seen)
  <2>1. new.run = r /\ new.todo = poll[p].todo \ {r} /\ new.seen = poll[p].seen
    BY <1>b, PollTypes
  <2>2. \A q \in OnHand(new) : q \in OnHand(poll[p])
    BY <1>c, <2>1 DEF OnHand
  <2> HIDE DEF new
  <2>3. QED
    BY <1>a, <2>1, <2>2 DEF RightPoll, new
<1>4. ASSUME NEW r \in poll[p].todo, runs[r] # NoRun
      PROVE  RightPoll(Polling(poll[p].todo \ {r}, r, [poll[p].seen EXCEPT ![r] = runs[r]]))
  <2> DEFINE seen == [poll[p].seen EXCEPT ![r] = runs[r]]
  <2> DEFINE new == Polling(poll[p].todo \ {r}, r, seen)
  <2>1. r \in RunIds /\ runs[r] \in Row /\ r < nextRun
    BY <1>a, <1>b, <1>4, LifeFacts
  <2>2. seen \in Table /\ seen[r] = runs[r] /\ \A q \in RunIds \ {r} : seen[q] = poll[p].seen[q]
    BY <1>b, <2>1 DEF Table
  <2>3. new.run = r /\ new.todo = poll[p].todo \ {r} /\ new.seen = seen
    BY <1>b, <2>1, <2>2, PollTypes
  <2>4. \A q \in OnHand(new) : q \in OnHand(poll[p]) /\ q \in RunIds
    <3>1. \A q \in OnHand(new) : q \in poll[p].todo
      BY <2>3 DEF OnHand
    <3>2. QED
      BY <1>b, <1>c, <3>1
  <2>5. runs[r].status = "awaiting_result"
    BY <1>4, <1>a, <1>c DEF RightPoll
  <2>6. ~runs[r].ended
    BY <1>4, <1>a, <2>1, <2>5 DEF TableInv, EndedWhenFinished, Finished
  <2>7. Snapshot(r, runs[r])
    BY <1>4, <1>a, <2>1 DEF Snapshot, QueueInv, LeaseColumnsAgree, Agree
  <2> HIDE DEF new, seen
  <2>8. \A q \in OnHand(new) :
            /\ q < nextRun
            /\ runs[q] # NoRun => runs[q].status = "awaiting_result"
            /\ seen[q] # NoRun => /\ seen[q].status = "awaiting_result" /\ ~seen[q].ended
                                  /\ Snapshot(q, seen[q])
    <3> SUFFICES ASSUME NEW q \in OnHand(new)
                 PROVE  /\ q < nextRun
                        /\ runs[q] # NoRun => runs[q].status = "awaiting_result"
                        /\ seen[q] # NoRun =>
                               /\ seen[q].status = "awaiting_result" /\ ~seen[q].ended
                               /\ Snapshot(q, seen[q])
      OBVIOUS
    <3>1. CASE q = r
      BY <2>1, <2>2, <2>5, <2>6, <2>7, <3>1
    <3>2. CASE q # r
      BY <1>a, <2>2, <2>4, <3>2 DEF RightPoll
    <3>3. QED
      BY <3>1, <3>2
  <2>9. RightPoll(new)
    BY <2>3, <2>8 DEF RightPoll
  <2>10. QED
    BY <2>9 DEF new, seen
<1>5. QED
  BY <1>1, <1>2, <1>3, <1>4

\* Every step keeps the invariant.
LEMMA PollInvStep ==
    ASSUME SingleScheduler, BoundedExec, NoRequests, SinglePoller, PollInv,
           [PollerNext]_pollVars
    PROVE  PollInv'
<1>a. PollTypeInv /\ LifeInv /\ PollRows /\ QueueInv
  BY DEF PollInv, LifeInv, ExclusiveInv
<1>b. PollTypeInv'
  BY <1>a, PollTypeStep
<1>1. ASSUME [Next]_vars, UNCHANGED poll PROVE PollInv'
  BY <1>1, PollQueueStep
<1>2. ASSUME NEW p \in Pollers, PollLoad(p) PROVE PollInv'
  <2> DEFINE seen == [r \in RunIds |-> IF r \in Awaiting THEN runs[r] ELSE NoRun]
  <2> DEFINE new == Polling(Awaiting, NULL, seen)
  <2>1. Awaiting \in SUBSET RunIds /\ NULL \notin RunIds
    BY <1>a, PollStates DEF Awaiting
  <2>2. seen \in Table
    BY <1>a DEF PollTypeInv, TypeInv, TypeOK, Table
  <2>3. new.run = NULL /\ new.todo = Awaiting /\ new.seen = seen
    BY <2>1, <2>2, PollTypes
  <2>4. ASSUME NEW r \in Awaiting
        PROVE  /\ r \in RunIds /\ r < nextRun
               /\ runs[r] # NoRun /\ runs[r].status = "awaiting_result"
               /\ seen[r] = runs[r] /\ ~runs[r].ended /\ Snapshot(r, runs[r])
    <3>1. /\ r \in RunIds /\ runs[r] # NoRun /\ runs[r].status = "awaiting_result"
          /\ seen[r] = runs[r]
      BY DEF Awaiting
    <3>2. r < nextRun /\ runs[r] \in Row
      BY <1>a, <3>1, LifeFacts
    <3>3. ~runs[r].ended
      BY <1>a, <3>1 DEF LifeInv, TableInv, EndedWhenFinished, Finished
    <3>4. Snapshot(r, runs[r])
      BY <1>a, <3>1, <3>2 DEF Snapshot, QueueInv, LeaseColumnsAgree, Agree
    <3>5. QED
      BY <3>1, <3>2, <3>3, <3>4
  <2>5. poll' = [poll EXCEPT ![p] = new] /\ UNCHANGED vars
    BY <1>2 DEF PollLoad
  <2> HIDE DEF new, seen
  <2>6. RightPoll(new)
    BY <2>1, <2>3, <2>4 DEF RightPoll, OnHand
  <2>7. QED
    BY <1>b, <2>5, <2>6, PollerAlone
<1>3. ASSUME NEW p \in Pollers, PollNext(p) PROVE PollInv'
  <2>1. PICK r \in poll[p].todo :
            poll' = [poll EXCEPT ![p] =
                IF poll[p].seen[r] # NoRun THEN Polling(poll[p].todo \ {r}, r, poll[p].seen)
                ELSE IF runs[r] # NoRun
                     THEN Polling(poll[p].todo \ {r}, r, [poll[p].seen EXCEPT ![r] = runs[r]])
                     ELSE IdlePoll]
    BY <1>3 DEF PollNext
  <2>2. poll[p].run = NULL /\ UNCHANGED vars
    BY <1>3 DEF PollNext
  <2>3. CASE poll[p].seen[r] # NoRun
    <3>1. RightPoll(Polling(poll[p].todo \ {r}, r, poll[p].seen))
      BY <2>2, <2>3, RightPolls
    <3>2. poll' = [poll EXCEPT ![p] = Polling(poll[p].todo \ {r}, r, poll[p].seen)]
      BY <2>1, <2>3
    <3>3. QED
      BY <1>b, <2>2, <3>1, <3>2, PollerAlone
  <2>4. CASE poll[p].seen[r] = NoRun /\ runs[r] # NoRun
    <3> DEFINE new == Polling(poll[p].todo \ {r}, r, [poll[p].seen EXCEPT ![r] = runs[r]])
    <3>1. RightPoll(new)
      BY <2>2, <2>4, RightPolls
    <3>2. poll' = [poll EXCEPT ![p] = new]
      BY <2>1, <2>4
    <3> HIDE DEF new
    <3>3. QED
      BY <1>b, <2>2, <3>1, <3>2, PollerAlone
  <2>5. CASE poll[p].seen[r] = NoRun /\ runs[r] = NoRun
    BY <1>b, <2>1, <2>2, <2>5, RightPolls, PollerAlone
  <2>6. QED
    BY <2>3, <2>4, <2>5
<1>4. ASSUME NEW p \in Pollers, PollNoResult(p) PROVE PollInv'
  BY <1>4, <1>b, RightPolls, PollerAlone DEF PollNoResult
<1>5. ASSUME NEW p \in Pollers, PollFinish(p) PROVE PollInv'
  <2>1. poll[p].run # NULL /\ UNCHANGED <<enabled, task, batch, req, clear, crashes>>
    BY <1>5 DEF PollFinish
  <2>2. CASE RunGone(poll[p].run)
             /\ poll' = [poll EXCEPT ![p] = Polling(poll[p].todo, NULL, poll[p].seen)]
    <3>1. UNCHANGED vars
      BY <2>1, <2>2 DEF RunGone, vars
    <3>2. QED
      BY <1>b, <2>2, <3>1, RightPolls, PollerAlone
  <2>3. ASSUME NEW status \in {"success", "failed"},
               UpdateStatus(poll[p].run, poll[p].seen[poll[p].run], status),
               poll' = [poll EXCEPT ![p] = Polling(poll[p].todo, NULL, EmptyBatch)]
        PROVE  PollInv'
    <3>1. /\ LifeInv' /\ nextRun' >= nextRun
          /\ \A q \in RunIds : q # poll[p].run /\ q < nextRun => runs'[q] = runs[q]
      BY <2>1, <2>3, PollCommits
    <3> DEFINE new == Polling(poll[p].todo, NULL, EmptyBatch)
    <3>2. new.run = NULL /\ new.todo = poll[p].todo /\ new.seen = EmptyBatch
      BY <1>a, PollStates, PollTypes
    <3>3. \A q \in Pollers : poll'[q] = new
      BY <1>a, <2>3 DEF SinglePoller, PollTypeInv
    <3>4. PollRows'
      <4> SUFFICES ASSUME NEW q \in Pollers
                   PROVE  /\ poll'[q].run \notin poll'[q].todo
                          /\ \A r \in OnHand(poll'[q]) :
                                /\ r < nextRun'
                                /\ runs'[r] # NoRun => runs'[r].status = "awaiting_result"
                                /\ poll'[q].seen[r] = NoRun
        BY DEF PollRows, RightPoll, OnHand
      <4>1. /\ poll'[q].run = NULL /\ poll'[q].todo = poll[p].todo
            /\ poll'[q].seen = EmptyBatch
        BY <3>2, <3>3
      <4>2. poll[p].todo \in SUBSET RunIds /\ NULL \notin RunIds
        BY <1>a, PollStates
      <4>3. ASSUME NEW r \in poll[p].todo
            PROVE  /\ r < nextRun'
                   /\ runs'[r] # NoRun => runs'[r].status = "awaiting_result"
        <5>1. /\ r \in OnHand(poll[p]) /\ r # poll[p].run /\ r < nextRun
              /\ runs[r] # NoRun => runs[r].status = "awaiting_result"
          BY <1>a DEF PollRows, RightPoll, OnHand
        <5>2. r \in Nat /\ nextRun \in Nat /\ nextRun' \in Nat
          BY <1>a, <1>b, <4>2, LifeFacts DEF PollTypeInv, TypeInv, TypeOK
        <5>3. QED
          BY <3>1, <4>2, <5>1, <5>2
      <4>4. QED
        BY <4>1, <4>2, <4>3 DEF OnHand, EmptyBatch
    <3>5. QED
      BY <1>b, <3>1, <3>4 DEF PollInv
  <2>4. QED
    BY <1>5, <2>2, <2>3 DEF PollFinish
<1>6. ASSUME NEW p \in Pollers, PollDone(p) PROVE PollInv'
  BY <1>6, <1>b, RightPolls, PollerAlone DEF PollDone
<1>7. ASSUME NEW p \in Pollers, PollerCrash(p) PROVE PollInv'
  <2>1. /\ UNCHANGED <<runs, nextRun, enabled, task, batch, req, clear>>
        /\ poll' = [poll EXCEPT ![p] = IdlePoll]
    BY <1>7 DEF PollerCrash
  <2>2. TypeInv'
    BY <1>b DEF PollTypeInv
  <2>3. RowsEvolve /\ HeldKept /\ Calm /\ TableMoves
    BY <1>a, <2>1, TableAlone, CalmTable, MovesAlone
  <2>4. LifeInv'
    BY <1>a, <2>1, <2>2, <2>3, OutsideStep DEF StillRow
  <2>5. \A q \in Pollers : poll'[q] = IdlePoll
    BY <1>a, <2>1 DEF SinglePoller, PollTypeInv
  <2>6. PollRows'
    BY <2>5, PollTypes DEF PollRows, RightPoll, OnHand
  <2>7. QED
    BY <1>b, <2>4, <2>6 DEF PollInv
<1>8. QED
  BY <1>1, <1>2, <1>3, <1>4, <1>5, <1>6, <1>7 DEF PollerNext, PollStep, pollVars

\* The invariant holds at the start, when no poller does anything.
LEMMA PollInvInit == PollInit => PollInv
<1> SUFFICES ASSUME PollInit PROVE PollInv
  OBVIOUS
<1>1. PollTypeInv /\ LifeInv
  BY PollTypeInit, LifeInit DEF PollInit
<1>2. PollRows
  BY PollTypes DEF PollInit, PollRows, RightPoll, OnHand
<1>3. QED
  BY <1>1, <1>2 DEF PollInv

\* A run that has ended keeps its status, and is not retried again, in a step
\* that moves rows as the queue and the poller do.
LEMMA EndedOnce ==
    ASSUME QueueInv,
           TableMoves \/ (\A r \in RunIds : runs'[r] \in {NoRun, runs[r]}),
           NEW r \in RunIds, runs[r] # NoRun, runs[r].status \in Finished
    PROVE  /\ runs'[r] = NoRun \/ runs'[r].status = runs[r].status
           /\ \A q \in RunIds :
                  runs[q] = NoRun /\ runs'[q] # NoRun => runs'[q].retry_of # r
<1>1. r # nextRun /\ r # NULL
  BY LifeFacts, RunTableAssumption DEF RunIds
<1>2. CASE TableMoves
  <2>1. runs'[r].status = runs[r].status
    BY <1>1, <1>2, FinishedKept
  <2>2. ASSUME NEW q \in RunIds, runs[q] = NoRun, runs'[q] # NoRun
        PROVE  runs'[q].retry_of # r
    BY <1>1, <1>2, <2>2 DEF TableMoves, Moved, Submitted
  <2>3. QED
    BY <2>1, <2>2
<1>3. CASE \A q \in RunIds : runs'[q] \in {NoRun, runs[q]}
  BY <1>3
<1>4. QED
  BY <1>2, <1>3

\* With one poller, one scheduler, executions within their lease and nobody who
\* ends or retries single runs, the result of a run is applied once: the
\* poller only reports on runs that wait, although it writes from rows it
\* loaded before it asked, and a run that has ended keeps its status and gets
\* no further retry.
THEOREM ResultsAppliedOnce ==
    ASSUME SingleScheduler, BoundedExec, NoRequests, SinglePoller
    PROVE  PollerSpec => PolledOnce
<1> DEFINE Once ==
       /\ \A p \in Pollers :
              PollFinish(p) /\ runs[poll[p].run] # NoRun =>
                  runs[poll[p].run].status = "awaiting_result"
       /\ \A r \in RunIds :
              runs[r] # NoRun /\ runs[r].status \in Finished =>
                  /\ runs'[r] = NoRun \/ runs'[r].status = runs[r].status
                  /\ \A q \in RunIds :
                         runs[q] = NoRun /\ runs'[q] # NoRun => runs'[q].retry_of # r
<1>1. ASSUME PollInv
      PROVE  \A p \in Pollers :
                 PollFinish(p) /\ runs[poll[p].run] # NoRun =>
                     runs[poll[p].run].status = "awaiting_result"
  <2>1. ASSUME NEW p \in Pollers, PollFinish(p), runs[poll[p].run] # NoRun
        PROVE  runs[poll[p].run].status = "awaiting_result"
    <3>1. poll[p].run \in OnHand(poll[p])
      BY <2>1 DEF PollFinish, OnHand
    <3>2. QED
      BY <1>1, <2>1, <3>1 DEF PollInv, PollRows, RightPoll
  <2>2. QED
    BY <2>1
<1>2. ASSUME PollInv, [PollerNext]_pollVars PROVE Once
  <2>1. LifeInv /\ QueueInv
    BY <1>2 DEF PollInv, LifeInv, ExclusiveInv
  <2>2. TableMoves \/ \A r \in RunIds : runs'[r] \in {NoRun, runs[r]}
    <3>1. CASE [Next]_vars
      BY <2>1, <3>1, LifeStep
    <3>2. CASE runs' = runs
      BY <3>2
    <3>3. ASSUME NEW p \in Pollers, PollFinish(p), runs' # runs
          PROVE  TableMoves
      <4>1. PICK status \in {"success", "failed"} :
                UpdateStatus(poll[p].run, poll[p].seen[poll[p].run], status)
        BY <3>3 DEF PollFinish, RunGone
      <4>2. QED
        BY <1>2, <3>3, <4>1, PollCommits DEF PollFinish
    <3>4. QED
      BY <1>2, <3>1, <3>2, <3>3
         DEF PollerNext, PollStep, PollLoad, PollNext, PollNoResult, PollDone, PollerCrash,
             pollVars, vars
  <2>3. QED
    BY <1>1, <1>2, <2>1, <2>2, EndedOnce
<1>3. PollInv /\ [PollerNext]_pollVars => [Once]_pollVars
  BY <1>2
<1>4. PollInv /\ [PollerNext]_pollVars => PollInv'
  BY PollInvStep
<1> HIDE DEF Once
<1>5. PollerSpec => [][Once]_pollVars
  BY <1>3, <1>4, PollInvInit, PTL DEF PollerSpec
<1>6. QED
  BY <1>5 DEF PolledOnce, Once

\* A run that waits for its result is not put back into the queue, although its
\* row keeps a lease that expires: until the table is cleared it waits or has
\* ended.
THEOREM WaitingIsNotRequeued ==
    ASSUME SingleScheduler, BoundedExec, NoRequests, SinglePoller
    PROVE  PollerSpec => AwaitingStays
<1> DEFINE Stays == \A r \in RunIds :
                        runs[r] # NoRun /\ runs[r].status = "awaiting_result" =>
                            \/ runs'[r] = NoRun
                            \/ runs'[r].status \in Finished \cup {"awaiting_result"}
<1>1. ASSUME PollInv, [PollerNext]_pollVars PROVE Stays
  <2> SUFFICES ASSUME NEW r \in RunIds, runs[r] # NoRun,
                      runs[r].status = "awaiting_result", runs'[r] # NoRun
               PROVE  runs'[r].status \in Finished \cup {"awaiting_result"}
    OBVIOUS
  <2>1. LifeInv /\ QueueInv
    BY <1>1 DEF PollInv, LifeInv, ExclusiveInv
  <2>2. CASE [Next]_vars
    BY <2>1, <2>2, WaitingStays
  <2>3. CASE runs' = runs
    BY <2>3
  <2>4. ASSUME NEW p \in Pollers, PollFinish(p), runs' # runs
        PROVE  runs'[r].status \in Finished \cup {"awaiting_result"}
    <3>1. PICK status \in {"success", "failed"} :
              UpdateStatus(poll[p].run, poll[p].seen[poll[p].run], status)
      BY <2>4 DEF PollFinish, RunGone
    <3>2. /\ runs'[poll[p].run].status = status
          /\ \A q \in RunIds : q # poll[p].run /\ q < nextRun => runs'[q] = runs[q]
      BY <1>1, <2>4, <3>1, PollCommits DEF PollFinish
    <3>3. r < nextRun
      BY <2>1, LifeFacts
    <3>4. QED
      BY <3>2, <3>3 DEF Finished
  <2>5. QED
    BY <1>1, <2>2, <2>3, <2>4
       DEF PollerNext, PollStep, PollLoad, PollNext, PollNoResult, PollDone, PollerCrash,
           pollVars, vars
<1>2. PollInv /\ [PollerNext]_pollVars => [Stays]_pollVars
  BY <1>1
<1>3. PollInv /\ [PollerNext]_pollVars => PollInv'
  BY PollInvStep
<1> HIDE DEF Stays
<1>4. PollerSpec => [][Stays]_pollVars
  BY <1>2, <1>3, PollInvInit, PTL DEF PollerSpec
<1>5. QED
  BY <1>4 DEF AwaitingStays, Stays
=============================================================================
