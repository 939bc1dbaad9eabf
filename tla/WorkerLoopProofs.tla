-------------------------- MODULE WorkerLoopProofs --------------------------
(***************************************************************************)
(* Proof that the worker's tasks are bounded, for every value of            *)
(* MAX_CONCURRENT_JOBS and every pattern of events, timeouts and arrivals,  *)
(* and that it never takes more runs than have arrived.                     *)
(***************************************************************************)
EXTENDS WorkerLoop, TLAPS

SlotInv == tasks \in [Stage -> Nat] /\ TasksBounded /\ NoIdleSlot

\* The invariant in terms of the four counters.
LEMMA SlotCounters ==
    ASSUME tasks \in [Stage -> Nat]
    PROVE  /\ tasks["created"] \in Nat
           /\ tasks["waiting"] \in Nat
           /\ tasks["woken"] \in Nat
           /\ tasks["executing"] \in Nat
           /\ Slots = tasks["woken"] + tasks["executing"]
  BY DEF Stage, Slots

\* Initially there is no task.
LEMMA SlotInvInit == Init => SlotInv
  <1> SUFFICES ASSUME Init PROVE SlotInv
    OBVIOUS
  <1>1. tasks \in [Stage -> Nat] /\ \A s \in Stage : tasks[s] = 0
    BY DEF Init
  <1>2. QED
    BY <1>1, WorkerLoopAssumption DEF SlotInv, TasksBounded, NoIdleSlot, Slots, Stage

\* The end of a task that holds a slot keeps the invariant.
LEMMA ReleaseKeeps ==
    ASSUME SlotInv, NEW s \in {"woken", "executing"}, tasks[s] > 0, tasks' = Released(s)
    PROVE  SlotInv'
  <1>1. /\ tasks \in [Stage -> Nat]
        /\ tasks["created"] \in Nat /\ tasks["waiting"] \in Nat
        /\ tasks["woken"] \in Nat /\ tasks["executing"] \in Nat
    BY SlotCounters DEF SlotInv
  <1>2. MaxConcurrentJobs \in Nat
    BY WorkerLoopAssumption
  <1>3. CASE tasks["waiting"] > 0
    <2>1. tasks' = [tasks EXCEPT ![s] = @ - 1, !["waiting"] = @ - 1, !["woken"] = @ + 1]
      BY <1>3 DEF Released
    <2>2. /\ tasks' \in [Stage -> Nat]
          /\ tasks'["created"] = tasks["created"]
          /\ tasks'["waiting"] = tasks["waiting"] - 1
          /\ tasks'["woken"] + tasks'["executing"] = tasks["woken"] + tasks["executing"]
      BY <1>1, <1>3, <2>1 DEF Stage
    <2>3. QED
      BY <1>1, <1>2, <2>2 DEF SlotInv, TasksBounded, NoIdleSlot, Slots
  <1>4. CASE ~(tasks["waiting"] > 0)
    <2>1. tasks' = [tasks EXCEPT ![s] = @ - 1]
      BY <1>4 DEF Released
    <2>2. /\ tasks' \in [Stage -> Nat]
          /\ tasks'["created"] = tasks["created"]
          /\ tasks'["waiting"] = tasks["waiting"]
          /\ tasks'["woken"] + tasks'["executing"] = tasks["woken"] + tasks["executing"] - 1
      BY <1>1, <2>1 DEF Stage
    <2>3. QED
      BY <1>1, <1>2, <1>4, <2>2 DEF SlotInv, TasksBounded, NoIdleSlot, Slots
  <1>5. QED
    BY <1>3, <1>4

\* Every step keeps the invariant.
LEMMA SlotInvStep == SlotInv /\ [Next]_vars => SlotInv'
<1> SUFFICES ASSUME SlotInv, [Next]_vars PROVE SlotInv'
  OBVIOUS
<1>a. /\ tasks \in [Stage -> Nat]
      /\ tasks["created"] \in Nat /\ tasks["waiting"] \in Nat
      /\ tasks["woken"] \in Nat /\ tasks["executing"] \in Nat
  BY SlotCounters DEF SlotInv
<1>b. MaxConcurrentJobs \in Nat \ {0}
  BY WorkerLoopAssumption
<1>c. /\ tasks["woken"] + tasks["executing"] <= MaxConcurrentJobs
      /\ tasks["woken"] + tasks["executing"] + tasks["created"] + tasks["waiting"]
             < 2 * MaxConcurrentJobs
      /\ tasks["waiting"] > 0 => tasks["woken"] + tasks["executing"] = MaxConcurrentJobs
  BY DEF SlotInv, TasksBounded, NoIdleSlot, Slots
<1>1. ASSUME UNCHANGED tasks PROVE SlotInv'
  BY <1>1 DEF SlotInv, TasksBounded, NoIdleSlot, Slots
<1>2. ASSUME tasks["created"] = 0, Spawn PROVE SlotInv'
  <2>1. CASE SemaphoreLocked
    BY <1>1, <1>2, <2>1 DEF Spawn
  <2>2. CASE ~SemaphoreLocked
    <3>1. tasks' = [tasks EXCEPT !["created"] = @ + MaxConcurrentJobs]
      BY <1>2, <2>2 DEF Spawn
    <3>2. /\ tasks' \in [Stage -> Nat]
          /\ tasks'["created"] = MaxConcurrentJobs
          /\ tasks'["waiting"] = tasks["waiting"]
          /\ tasks'["woken"] = tasks["woken"]
          /\ tasks'["executing"] = tasks["executing"]
      BY <1>2, <1>a, <1>b, <3>1 DEF Stage
    <3>3. /\ tasks["waiting"] = 0
          /\ tasks["woken"] + tasks["executing"] < MaxConcurrentJobs
      BY <1>a, <1>b, <1>c, <2>2 DEF SemaphoreLocked, Slots
    <3>4. QED
      BY <1>a, <1>b, <3>2, <3>3 DEF SlotInv, TasksBounded, NoIdleSlot, Slots
  <2>3. QED
    BY <2>1, <2>2
<1>3. ASSUME TaskFirstStep PROVE SlotInv'
  <2>1. CASE SemaphoreLocked /\ tasks' = Moved("created", "waiting")
    <3>1. /\ tasks' \in [Stage -> Nat]
          /\ tasks'["created"] = tasks["created"] - 1
          /\ tasks'["waiting"] = tasks["waiting"] + 1
          /\ tasks'["woken"] = tasks["woken"]
          /\ tasks'["executing"] = tasks["executing"]
      BY <1>3, <1>a, <2>1 DEF TaskFirstStep, Moved, Stage
    <3>2. tasks["woken"] + tasks["executing"] = MaxConcurrentJobs
      BY <1>c, <2>1 DEF SemaphoreLocked, Slots
    <3>3. QED
      BY <1>a, <1>b, <1>c, <3>1, <3>2 DEF SlotInv, TasksBounded, NoIdleSlot, Slots
  <2>2. CASE ~SemaphoreLocked /\ Dequeue("created")
    <3>1. /\ tasks["waiting"] = 0
          /\ tasks["woken"] + tasks["executing"] < MaxConcurrentJobs
      BY <1>a, <1>b, <1>c, <2>2 DEF SemaphoreLocked, Slots
    <3>2. /\ tasks' \in [Stage -> Nat]
          /\ tasks'["created"] = tasks["created"] - 1
          /\ tasks'["waiting"] = tasks["waiting"]
          /\ tasks'["woken"] = tasks["woken"]
          /\ tasks'["executing"] \in {tasks["executing"], tasks["executing"] + 1}
      BY <1>3, <1>a, <2>2 DEF TaskFirstStep, Dequeue, Moved, Stage
    <3>3. QED
      BY <1>a, <1>b, <1>c, <3>1, <3>2 DEF SlotInv, TasksBounded, NoIdleSlot, Slots
  <2>3. QED
    BY <1>3, <2>1, <2>2 DEF TaskFirstStep
<1>4. ASSUME TaskResumes PROVE SlotInv'
  <2>1. CASE tasks' = Moved("woken", "executing")
    <3>1. /\ tasks' \in [Stage -> Nat]
          /\ tasks'["created"] = tasks["created"]
          /\ tasks'["waiting"] = tasks["waiting"]
          /\ tasks'["woken"] + tasks'["executing"] = tasks["woken"] + tasks["executing"]
      BY <1>4, <1>a, <2>1 DEF TaskResumes, Moved, Stage
    <3>2. QED
      BY <1>a, <1>b, <1>c, <3>1 DEF SlotInv, TasksBounded, NoIdleSlot, Slots
  <2>2. CASE tasks' = Released("woken")
    BY <1>4, <2>2, ReleaseKeeps DEF TaskResumes
  <2>3. QED
    BY <1>4, <2>1, <2>2 DEF TaskResumes, Dequeue
<1>5. ASSUME TaskEnds PROVE SlotInv'
  BY <1>5, ReleaseKeeps DEF TaskEnds
<1>6. QED
  BY <1>1, <1>2, <1>3, <1>4, <1>5
     DEF Next, vars, RunArrives, TakenElsewhere, ListenerStart, ListenerPoll, ListenerWake,
         ListenerDies, MainOnEvent, MainTimeout

\* So it holds in every state.
LEMMA SlotInvariant == Spec => []SlotInv
  BY SlotInvInit, SlotInvStep, PTL DEF Spec

\* Whatever MAX_CONCURRENT_JOBS is, however events, timeouts, arrivals and
\* executions interleave: at most that many tasks hold a slot, and fewer than
\* twice as many tasks exist.
THEOREM TasksStayBounded == Spec => []TasksBounded
  <1>1. SlotInv => TasksBounded
    BY DEF SlotInv
  <1>2. QED
    BY <1>1, SlotInvariant, PTL

\* Tasks wait on the semaphore only while all its slots are taken.
THEOREM SlotsNeverIdle == Spec => []NoIdleSlot
  <1>1. SlotInv => NoIdleSlot
    BY DEF SlotInv
  <1>2. QED
    BY <1>1, SlotInvariant, PTL

-----------------------------------------------------------------------------
(* The queue.  No dequeue takes a run that is not there, and there are no     *)
(* more runs in the queue than have arrived.                                *)

QueueInv == SlotInv /\ TypeOK /\ pending <= arrivals

\* A dequeue takes a run that is there, or none.
LEMMA DequeueTakes ==
    ASSUME QueueInv, NEW s, Dequeue(s), arrivals' = arrivals
    PROVE  pending' \in 0..MaxArrivals /\ pending' <= arrivals'
  BY WorkerLoopAssumption DEF QueueInv, TypeOK, Dequeue

\* Every step keeps the types of the worker's state.
LEMMA QueueInvStep == QueueInv /\ [Next]_vars => QueueInv'
<1> SUFFICES ASSUME QueueInv, [Next]_vars PROVE QueueInv'
  OBVIOUS
<1>1. SlotInv'
  BY SlotInvStep DEF QueueInv
<1>2. /\ pending \in 0..MaxArrivals /\ arrivals \in 0..MaxArrivals /\ pending <= arrivals
      /\ MaxArrivals \in Nat
  BY WorkerLoopAssumption DEF QueueInv, TypeOK
<1>3. /\ pending' \in 0..MaxArrivals /\ arrivals' \in 0..MaxArrivals
      /\ pending' <= arrivals'
  <2>1. CASE RunArrives
    BY <1>2, <2>1 DEF RunArrives
  <2>2. CASE TakenElsewhere
    BY <1>2, <2>2 DEF TakenElsewhere
  <2>3. CASE UNCHANGED <<pending, arrivals>>
    BY <1>2, <2>3
  <2>4. CASE TaskFirstStep
    BY <1>2, <2>4, DequeueTakes DEF TaskFirstStep
  <2>5. CASE TaskResumes
    BY <1>2, <2>5, DequeueTakes DEF TaskResumes
  <2>6. QED
    BY <2>1, <2>2, <2>3, <2>4, <2>5
       DEF Next, vars, ListenerStart, ListenerPoll, ListenerWake, ListenerDies, MainOnEvent,
           MainTimeout, TaskEnds
<1>4. notified' \in BOOLEAN /\ event' \in BOOLEAN
  <2>1. notified \in BOOLEAN /\ event \in BOOLEAN
    BY DEF QueueInv, TypeOK
  <2>2. /\ notified' \in {notified, FALSE, (notified \/ listener \in {"listening", "sleeping"})}
        /\ event' \in {event, FALSE, (event \/ notified)}
    BY DEF Next, vars, RunArrives, TakenElsewhere, ListenerStart, ListenerPoll, ListenerWake,
           ListenerDies, MainOnEvent, MainTimeout, TaskFirstStep, TaskResumes, TaskEnds
  <2>3. QED
    BY <2>1, <2>2
<1>5. listener' \in {"starting", "listening", "sleeping", "dead"}
  BY DEF QueueInv, TypeOK, Next, vars, RunArrives, TakenElsewhere, ListenerStart,
         ListenerPoll, ListenerWake, ListenerDies, MainOnEvent, MainTimeout, TaskFirstStep,
         TaskResumes, TaskEnds
<1>6. QED
  BY <1>1, <1>3, <1>4, <1>5 DEF QueueInv, TypeOK, SlotInv

\* The counters stay within their bounds: in particular no dequeue takes a run
\* from an empty queue, and no task leaves a stage in which there is none.
THEOREM WorkerTypeCorrect == Spec => []TypeOK
<1>1. Init => QueueInv
  <2> SUFFICES ASSUME Init PROVE QueueInv
    OBVIOUS
  <2>1. pending \in 0..MaxArrivals /\ arrivals = pending
    BY DEF Init
  <2>2. notified \in BOOLEAN /\ event \in BOOLEAN
    BY DEF Init
  <2>3. pending <= arrivals
    BY <2>1, WorkerLoopAssumption
  <2>4. TypeOK
    BY <2>1, <2>2 DEF Init, TypeOK
  <2>5. QED
    BY <2>3, <2>4, SlotInvInit DEF QueueInv
<1>2. QueueInv => TypeOK
  BY DEF QueueInv
<1>3. QED
  BY <1>1, <1>2, QueueInvStep, PTL DEF Spec
=============================================================================
