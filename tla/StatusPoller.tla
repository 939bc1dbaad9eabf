---------------------------- MODULE StatusPoller ----------------------------
(***************************************************************************)
(* The status poller beside the run queue: poll_awaiting_runs asks an       *)
(* external system for the result of every run in awaiting_result and       *)
(* finishes the runs that have one.  It takes no lock and does not look at  *)
(* the status again after its first query.                                 *)
(*                                                                         *)
(* seen is what the poller's session has loaded.  A commit expires every    *)
(* instance of the session; an expired instance (NoRun in seen) is loaded   *)
(* again when the loop comes to it.  The order in which the query returns   *)
(* the runs is not specified.                                              *)
(***************************************************************************)
EXTENDS JobRuns

CONSTANT Pollers

VARIABLE poll

pollVars == <<vars, poll>>

IdlePoll == [pc |-> "idle", todo |-> {}, run |-> NULL, seen |-> EmptyBatch]

Polling(todo, r, seen) == [pc |-> "polling", todo |-> todo, run |-> r, seen |-> seen]

Poll ==
    [pc : {"idle", "polling"}, todo : SUBSET RunIds, run : RunIds \cup {NULL}, seen : Table]

PollTypeOK == TypeOK /\ poll \in [Pollers -> Poll]

PollInit == Init /\ poll = [p \in Pollers |-> IdlePoll]

-----------------------------------------------------------------------------
Awaiting == {r \in RunIds : runs[r] # NoRun /\ runs[r].status = "awaiting_result"}

\* the query at the start of poll_awaiting_runs
PollLoad(p) ==
    /\ poll[p] = IdlePoll
    /\ Awaiting # {}
    /\ poll' = [poll EXCEPT ![p] =
           Polling(Awaiting, NULL, [r \in RunIds |-> IF r \in Awaiting THEN runs[r] ELSE NoRun])]
    /\ UNCHANGED vars

PollNextKeepsRun(p) ==
    /\ poll[p].pc = "polling" /\ poll[p].run = NULL
    /\ \E r \in poll[p].todo :
        poll' = [poll EXCEPT ![p] =
            IF @.seen[r] # NoRun THEN Polling(@.todo, r, @.seen)
            ELSE IF runs[r] # NoRun THEN Polling(@.todo, r, [@.seen EXCEPT ![r] = runs[r]])
            ELSE IdlePoll]
    /\ UNCHANGED vars

\* The loop comes to a run and sends the request.  A row that has gone since
\* the instance expired ends the whole pass.
PollNext(p) ==
    /\ poll[p].pc = "polling" /\ poll[p].run = NULL
    /\ \E r \in poll[p].todo :
        poll' = [poll EXCEPT ![p] =
            IF @.seen[r] # NoRun THEN Polling(@.todo \ {r}, r, @.seen)
            ELSE IF runs[r] # NoRun THEN Polling(@.todo \ {r}, r, [@.seen EXCEPT ![r] = runs[r]])
            ELSE IdlePoll]
    /\ UNCHANGED vars

\* no result yet, another status code than 200, or an error of the request
PollNoResult(p) ==
    /\ poll[p].run # NULL
    /\ poll' = [poll EXCEPT ![p] = Polling(@.todo, NULL, @.seen)]
    /\ UNCHANGED vars

\* the external job has completed or failed: finish_run
PollFinish(p) ==
    /\ poll[p].run # NULL
    /\ LET r == poll[p].run IN
       \/ /\ RunGone(r)
          /\ poll' = [poll EXCEPT ![p] = Polling(@.todo, NULL, @.seen)]
       \/ /\ \E status \in {"success", "failed"} : UpdateStatus(r, poll[p].seen[r], status)
          /\ poll' = [poll EXCEPT ![p] = Polling(@.todo, NULL, EmptyBatch)]
    /\ UNCHANGED <<enabled, task, batch, req, clear, crashes>>

PollDone(p) ==
    /\ poll[p].pc = "polling" /\ poll[p].run = NULL /\ poll[p].todo = {}
    /\ poll' = [poll EXCEPT ![p] = IdlePoll]
    /\ UNCHANGED vars

PollerCrash(p) ==
    /\ crashes < MaxCrashes
    /\ poll[p] # IdlePoll
    /\ poll' = [poll EXCEPT ![p] = IdlePoll]
    /\ crashes' = crashes + 1
    /\ UNCHANGED <<runs, nextRun, enabled, task, batch, req, clear>>

PollStep(p) ==
    PollLoad(p) \/ PollNext(p) \/ PollNoResult(p) \/ PollFinish(p) \/ PollDone(p)

PollerNext ==
    \/ Next /\ UNCHANGED poll
    \/ \E p \in Pollers : PollStep(p) \/ PollerCrash(p)

PollerSpec == PollInit /\ [][PollerNext]_pollVars

-----------------------------------------------------------------------------
(* Properties.                                                             *)

\* A run that waits for its external result is not executed again: until the
\* table is cleared it either waits or has ended, although its row still
\* carries the lease of the worker that started it and the scheduler
\* releases expired leases meanwhile.
AwaitingStays ==
    [][\A r \in RunIds :
          runs[r] # NoRun /\ runs[r].status = "awaiting_result" =>
              \/ runs'[r] = NoRun
              \/ runs'[r].status \in Finished \cup {"awaiting_result"}]_pollVars

\* The result of a run is applied once.  finish_run does not look at the
\* status; still, when the poller reports on a run that exists, the run waits
\* for its result, and a run that has ended neither changes its status nor
\* gets another retry, whatever the poller's commits have expired in its
\* session and however a failed commit ends a pass.  It holds for one poller,
\* one scheduler, executions within their lease and no request on runs.
PolledOnce ==
    [][/\ \A p \in Pollers :
              PollFinish(p) /\ runs[poll[p].run] # NoRun =>
                  runs[poll[p].run].status = "awaiting_result"
       /\ \A r \in RunIds :
              runs[r] # NoRun /\ runs[r].status \in Finished =>
                  /\ runs'[r] = NoRun \/ runs'[r].status = runs[r].status
                  /\ \A q \in RunIds :
                         runs[q] = NoRun /\ runs'[q] # NoRun => runs'[q].retry_of # r]_pollVars
=============================================================================
