------------------------------ MODULE Executor ------------------------------
(***************************************************************************)
(* One execution: execute_job, the executors it dispatches to, and the part *)
(* of run_job_task that turns their result into the status of the run.      *)
(*                                                                         *)
(* The world outside is free: a service may answer anything, late or never; *)
(* a program may exit with any code, never exit, leave a descendant that     *)
(* keeps its pipes open, and print what the worker takes for a timeout.     *)
(* Timers of the event loop fire on time or up to LoopDelay late, because    *)
(* event_listener's select blocks the loop.                                 *)
(***************************************************************************)
EXTENDS Naturals

CONSTANTS
    Timeout,      \* timeout_seconds
    LoopDelay,    \* how late a timer may fire
    MaxTime       \* bound on the time an HTTP request is followed for

ASSUME ExecutorAssumption ==
    /\ Timeout \in Nat \ {0} /\ LoopDelay \in Nat
    /\ MaxTime \in Nat /\ MaxTime >= Timeout + LoopDelay

Builtin == {"report", "email", "backup", "fail-test"}

Api == {"api_call", "api_poll"}

Programs == {"shell", "python"}

\* The database admits no other action_type.
ActionTypes == Builtin \cup Api \cup Programs \cup {"long-task"}

(* A working_dir by what _resolve_working_dir makes of it: a directory in the *)
(* work directory (also when none is given), one that is refused, or one that *)
(* cannot be created.                                                       *)
WorkingDirs == {"inside", "outside", "unwritable"}

(* command: none, a list, or something else.                                *)
Payload == [url : {"none", "given"}, script : {"none", "given"},
            command : {"none", "list", "other"}, working_dir : WorkingDirs]

(* What an executor returns, by what the worker looks at.                    *)
Result == [kind : {"success", "failure", "awaiting"}, stderr : {"text", "timeout after"}]

VARIABLES
    action, payload,  \* the arguments of execute_job
    pc,        \* "dispatch", "request", "sleep", "start", "program", "returned",
               \* "raised", "reported" or "lost"
    child,     \* the process started: "none", "alive", "exited" or "killed"
    code,      \* its exit code, "none" while there is none
    printed,   \* its stderr, by whether it starts with the words of a timeout
    pipes,     \* "inherited" while a descendant of the process holds its pipes
    reply,     \* what the service answered: "none", "ok", "id", "error" or "broken"
    elapsed,   \* seconds since the timer was started
    result,    \* the executor's result
    status     \* the run's status the worker sets, "running" before

vars == <<action, payload, pc, child, code, printed, pipes, reply, elapsed, result, status>>

TypeOK ==
    /\ action \in ActionTypes /\ payload \in Payload
    /\ pc \in {"dispatch", "request", "sleep", "start", "program", "returned",
               "raised", "reported", "lost"}
    /\ child \in {"none", "alive", "exited", "killed"}
    /\ code \in {"none", "zero", "other"}
    /\ printed \in {"text", "timeout after"}
    /\ pipes \in {"own", "inherited"}
    /\ reply \in {"none", "ok", "id", "error", "broken"}
    /\ elapsed \in 0..MaxTime
    /\ result \in Result
    /\ status \in {"running", "success", "failed", "timeout", "awaiting_result"}

Ok == [kind |-> "success", stderr |-> "text"]

Failed == [kind |-> "failure", stderr |-> "text"]

TimedOut == [kind |-> "failure", stderr |-> "timeout after"]

Accepted == [kind |-> "awaiting", stderr |-> "text"]

Init ==
    /\ action \in ActionTypes /\ payload \in Payload
    /\ pc = "dispatch"
    /\ child = "none" /\ code = "none" /\ printed = "text" /\ pipes = "own"
    /\ reply = "none"
    /\ elapsed = 0
    /\ result = Failed /\ status = "running"

world == <<child, code, printed, pipes, reply>>

Return(r) == pc' = "returned" /\ result' = r

Raise == pc' = "raised" /\ UNCHANGED result

-----------------------------------------------------------------------------
(* execute_job's built-in actions.                                          *)

ExecBuiltin ==
    /\ pc = "dispatch" /\ action \in Builtin
    /\ Return(IF action = "fail-test" THEN Failed ELSE Ok)
    /\ UNCHANGED <<action, payload, world, elapsed, status>>

LongTaskSleeps ==
    /\ pc = "dispatch" /\ action = "long-task"
    /\ pc' = "sleep"
    /\ UNCHANGED <<action, payload, world, elapsed, result, status>>

LongTaskWakes ==
    /\ pc = "sleep"
    /\ elapsed >= (IF Timeout < 2 THEN Timeout ELSE 2)
    /\ Return(Ok)
    /\ UNCHANGED <<action, payload, world, elapsed, status>>

-----------------------------------------------------------------------------
(* execute_api_call and execute_api_poll.                                    *)

ApiStart ==
    /\ pc = "dispatch" /\ action \in Api
    /\ IF payload.url = "given"
       THEN pc' = "request" /\ UNCHANGED result
       ELSE Return(Failed)
    /\ UNCHANGED <<action, payload, world, elapsed, status>>

\* what the executor makes of answer a; "broken" is an exception of httpx, its
\* limits on connecting and on the wait for the next bytes included, or, for a
\* poll, a body that is not a JSON object
ApiResult(a) ==
    IF action = "api_call"
    THEN CASE a = "broken" -> Raise
           [] a = "error" -> Return(Failed)
           [] OTHER -> Return(Ok)
    ELSE Return(IF a = "id" THEN Accepted ELSE Failed)

ApiAnswer(a) ==
    /\ pc = "request"
    /\ reply' = a
    /\ ApiResult(a)
    /\ UNCHANGED <<action, payload, child, code, printed, pipes, elapsed, status>>

-----------------------------------------------------------------------------
(* execute_shell and execute_python.                                         *)

\* _resolve_working_dir finds a directory to use
Resolves(d) == d = "inside"

\* a script is required, or, by execute_shell, a command
Missing ==
    /\ payload.script = "none"
    /\ action = "python" \/ payload.command = "none"

BadCommand == action = "shell" /\ payload.command = "other"

ProgramChecks ==
    /\ pc = "dispatch" /\ action \in Programs
    /\ IF Missing \/ ~Resolves(payload.working_dir) \/ BadCommand
       THEN Return(Failed)
       ELSE pc' = "start" /\ UNCHANGED result
    /\ UNCHANGED <<action, payload, world, elapsed, status>>

\* create_subprocess_exec
ProgramStarts ==
    /\ pc = "start"
    /\ child' = "alive"
    /\ pc' = "program"
    /\ UNCHANGED <<action, payload, code, printed, pipes, reply, elapsed, result, status>>

\* the script cannot be written or the program not be started, for example
\* because the directory is gone since it was checked
StartRaises ==
    /\ pc = "start"
    /\ Raise
    /\ UNCHANGED <<action, payload, world, elapsed, status>>

\* the program's own steps
ProgramForks ==
    /\ child = "alive" /\ pipes = "own"
    /\ pipes' = "inherited"
    /\ UNCHANGED <<action, payload, pc, child, code, printed, reply, elapsed, result, status>>

ProgramExits ==
    /\ child = "alive"
    /\ child' = "exited"
    /\ code' \in {"zero", "other"} /\ printed' \in {"text", "timeout after"}
    /\ UNCHANGED <<action, payload, pc, pipes, reply, elapsed, result, status>>

HeirsEnd ==
    /\ pipes = "inherited"
    /\ pipes' = "own"
    /\ UNCHANGED <<action, payload, pc, child, code, printed, reply, elapsed, result, status>>

ProgramResultIgnoresCode ==
    [kind |-> "success", stderr |-> printed]

ProgramResult ==
    [kind |-> IF code = "zero" THEN "success" ELSE "failure", stderr |-> printed]

\* communicate() returns once the process has ended and its pipes are closed
CommunicateReturns ==
    /\ pc = "program" /\ child = "exited" /\ pipes = "own"
    /\ Return(ProgramResult)
    /\ UNCHANGED <<action, payload, world, elapsed, status>>

TimeoutWithoutKill ==
    /\ pc = "program" /\ elapsed >= Timeout
    /\ Return(TimedOut)
    /\ UNCHANGED <<action, payload, world, elapsed, status>>

TimeoutOfProcessOnly ==
    /\ pc = "program" /\ elapsed >= Timeout /\ child = "alive"
    /\ child' = "killed"
    /\ Return(TimedOut)
    /\ UNCHANGED <<action, payload, code, printed, pipes, reply, elapsed, status>>

\* wait_for's limit passes first: process.kill() ends the process, not its
\* descendants; it does nothing to one that has exited and whose pipes are
\* open, and raises ProcessLookupError when all of it is gone already
TimeoutFires ==
    /\ pc = "program" /\ elapsed >= Timeout
    /\ child' = IF child = "alive" THEN "killed" ELSE child
    /\ IF child = "exited" /\ pipes = "own" THEN Raise ELSE Return(TimedOut)
    /\ UNCHANGED <<action, payload, code, printed, pipes, reply, elapsed, status>>

-----------------------------------------------------------------------------
(* run_job_task.                                                           *)

FinishStatusAsReturned ==
    IF result.kind = "awaiting" THEN "awaiting"
    ELSE IF result.stderr = "timeout after" THEN "timeout"
    ELSE IF result.kind = "success" THEN "success" ELSE "failed"

FinishStatus ==
    IF result.kind = "awaiting" THEN "awaiting_result"
    ELSE IF result.stderr = "timeout after" THEN "timeout"
    ELSE IF result.kind = "success" THEN "success" ELSE "failed"

HandleResult ==
    /\ pc = "returned"
    /\ status' = FinishStatus
    /\ pc' = "reported"
    /\ UNCHANGED <<action, payload, world, elapsed, result>>

HandleException ==
    /\ pc = "raised"
    /\ status' = "failed"
    /\ pc' = "reported"
    /\ UNCHANGED <<action, payload, world, elapsed, result>>

\* The report raises: a lost connection, or output the database rejects.  The
\* handler's own finish_run meets a session that was not rolled back and
\* raises too, so nothing is written; the row stays running until its lease
\* ends (module JobRuns).
ReportFails ==
    /\ pc \in {"returned", "raised"}
    /\ pc' = "lost"
    /\ UNCHANGED <<action, payload, world, elapsed, result, status>>

\* a second passes; the loop runs a timer that is due within LoopDelay
Tick ==
    /\ \/ pc \in {"sleep", "program"} /\ elapsed < Timeout + LoopDelay
       \/ pc = "request" /\ elapsed < MaxTime
    /\ elapsed' = elapsed + 1
    /\ UNCHANGED <<action, payload, pc, world, result, status>>

Worker ==
    \/ ExecBuiltin \/ LongTaskSleeps \/ LongTaskWakes
    \/ ApiStart \/ ProgramChecks \/ ProgramStarts \/ StartRaises
    \/ CommunicateReturns \/ TimeoutFires
    \/ HandleResult \/ HandleException

World ==
    \/ \E a \in {"ok", "id", "error", "broken"} : ApiAnswer(a)
    \/ ProgramForks \/ ProgramExits \/ HeirsEnd \/ ReportFails

Next == Worker \/ World \/ Tick

Spec == Init /\ [][Next]_vars

(* Time passes and the event loop runs what is ready.  Nothing is assumed of *)
(* programs, services and the database.                                     *)
FairSpec == Spec /\ WF_vars(Worker) /\ WF_vars(Tick)

-----------------------------------------------------------------------------
(* Properties.                                                             *)

\* The status the worker reports agrees with what happened outside: success
\* only for a program that exited with 0 or a service that answered without
\* an error, awaiting_result only for a request that was accepted with an id,
\* timeout only if the limit had passed or the program printed the words the
\* worker looks for, and a program that exited with 0 before its limit and
\* printed no such words is a success.
ReportTrue ==
    /\ status = "success" =>
        \/ action \in (Builtin \cup {"long-task"}) \ {"fail-test"}
        \/ action = "api_call" /\ reply \in {"ok", "id"}
        \/ action \in Programs /\ child = "exited" /\ code = "zero"
    /\ status = "awaiting_result" => action = "api_poll" /\ reply = "id"
    /\ status = "timeout" => action \in Programs /\ (elapsed >= Timeout \/ printed = "timeout after")
    /\ pc = "reported" /\ child = "exited" /\ code = "zero" /\ printed = "text"
            /\ elapsed < Timeout => status = "success"

\* When the worker is done with a run, reported or not, the process it started
\* has ended: the slot is given up with nothing of the run left to wait for.
NoProcessLeft == pc \in {"reported", "lost"} => child # "alive"

\* An execution that calls no service comes to its end, even if its program
\* never ends or leaves a descendant that never closes its pipes: the worker
\* writes the run's status or fails to.
ExecutionReported == action \notin Api ~> pc \in {"reported", "lost"}
=============================================================================
