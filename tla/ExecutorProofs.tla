--------------------------- MODULE ExecutorProofs ---------------------------
(***************************************************************************)
(* Proofs about Executor, for every limit and every delay of the event loop. *)
(***************************************************************************)
EXTENDS Executor, TLAPS

\* what a result says of the world outside
ResultTrue ==
    /\ result.kind = "awaiting" => action = "api_poll" /\ reply = "id"
    /\ result.kind # "awaiting" /\ result.stderr = "timeout after" =>
        action \in Programs /\ (elapsed >= Timeout \/ printed = "timeout after")
    /\ result.kind = "success" =>
        \/ action \in (Builtin \cup {"long-task"}) \ {"fail-test"}
        \/ action = "api_call" /\ reply \in {"ok", "id"}
        \/ action \in Programs /\ child = "exited" /\ code = "zero"
    /\ child = "exited" /\ code = "zero" /\ printed = "text" /\ elapsed < Timeout =>
        result.kind = "success" /\ result.stderr = "text"

\* where the execution stands
Progress ==
    /\ child = "alive" => pc = "program"
    /\ pc \in {"dispatch", "request", "sleep", "start"} => child = "none"
    /\ pc = "request" => action \in Api
    /\ pc = "sleep" => action = "long-task"
    /\ pc = "start" => action \in Programs
    /\ pc = "program" => action \in Programs
    /\ pc = "returned" => ResultTrue
    /\ pc = "raised" => ~(child = "exited" /\ elapsed < Timeout)
    /\ pc # "reported" => status = "running"

Inv == TypeOK /\ Progress /\ ReportTrue

LEMMA ResultsTyped ==
    /\ Ok \in Result /\ Failed \in Result /\ TimedOut \in Result /\ Accepted \in Result
    /\ TypeOK => ProgramResult \in Result
  BY DEF Ok, Failed, TimedOut, Accepted, Result, ProgramResult, TypeOK

\* a step that returns a true result keeps Progress
LEMMA ReturnKeepsProgress ==
    ASSUME Progress, pc' = "returned", status' = status, pc # "reported",
           child' # "alive", ResultTrue'
    PROVE  Progress'
  BY DEF Progress

LEMMA TimesTyped ==
    TypeOK => /\ elapsed \in Nat /\ Timeout \in Nat /\ LoopDelay \in Nat /\ MaxTime \in Nat
              /\ MaxTime >= Timeout + LoopDelay
  <1> SUFFICES ASSUME TypeOK PROVE /\ elapsed \in Nat /\ Timeout \in Nat /\ LoopDelay \in Nat
                                   /\ MaxTime \in Nat /\ MaxTime >= Timeout + LoopDelay
    OBVIOUS
  <1>1. elapsed \in 0..MaxTime
    BY DEF TypeOK
  <1> QED
    BY <1>1, ExecutorAssumption

LEMMA InitInv == Init => Inv
  <1> SUFFICES ASSUME Init PROVE Inv
    OBVIOUS
  <1>1. TypeOK
    BY ExecutorAssumption, ResultsTyped DEF Init, TypeOK
  <1>2. Progress /\ ReportTrue
    BY DEF Init, Progress, ReportTrue
  <1> QED
    BY <1>1, <1>2 DEF Inv

LEMMA StepInv == Inv /\ [Next]_vars => Inv'
  <1> SUFFICES ASSUME Inv, [Next]_vars PROVE Inv'
    OBVIOUS
  <1> USE DEF Inv
  <1>1. ASSUME ExecBuiltin PROVE Inv'
    <2>1. TypeOK'
      BY <1>1, ResultsTyped DEF TypeOK, ExecBuiltin, Return, world
    <2>2. Progress'
      BY <1>1 DEF Progress, ResultTrue, ExecBuiltin, Return, Ok, Failed, Builtin, world
    <2>3. ReportTrue'
      BY <1>1 DEF Progress, ReportTrue, ExecBuiltin, Return, world
    <2> QED
      BY <2>1, <2>2, <2>3
  <1>2. ASSUME LongTaskSleeps PROVE Inv'
    <2>1. TypeOK'
      BY <1>2 DEF TypeOK, LongTaskSleeps, world
    <2>2. Progress'
      BY <1>2 DEF Progress, ResultTrue, LongTaskSleeps, world
    <2>3. ReportTrue'
      BY <1>2 DEF Progress, ReportTrue, LongTaskSleeps, world
    <2> QED
      BY <2>1, <2>2, <2>3
  <1>3. ASSUME LongTaskWakes PROVE Inv'
    <2>1. TypeOK'
      BY <1>3, ResultsTyped DEF TypeOK, LongTaskWakes, Return, world
    <2>2. Progress'
      BY <1>3 DEF Progress, ResultTrue, LongTaskWakes, Return, Ok, world
    <2>3. ReportTrue'
      BY <1>3 DEF Progress, ReportTrue, LongTaskWakes, Return, world
    <2> QED
      BY <2>1, <2>2, <2>3
  <1>4. ASSUME ApiStart PROVE Inv'
    <2>1. TypeOK'
      BY <1>4, ResultsTyped DEF TypeOK, ApiStart, Return, world
    <2>2. Progress'
      <3>1. CASE payload.url = "given"
        BY <1>4, <3>1 DEF Progress, ApiStart, world
      <3>2. CASE payload.url # "given"
        <4>1. /\ result' = Failed /\ pc' = "returned" /\ status' = status
              /\ pc = "dispatch" /\ child = "none" /\ child' = child
          BY <1>4, <3>2 DEF Progress, ApiStart, Return, world
        <4>2. ResultTrue'
          BY <4>1 DEF ResultTrue, Failed
        <4> QED
          BY <4>1, <4>2, ReturnKeepsProgress
      <3> QED
        BY <3>1, <3>2
    <2>3. ReportTrue'
      BY <1>4 DEF Progress, ReportTrue, ApiStart, Return, world
    <2> QED
      BY <2>1, <2>2, <2>3
  <1>5. ASSUME ProgramChecks PROVE Inv'
    <2>1. ReportTrue'
      BY <1>5 DEF Progress, ReportTrue, ProgramChecks, Return, world
    <2> DEFINE refused == Missing \/ ~Resolves(payload.working_dir) \/ BadCommand
    <2>a. CASE refused
      <3>1. TypeOK'
        BY <1>5, <2>a, ResultsTyped DEF TypeOK, ProgramChecks, Return, world
      <3>2. Progress'
        <4>1. /\ result' = Failed /\ pc' = "returned" /\ status' = status
              /\ pc = "dispatch" /\ child = "none" /\ child' = child
          BY <1>5, <2>a DEF Progress, ProgramChecks, Return, world
        <4>2. ResultTrue'
          BY <4>1 DEF ResultTrue, Failed
        <4> QED
          BY <4>1, <4>2, ReturnKeepsProgress
      <3> QED
        BY <2>1, <3>1, <3>2
    <2>b. CASE ~refused
      <3>1. TypeOK'
        BY <1>5, <2>b DEF TypeOK, ProgramChecks, world
      <3>2. Progress'
        BY <1>5, <2>b DEF Progress, ProgramChecks, world
      <3> QED
        BY <2>1, <3>1, <3>2
    <2> QED
      BY <2>a, <2>b
  <1>6. ASSUME ProgramStarts PROVE Inv'
    <2>1. TypeOK'
      BY <1>6 DEF TypeOK, ProgramStarts
    <2>2. Progress'
      BY <1>6 DEF Progress, ResultTrue, ProgramStarts, world
    <2>3. ReportTrue'
      BY <1>6 DEF Progress, ReportTrue, ProgramStarts, world
    <2> QED
      BY <2>1, <2>2, <2>3
  <1>7. ASSUME StartRaises PROVE Inv'
    <2>1. TypeOK'
      BY <1>7 DEF TypeOK, StartRaises, Raise, world
    <2>2. Progress'
      BY <1>7 DEF Progress, ResultTrue, StartRaises, Raise, world
    <2>3. ReportTrue'
      BY <1>7 DEF Progress, ReportTrue, StartRaises, Raise, world
    <2> QED
      BY <2>1, <2>2, <2>3
  <1>8. ASSUME CommunicateReturns PROVE Inv'
    <2>1. TypeOK'
      BY <1>8, ResultsTyped DEF TypeOK, CommunicateReturns, Return, world
    <2>2. Progress'
      BY <1>8 DEF Progress, ResultTrue, CommunicateReturns, Return, ProgramResult, world
    <2>3. ReportTrue'
      BY <1>8 DEF Progress, ReportTrue, CommunicateReturns, Return, world
    <2> QED
      BY <2>1, <2>2, <2>3
  <1>9. ASSUME TimeoutFires PROVE Inv'
    <2>1. TypeOK'
      BY <1>9, ResultsTyped DEF TypeOK, TimeoutFires, Return, Raise, world
    <2>2. Progress'
      <3>a. /\ pc = "program" /\ action' \in Programs /\ status' = status
            /\ child' # "alive" /\ ~(elapsed' < Timeout) /\ elapsed' >= Timeout
        <4>1. elapsed \in Nat /\ Timeout \in Nat
          BY TimesTyped
        <4>2. pc = "program" /\ action' = action /\ status' = status
          BY <1>9 DEF TimeoutFires
        <4>3. child' # "alive"
          BY <1>9 DEF TimeoutFires
        <4>4. elapsed' = elapsed /\ elapsed >= Timeout
          BY <1>9 DEF TimeoutFires
        <4> QED
          BY <4>1, <4>2, <4>3, <4>4 DEF Progress
      <3>1. CASE child = "exited" /\ pipes = "own"
        <4>1. pc' = "raised"
          BY <1>9, <3>1 DEF TimeoutFires, Raise
        <4> QED
          BY <3>a, <4>1 DEF Progress
      <3>2. CASE ~(child = "exited" /\ pipes = "own")
        <4>1. pc' = "returned" /\ result' = TimedOut
          BY <1>9, <3>2 DEF TimeoutFires, Return
        <4>2. ResultTrue'
          BY <3>a, <4>1 DEF ResultTrue, TimedOut
        <4> QED
          BY <3>a, <4>1, <4>2, ReturnKeepsProgress
      <3> QED
        BY <3>1, <3>2
    <2>3. ReportTrue'
      BY <1>9 DEF Progress, ReportTrue, TimeoutFires, Return, Raise, world
    <2> QED
      BY <2>1, <2>2, <2>3
  <1>10. ASSUME HandleResult PROVE Inv'
    <2>1. TypeOK'
      BY <1>10 DEF TypeOK, HandleResult, world, FinishStatus
    <2>2. Progress'
      BY <1>10 DEF Progress, ResultTrue, HandleResult, world
    <2>3. ReportTrue'
      <3>1. /\ action' = action /\ child' = child /\ code' = code /\ printed' = printed
            /\ reply' = reply /\ elapsed' = elapsed /\ status' = FinishStatus
        BY <1>10 DEF HandleResult, world
      <3>2. ResultTrue
        BY <1>10 DEF Progress, HandleResult
      <3>3. /\ status' = "success" => result.kind = "success"
            /\ status' = "awaiting_result" => result.kind = "awaiting"
            /\ status' = "timeout" =>
                result.kind # "awaiting" /\ result.stderr = "timeout after"
            /\ result.kind = "success" /\ result.stderr = "text" => status' = "success"
        <4>1. CASE result.kind = "awaiting"
          BY <3>1, <4>1 DEF FinishStatus
        <4>2. CASE result.kind # "awaiting" /\ result.stderr = "timeout after"
          BY <3>1, <4>2 DEF FinishStatus
        <4>3. CASE result.kind = "success" /\ result.stderr # "timeout after"
          BY <3>1, <4>3 DEF FinishStatus
        <4>4. CASE /\ result.kind \notin {"awaiting", "success"}
                   /\ result.stderr # "timeout after"
          BY <3>1, <4>4 DEF FinishStatus
        <4> QED
          BY <4>1, <4>2, <4>3, <4>4
      <3> QED
        BY <3>1, <3>2, <3>3 DEF ReportTrue, ResultTrue
    <2> QED
      BY <2>1, <2>2, <2>3
  <1>11. ASSUME HandleException PROVE Inv'
    <2>1. TypeOK'
      BY <1>11 DEF TypeOK, HandleException, world
    <2>2. Progress'
      BY <1>11 DEF Progress, ResultTrue, HandleException, world
    <2>3. ReportTrue'
      BY <1>11 DEF Progress, ReportTrue, HandleException, world
    <2> QED
      BY <2>1, <2>2, <2>3
  <1>12. ASSUME ProgramForks PROVE Inv'
    <2>1. TypeOK'
      BY <1>12 DEF TypeOK, ProgramForks, world
    <2>2. Progress'
      BY <1>12 DEF Progress, ResultTrue, ProgramForks, world
    <2>3. ReportTrue'
      BY <1>12 DEF Progress, ReportTrue, ProgramForks, world
    <2> QED
      BY <2>1, <2>2, <2>3
  <1>13. ASSUME ProgramExits PROVE Inv'
    <2>1. TypeOK'
      BY <1>13 DEF TypeOK, ProgramExits, world
    <2>2. Progress'
      BY <1>13 DEF Progress, ResultTrue, ProgramExits, world
    <2>3. ReportTrue'
      BY <1>13 DEF Progress, ReportTrue, ProgramExits, world
    <2> QED
      BY <2>1, <2>2, <2>3
  <1>14. ASSUME HeirsEnd PROVE Inv'
    <2>1. TypeOK'
      BY <1>14, ZenonT(60) DEF TypeOK, HeirsEnd, world
    <2>2. Progress'
      BY <1>14 DEF Progress, ResultTrue, HeirsEnd, world
    <2>3. ReportTrue'
      BY <1>14 DEF Progress, ReportTrue, HeirsEnd, world
    <2> QED
      BY <2>1, <2>2, <2>3
  <1>15. ASSUME Tick PROVE Inv'
    <2>1. TypeOK'
      <3>1. elapsed' \in 0..MaxTime
        <4>1. elapsed \in Nat /\ elapsed < MaxTime /\ elapsed' = elapsed + 1
          <5>1. /\ elapsed \in Nat /\ Timeout \in Nat /\ LoopDelay \in Nat /\ MaxTime \in Nat
                /\ MaxTime >= Timeout + LoopDelay
            BY TimesTyped
          <5>2. elapsed < Timeout + LoopDelay \/ elapsed < MaxTime
            BY <1>15 DEF Tick
          <5>3. elapsed' = elapsed + 1
            BY <1>15 DEF Tick
          <5> QED
            BY <5>1, <5>2, <5>3
        <4> QED
          BY <4>1, ExecutorAssumption
      <3> QED
        BY <1>15, <3>1, ZenonT(60) DEF TypeOK, Tick, world
    <2>2. Progress'
      BY <1>15 DEF Progress, ResultTrue, Tick, world
    <2>3. ReportTrue'
      BY <1>15 DEF Progress, ReportTrue, Tick, world
    <2> QED
      BY <2>1, <2>2, <2>3
  <1>16. ASSUME NEW a \in {"ok", "id", "error", "broken"}, ApiAnswer(a) PROVE Inv'
    <2>1. TypeOK'
      BY <1>16, ResultsTyped DEF TypeOK, ApiAnswer, ApiResult, Return, Raise, world
    <2>2. Progress'
      <3>1. /\ pc = "request" /\ action \in Api /\ child = "none" /\ status' = status
            /\ child' = child /\ action' = action /\ reply' = a
        BY <1>16 DEF Progress, ApiAnswer
      <3>2. CASE action = "api_call" /\ a = "broken"
        BY <1>16, <3>1, <3>2 DEF Progress, ApiAnswer, ApiResult, Raise
      <3>3. CASE action = "api_call" /\ a # "broken"
        <4>1. /\ pc' = "returned" /\ result' \in {Ok, Failed}
              /\ result' = Ok => a \in {"ok", "id"}
          BY <1>16, <3>3 DEF ApiAnswer, ApiResult, Return, Ok, Failed
        <4>2. ResultTrue'
          <5>1. CASE result' = Ok
            BY <3>1, <3>3, <4>1, <5>1 DEF ResultTrue, Ok
          <5>2. CASE result' = Failed
            BY <3>1, <5>2 DEF ResultTrue, Failed
          <5> QED
            BY <4>1, <5>1, <5>2
        <4> QED
          BY <3>1, <4>1, <4>2, ReturnKeepsProgress
      <3>4. CASE action = "api_poll"
        <4>1. /\ pc' = "returned" /\ result' \in {Accepted, Failed}
              /\ result' = Accepted => a = "id"
          BY <1>16, <3>4 DEF ApiAnswer, ApiResult, Return, Accepted, Failed
        <4>2. ResultTrue'
          <5>1. CASE result' = Accepted
            BY <3>1, <3>4, <4>1, <5>1 DEF ResultTrue, Accepted
          <5>2. CASE result' = Failed
            BY <3>1, <5>2 DEF ResultTrue, Failed
          <5> QED
            BY <4>1, <5>1, <5>2
        <4> QED
          BY <3>1, <4>1, <4>2, ReturnKeepsProgress
      <3> QED
        BY <3>1, <3>2, <3>3, <3>4 DEF Api
    <2>3. ReportTrue'
      BY <1>16 DEF Progress, ReportTrue, ApiAnswer, ApiResult, Return, Raise, world
    <2> QED
      BY <2>1, <2>2, <2>3
  <1>17. ASSUME UNCHANGED vars PROVE Inv'
    <2>1. TypeOK'
      BY <1>17, ZenonT(60) DEF vars, TypeOK
    <2>2. Progress'
      BY <1>17 DEF vars, Progress, ResultTrue
    <2>3. ReportTrue'
      BY <1>17 DEF vars, ReportTrue
    <2> QED
      BY <2>1, <2>2, <2>3
  <1>18. ASSUME ReportFails PROVE Inv'
    <2>1. TypeOK'
      BY <1>18, ZenonT(60) DEF TypeOK, ReportFails, world
    <2>2. Progress'
      BY <1>18 DEF Progress, ResultTrue, ReportFails, world
    <2>3. ReportTrue'
      BY <1>18 DEF Progress, ReportTrue, ReportFails, world
    <2> QED
      BY <2>1, <2>2, <2>3
  <1> QED
    BY <1>1, <1>2, <1>3, <1>4, <1>5, <1>6, <1>7, <1>8, <1>9, <1>10, <1>11, <1>12, <1>13,
       <1>14, <1>15, <1>16, <1>17, <1>18
       DEF Next, Worker, World

LEMMA Invariance == Spec => []Inv
  BY InitInv, StepInv, PTL DEF Spec

(* The variables of an execution keep their types, for every action,         *)
(* payload, timeout and delay of the event loop.                             *)
THEOREM ExecutorTypes == Spec => []TypeOK
  <1>1. Inv => TypeOK
    BY DEF Inv
  <1> QED
    BY <1>1, Invariance, PTL

(* The status that run_job_task reports agrees with what the program or the  *)
(* service did, whichever of an exit, a timeout and an exception comes first. *)
THEOREM ReportsTrue == Spec => []ReportTrue
  <1>1. Inv => ReportTrue
    BY DEF Inv
  <1> QED
    BY <1>1, Invariance, PTL

(* The worker is not done with a run, whether its report succeeds or fails,    *)
(* while the process it started is alive.                                     *)
THEOREM ProcessEnded == Spec => []NoProcessLeft
  <1>1. Inv => NoProcessLeft
    BY DEF Inv, Progress, NoProcessLeft
  <1> QED
    BY <1>1, Invariance, PTL
=============================================================================
