------------------------ MODULE JobDefinitionProofs ------------------------
(***************************************************************************)
(* Proofs about JobDefinition, for all sets of scripts, URLs, schedules and  *)
(* API requests.                                                            *)
(*                                                                         *)
(* The invariant behind the theorems is OneScript, the two places that       *)
(* action_payload has for a script hold the same, as long as no request      *)
(* replaces action_payload as a whole, and, while the action of the job has   *)
(* not been changed either, OneAction: the two columns for the action agree   *)
(* and a script in the column script is in action_payload too.              *)
(***************************************************************************)
EXTENDS JobDefinition, TLAPS

OneScript(j) == j.payload.script = j.payload.content

OneAction(j) ==
    /\ j.task_type = j.action_type
    /\ j.action_type \in ScriptActions /\ Truthy(j.script) => Truthy(j.payload.content)

Inv ==
    /\ TypeOK
    /\ job # NULL /\ edited # "replaced" => OneScript(job)
    /\ job # NULL /\ edited \in {"no", "kept"} => OneAction(job)
    /\ CreatedFormExecuted

\* the fields of a form for a script hold scripts
LEMMA FieldTexts ==
    /\ {Line[s] : s \in Scripts} \subseteq Scripts \cup {""}
    /\ {Area[s] : s \in Scripts} \subseteq Scripts \cup {""}
  BY FieldAssumption

LEMMA FormTexts ==
    ASSUME NEW f \in Form
    PROVE  /\ f.shell_script \in Scripts \cup {""}
           /\ f.script_content \in Scripts \cup {""}
  BY FieldTexts DEF Form

LEMMA FormSent ==
    ASSUME NEW f \in Form
    PROVE  LET d == PrepareJobPayload(f) IN
           /\ d.action = f.action /\ d.task_type = Unset /\ d.api_url = f.api_url
           /\ d.script = Unset /\ d.shell_script = f.shell_script
           /\ d.script_content = f.script_content
           /\ d.schedule_type = f.schedule_type /\ d.cron_expression = f.cron_expression
           /\ d.interval_seconds = f.interval_seconds
           /\ d.action_payload = Unset
           /\ d \in Request
  BY FieldTexts DEF Form, PrepareJobPayload, Nothing, Request, Text

\* reading a rule into the form and resolving the form gives the rule back
LEMMA RuleKept ==
    ASSUME NEW rule \in Rules, Readable(rule), NEW current,
           NEW d, d.schedule_type = ScheduleType(rule),
           d.cron_expression = Shown(CronExpression(rule)),
           d.interval_seconds = IntervalSeconds(rule)
    PROVE  ResolveScheduleRule(d, current) = rule
  <1>1. CASE rule = <<"manual">>
    BY <1>1 DEF ScheduleType, ResolveScheduleRule
  <1>2. ASSUME NEW n \in Intervals \cup {NULL}, rule = <<"every", n>>
        PROVE  ResolveScheduleRule(d, current) = rule
    BY <1>2, JobDefinitionAssumption
      DEF ScheduleType, IntervalSeconds, ResolveScheduleRule, Given
  <1>3. ASSUME NEW e \in Crons \cup {""}, rule = <<"cron", e>>
        PROVE  ResolveScheduleRule(d, current) = rule
    BY <1>3, JobDefinitionAssumption
      DEF ScheduleType, CronExpression, ResolveScheduleRule, Shown, Or, Truthy
  <1> QED
    BY <1>1, <1>2, <1>3 DEF Rules

LEMMA RuleTyped ==
    ASSUME NEW d \in Request, NEW current \in Rules
    PROVE  ResolveScheduleRule(d, current) \in Rules
  BY JobDefinitionAssumption
    DEF Request, ResolveScheduleRule, Rules, Or, Truthy, Given, ScheduleTypes

-----------------------------------------------------------------------------
(* create_job.                                                             *)

LEMMA CreatedTyped ==
    ASSUME NEW f \in Form
    PROVE  /\ CreatedJob(PrepareJobPayload(f)) \in Job
           /\ OneScript(CreatedJob(PrepareJobPayload(f)))
  <1> DEFINE d == PrepareJobPayload(f)
             text == CreatedScript(d)
  <1>1. /\ d.action = f.action /\ d.task_type = Unset /\ d.api_url = f.api_url
        /\ d.script = Unset /\ d.shell_script = f.shell_script
        /\ d.script_content = f.script_content /\ d \in Request
    BY FormSent
  <1>2. /\ f.action \in Actions /\ f.api_url \in Urls \cup {""}
        /\ f.shell_script \in Scripts \cup {""} /\ f.script_content \in Scripts \cup {""}
    BY FormTexts DEF Form
  <1>3. ResolveScheduleRule(d, <<"manual">>) \in Rules
    BY <1>1, RuleTyped DEF Rules
  <1>4. SyncedScript(d) \in Text /\ text \in Text
    BY <1>1, <1>2, JobDefinitionAssumption DEF SyncedScript, CreatedScript, Given, Or, Text
  <1>5. Given(d.action, Given(d.task_type, "api_call")) = f.action
    BY <1>1, <1>2, JobDefinitionAssumption DEF Given
  <1>6. Given(d.task_type, f.action) = f.action
    BY <1>1 DEF Given
  <1> DEFINE p == CASE f.action = "api_call" /\ Truthy(d.api_url) ->
                        [NoPayload EXCEPT !.url = d.api_url]
                    [] f.action \in ScriptActions /\ Truthy(text) ->
                        [NoPayload EXCEPT !.script = text, !.content = text]
                    [] OTHER -> NoPayload
  <1>7. p \in Payload /\ p.script = p.content
    <2>1. CASE f.action = "api_call" /\ Truthy(d.api_url)
      <3>1. p = [NoPayload EXCEPT !.url = d.api_url]
        BY <2>1 DEF ScriptActions
      <3>2. d.api_url \in Urls \cup {NULL, ""}
        BY <1>1, <1>2
      <3> HIDE DEF p, d
      <3> QED
        BY <3>1, <3>2 DEF NoPayload, Payload, Text
    <2>2. CASE f.action \in ScriptActions /\ Truthy(text)
      <3>1. p = [NoPayload EXCEPT !.script = text, !.content = text]
        BY <2>2 DEF ScriptActions
      <3> HIDE DEF p, d, text
      <3> QED
        BY <1>4, <3>1 DEF NoPayload, Payload, Text
    <2>3. CASE /\ ~(f.action = "api_call" /\ Truthy(d.api_url))
               /\ ~(f.action \in ScriptActions /\ Truthy(text))
      <3>1. p = NoPayload
        BY <2>3
      <3> QED
        BY <3>1 DEF NoPayload, Payload, Text
    <2> QED
      BY <2>1, <2>2, <2>3
  <1>8. CreatedJob(d) = [task_type |-> f.action, action_type |-> f.action,
                         script |-> SyncedScript(d), payload |-> p,
                         rule |-> ResolveScheduleRule(d, <<"manual">>)]
    BY <1>5, <1>6 DEF CreatedJob
  <1>9. CreatedJob(d) \in Job /\ OneScript(CreatedJob(d))
    <2> DEFINE k == [task_type |-> f.action, action_type |-> f.action,
                     script |-> SyncedScript(d), payload |-> p,
                     rule |-> ResolveScheduleRule(d, <<"manual">>)]
    <2>1. k \in Job
      <3> HIDE DEF p, text, d
      <3> QED
        BY <1>2, <1>3, <1>4, <1>7 DEF Job
    <2>2. k.payload = p
      <3> HIDE DEF p
      <3> QED
        OBVIOUS
    <2>3. CreatedJob(d) = k
      BY <1>8
    <2> HIDE DEF p, k, d
    <2> QED
      BY <1>7, <2>1, <2>2, <2>3 DEF OneScript
  <1> QED
    BY <1>9

LEMMA CreatedExecuted ==
    ASSUME NEW f \in Form
    PROVE  Executed(NewRun(CreatedJob(PrepareJobPayload(f)))) = Asked(f)
  <1> DEFINE d == PrepareJobPayload(f)
             j == CreatedJob(d)
             text == CreatedScript(d)
  <1>1. /\ d.action = f.action /\ d.task_type = Unset /\ d.api_url = f.api_url
        /\ d.script = Unset /\ d.shell_script = f.shell_script
        /\ d.script_content = f.script_content
    BY FormSent
  <1>2. /\ f.action \in Actions /\ f.api_url \in Urls \cup {""}
        /\ f.shell_script \in Scripts \cup {""} /\ f.script_content \in Scripts \cup {""}
        /\ f.action \in ScriptActions \cup {"api_call"} /\ Truthy(f.action)
    BY FormTexts, JobDefinitionAssumption DEF Form, ScriptActions, Truthy
  <1>3. SyncedScript(d) = f.script_content
    BY <1>1, <1>2, JobDefinitionAssumption DEF SyncedScript, Given
  <1>4. Given(d.action, Given(d.task_type, "api_call")) = f.action
    BY <1>1, <1>2, JobDefinitionAssumption DEF Given
  <1>5. j.task_type = f.action /\ j.action_type = f.action /\ j.script = f.script_content
    BY <1>1, <1>3, <1>4 DEF CreatedJob, Given
  <1>6. text = Or(f.script_content, Or(f.shell_script, f.script_content))
    BY <1>1, <1>3 DEF CreatedScript
  <1>7. f.script_content # NULL
    BY <1>2, JobDefinitionAssumption
  <1>a. CASE f.action = "api_call"
    <2>1. Or(j.payload.url, NULL) = Or(f.api_url, NULL)
      <3>1. CASE Truthy(f.api_url)
        BY <1>1, <1>4, <1>a, <3>1 DEF CreatedJob, NoPayload, ScriptActions, Or
      <3>2. CASE ~Truthy(f.api_url)
        BY <1>1, <1>4, <1>a, <3>2 DEF CreatedJob, NoPayload, ScriptActions, Or
      <3> QED
        BY <3>1, <3>2
    <2>2. "api_call" \notin ScriptActions
      BY DEF ScriptActions
    <2>3. NewRun(j).task_type = "api_call" /\ NewRun(j).script # NULL
          /\ NewRun(j).payload = j.payload
      BY <1>5, <1>7, <1>a DEF NewRun
    <2>4. PreparePayload(NewRun(j)).url = j.payload.url
      <3>1. DOMAIN j.payload = {"script", "content", "url"}
        BY CreatedTyped DEF Job, Payload
      <3> QED
        BY <2>3, <3>1, CreatedTyped DEF PreparePayload, Job, Payload
    <2>5. Executed(NewRun(j)) = <<"api_call", Or(j.payload.url, NULL)>>
      BY <1>2, <1>a, <2>2, <2>3, <2>4 DEF Executed, Or
    <2>6. Asked(f) = <<"api_call", Or(f.api_url, NULL)>>
      BY <1>a, <2>2 DEF Asked
    <2> QED
      BY <2>1, <2>5, <2>6
  <1>b. CASE f.action \in ScriptActions
    <2>1. "api_call" \notin ScriptActions
      BY DEF ScriptActions
    <2>2. Or(j.payload.content, f.script_content) = Or(f.script_content, f.shell_script)
      <3>1. CASE Truthy(text)
        <4>1. j.payload = [NoPayload EXCEPT !.script = text, !.content = text]
          BY <1>4, <1>b, <2>1, <3>1 DEF CreatedJob
        <4>2. j.payload.content = text
          BY <4>1 DEF NoPayload
        <4> HIDE DEF j, text
        <4> QED
          BY <1>2, <1>6, <3>1, <4>2 DEF Or, Truthy
      <3>2. CASE ~Truthy(text)
        <4>1. j.payload.content = NULL
          BY <1>4, <1>b, <2>1, <3>2 DEF CreatedJob, NoPayload
        <4>2. f.script_content = "" /\ f.shell_script = ""
          <5> HIDE DEF j, text
          <5> QED
            BY <1>2, <1>6, <3>2, JobDefinitionAssumption DEF Or, Truthy
        <4> HIDE DEF j, text
        <4> QED
          BY <4>1, <4>2 DEF Or, Truthy
      <3> QED
        BY <3>1, <3>2
    <2>3. NewRun(j).task_type = f.action /\ NewRun(j).script = f.script_content
          /\ NewRun(j).payload = j.payload
      BY <1>5 DEF NewRun
    <2>4. /\ PreparePayload(NewRun(j)).content = j.payload.content
          /\ PreparePayload(NewRun(j)).script = f.script_content
      <3>1. j.payload \in Payload
        BY CreatedTyped DEF Job
      <3> HIDE DEF j
      <3> QED
        BY <1>7, <2>3, <3>1 DEF PreparePayload, Payload
    <2>5. Executed(NewRun(j)) = <<f.action, Or(Or(j.payload.content, f.script_content), NULL)>>
      <3> HIDE DEF j
      <3> QED
        BY <1>2, <1>b, <2>3, <2>4 DEF Executed, Or
    <2>6. Asked(f) = <<f.action, Or(Or(f.script_content, f.shell_script), NULL)>>
      BY <1>b DEF Asked
    <2> QED
      BY <2>2, <2>5, <2>6
  <1> QED
    BY <1>2, <1>a, <1>b

LEMMA CreatedOneAction ==
    ASSUME NEW f \in Form
    PROVE  OneAction(CreatedJob(PrepareJobPayload(f)))
  <1> DEFINE d == PrepareJobPayload(f)
             text == CreatedScript(d)
             j == CreatedJob(d)
  <1>1. d.action = f.action /\ d.task_type = Unset /\ f.action \in Actions
    BY FormSent DEF Form
  <1>2. Given(d.action, Given(d.task_type, "api_call")) = f.action
    BY <1>1, JobDefinitionAssumption DEF Given
  <1>3. j.task_type = f.action /\ j.action_type = f.action /\ j.script = SyncedScript(d)
    BY <1>1, <1>2 DEF CreatedJob, Given
  <1>4. ASSUME f.action \in ScriptActions, Truthy(SyncedScript(d))
        PROVE  Truthy(j.payload.content)
    <2>1. text = SyncedScript(d)
      BY <1>4 DEF CreatedScript, Or
    <2>2. j.payload = [NoPayload EXCEPT !.script = text, !.content = text]
      BY <1>2, <1>4, <2>1 DEF CreatedJob, ScriptActions
    <2> HIDE DEF d, text, j
    <2> QED
      BY <1>4, <2>1, <2>2 DEF NoPayload
  <1> HIDE DEF d, j
  <1>5. OneAction(j)
    BY <1>3, <1>4 DEF OneAction
  <1> QED
    BY <1>5 DEF j, d

-----------------------------------------------------------------------------
(* update_job.                                                             *)

LEMMA RebuiltTyped ==
    ASSUME NEW p \in Payload, NEW action \in Actions, NEW d \in Request
    PROVE  LET q == RebuildActionPayload(p, action, d) IN
           q \in Payload /\ (p.script = p.content => q.script = q.content)
  <1> DEFINE q == RebuildActionPayload(p, action, d)
             text == UpdatedScript(d)
  <1> SUFFICES q \in Payload /\ (p.script = p.content => q.script = q.content)
    OBVIOUS
  <1>1. /\ d.script \in Text \cup {Unset} /\ d.shell_script \in Text \cup {Unset}
        /\ d.script_content \in Text \cup {Unset}
        /\ d.api_url \in Urls \cup {NULL, "", Unset}
    BY DEF Request
  <1>2. CASE action = "api_call"
    <2>1. q = [p EXCEPT !.url = Given(d.api_url, p.url)]
      BY <1>2 DEF RebuildActionPayload, ScriptActions
    <2>2. Given(d.api_url, p.url) \in Urls \cup {NULL, ""}
      BY <1>1 DEF Given, Payload
    <2> HIDE DEF q
    <2> QED
      BY <2>1, <2>2 DEF Payload
  <1>3. CASE action \in ScriptActions /\ Truthy(text)
    <2>1. q = [p EXCEPT !.script = text, !.content = text]
      BY <1>3 DEF RebuildActionPayload, ScriptActions
    <2>2. text \in Text
      BY <1>1, <1>3 DEF UpdatedScript, Or, Truthy, Text
    <2> HIDE DEF q, text
    <2> QED
      BY <2>1, <2>2 DEF Payload
  <1>4. CASE action # "api_call" /\ ~(action \in ScriptActions /\ Truthy(text))
    BY <1>4 DEF RebuildActionPayload
  <1> QED
    BY <1>2, <1>3, <1>4

LEMMA UpdatedTyped ==
    ASSUME NEW j \in Job, NEW d \in Request
    PROVE  /\ UpdatedJob(j, d) \in Job
           /\ OneScript(j) /\ d.action_payload = Unset => OneScript(UpdatedJob(j, d))
  <1> DEFINE action == Given(d.action, j.action_type)
             q == SyncActionPayload(j.payload, action, d)
             k == [task_type |-> Given(d.task_type, j.task_type), action_type |-> action,
                   script |-> Given(d.script, j.script), payload |-> q,
                   rule |-> ResolveScheduleRule(d, j.rule)]
  <1>1. /\ j.task_type \in Actions /\ j.action_type \in Actions /\ j.script \in Text
        /\ j.payload \in Payload /\ j.rule \in Rules
    BY DEF Job
  <1>2. action \in Actions /\ Given(d.task_type, j.task_type) \in Actions
    BY <1>1 DEF Given, Request
  <1>3. Given(d.script, j.script) \in Text
    BY <1>1 DEF Given, Request
  <1>4. q \in Payload /\ (OneScript(j) /\ d.action_payload = Unset => q.script = q.content)
    <2> HIDE DEF action
    <2>1. CASE d.action_payload = Unset
      <3>1. q = RebuildActionPayload(j.payload, action, d)
        BY <2>1 DEF SyncActionPayload
      <3> HIDE DEF q
      <3> QED
        BY <1>1, <1>2, <3>1, RebuiltTyped DEF OneScript
    <2>2. CASE d.action_payload # Unset
      <3>1. q = IF d.action_payload = NULL THEN NoPayload ELSE d.action_payload
        BY <2>2 DEF SyncActionPayload
      <3>2. NoPayload \in Payload
        BY DEF NoPayload, Payload, Text
      <3>3. d.action_payload \in Payload \cup {NULL}
        BY <2>2 DEF Request
      <3> HIDE DEF q
      <3> QED
        BY <2>2, <3>1, <3>2, <3>3
    <2> QED
      BY <2>1, <2>2
  <1>5. ResolveScheduleRule(d, j.rule) \in Rules
    BY <1>1, RuleTyped
  <1>6. k \in Job /\ k.payload = q
    <2> HIDE DEF q, action
    <2> QED
      BY <1>2, <1>3, <1>4, <1>5 DEF Job
  <1>7. UpdatedJob(j, d) = k
    BY DEF UpdatedJob
  <1> HIDE DEF k, q
  <1> QED
    BY <1>4, <1>6, <1>7 DEF OneScript

LEMMA UpdatedOneAction ==
    ASSUME NEW j \in Job, OneAction(j), NEW d \in Request,
           d.action_payload = Unset, UpdatedJob(j, d).action_type = j.action_type,
           UpdatedJob(j, d).task_type = j.task_type
    PROVE  OneAction(UpdatedJob(j, d))
  <1> DEFINE k == UpdatedJob(j, d)
             text == UpdatedScript(d)
  <1>1. /\ k.script = Given(d.script, j.script)
        /\ k.payload = RebuildActionPayload(j.payload, j.action_type, d)
    BY DEF UpdatedJob, SyncActionPayload
  <1>2. ASSUME j.action_type \in ScriptActions, Truthy(k.script)
        PROVE  Truthy(k.payload.content)
    <2>1. j.payload \in Payload /\ j.action_type # "api_call"
      BY <1>2 DEF Job, ScriptActions
    <2>2. CASE Truthy(text)
      <3>1. k.payload = [j.payload EXCEPT !.script = text, !.content = text]
        BY <1>1, <1>2, <2>1, <2>2 DEF RebuildActionPayload
      <3> HIDE DEF k, text
      <3> QED
        BY <2>1, <2>2, <3>1 DEF Payload
    <2>3. CASE ~Truthy(text)
      <3>1. k.payload = j.payload
        BY <1>1, <1>2, <2>1, <2>3 DEF RebuildActionPayload
      <3>2. ~Truthy(d.script)
        BY <2>3 DEF UpdatedScript, Or
      <3>3. Truthy(j.script)
        BY <1>1, <1>2, <3>2 DEF Given
      <3> QED
        BY <1>2, <3>1, <3>3 DEF OneAction
    <2> QED
      BY <2>2, <2>3
  <1> HIDE DEF k
  <1> QED
    BY <1>2 DEF OneAction, k

LEMMA RuleShown ==
    ASSUME NEW rule \in Rules
    PROVE  /\ ScheduleType(rule) \in ScheduleTypes
           /\ Shown(CronExpression(rule)) \in Crons \cup {""}
           /\ IntervalSeconds(rule) \in Intervals \cup {NULL}
  <1>1. CASE rule = <<"manual">>
    BY <1>1 DEF ScheduleType, CronExpression, IntervalSeconds, ScheduleTypes, Shown, Or, Truthy
  <1>2. ASSUME NEW n \in Intervals \cup {NULL}, rule = <<"every", n>>
        PROVE  /\ ScheduleType(rule) = "interval" /\ CronExpression(rule) = NULL
               /\ IntervalSeconds(rule) \in Intervals \cup {NULL}
    BY <1>2 DEF ScheduleType, CronExpression, IntervalSeconds
  <1>3. ASSUME NEW e \in Crons \cup {""}, rule = <<"cron", e>>
        PROVE  /\ ScheduleType(rule) = "cron" /\ CronExpression(rule) = e
               /\ IntervalSeconds(rule) = NULL
    BY <1>3 DEF ScheduleType, CronExpression, IntervalSeconds
  <1>4. \A e \in Crons \cup {NULL, ""} : Shown(e) \in Crons \cup {""}
    BY DEF Shown, Or, Truthy
  <1> QED
    BY <1>1, <1>2, <1>3, <1>4 DEF Rules, ScheduleTypes

\* the edit page shows a valid form
LEMMA ShownForm ==
    ASSUME NEW j \in Job, Readable(j.rule)
    PROVE  PrepareInitialData(j) \in Form
  <1> DEFINE f == PrepareInitialData(j)
  <1>1. /\ j.action_type \in Actions /\ j.payload \in Payload /\ j.rule \in Rules
    BY DEF Job
  <1>2. /\ Shown(j.payload.url) \in Urls \cup {""}
        /\ SentBack(Line, j.payload.script) \in {Line[s] : s \in Scripts} \cup {""}
        /\ SentBack(Area, j.payload.content) \in {Area[s] : s \in Scripts} \cup {""}
    BY <1>1 DEF Payload, Text, Shown, SentBack, Or, Truthy
  <1>3. /\ ScheduleType(j.rule) \in ScheduleTypes
        /\ Shown(CronExpression(j.rule)) \in Crons \cup {""}
        /\ IntervalSeconds(j.rule) \in Intervals \cup {NULL}
    BY <1>1, RuleShown
  <1> QED
    BY <1>1, <1>2, <1>3 DEF PrepareInitialData, Form

LEMMA NoopSave ==
    ASSUME NEW j \in Job, OneScript(j), Readable(j.rule)
    PROVE  LET saved == UpdatedJob(j, PrepareJobPayload(PrepareInitialData(j)))
               before == Executed(NewRun(j))
               after == Executed(NewRun(saved))
           IN /\ saved.rule = j.rule
              /\ \/ after = before
                 \/ before[2] \in Scripts /\ after = <<before[1], Line[before[2]]>>
  <1> DEFINE f == PrepareInitialData(j)
             d == PrepareJobPayload(f)
             saved == UpdatedJob(j, d)
             before == Executed(NewRun(j))
             after == Executed(NewRun(saved))
             scripted == j.action_type \in ScriptActions
  <1> SUFFICES /\ saved.rule = j.rule
               /\ \/ after = before
                  \/ before[2] \in Scripts /\ after = <<before[1], Line[before[2]]>>
    OBVIOUS
  <1>1. /\ j.task_type \in Actions /\ j.action_type \in Actions /\ j.script \in Text
        /\ j.payload \in Payload /\ j.rule \in Rules
    BY DEF Job
  <1>2. f \in Form
    BY ShownForm
  <1>3. /\ d.action = f.action /\ d.task_type = Unset /\ d.api_url = f.api_url
        /\ d.script = Unset /\ d.shell_script = f.shell_script
        /\ d.script_content = f.script_content /\ d.action_payload = Unset
        /\ d.schedule_type = f.schedule_type /\ d.cron_expression = f.cron_expression
        /\ d.interval_seconds = f.interval_seconds
    <2> HIDE DEF f
    <2> QED
      BY <1>2, FormSent
  <1>4. /\ f.action = j.action_type
        /\ f.api_url = IF scripted THEN "" ELSE Shown(j.payload.url)
        /\ f.shell_script = IF scripted THEN SentBack(Line, j.payload.script) ELSE ""
        /\ f.script_content = IF scripted THEN SentBack(Area, j.payload.content) ELSE ""
        /\ f.schedule_type = ScheduleType(j.rule)
        /\ f.cron_expression = Shown(CronExpression(j.rule))
        /\ f.interval_seconds = IntervalSeconds(j.rule)
    BY DEF PrepareInitialData
  <1> HIDE DEF f, d
  <1>5. ResolveScheduleRule(d, j.rule) = j.rule
    BY <1>1, <1>3, <1>4, RuleKept
  <1>6. Given(d.action, j.action_type) = j.action_type
    BY <1>3, <1>4 DEF Given
  <1>7. /\ saved.task_type = j.task_type /\ saved.action_type = j.action_type
        /\ saved.script = j.script /\ saved.rule = j.rule
        /\ saved.payload = RebuildActionPayload(j.payload, j.action_type, d)
    BY <1>3, <1>5, <1>6 DEF UpdatedJob, SyncActionPayload, Given
  <1>8. /\ NewRun(saved).task_type = j.task_type /\ NewRun(saved).script = j.script
        /\ NewRun(saved).action_type = j.action_type /\ NewRun(saved).payload = saved.payload
        /\ NewRun(j).task_type = j.task_type /\ NewRun(j).script = j.script
        /\ NewRun(j).action_type = j.action_type /\ NewRun(j).payload = j.payload
    BY <1>7 DEF NewRun
  <1> DEFINE p == PreparePayload(NewRun(saved))
             q == PreparePayload(NewRun(j))
             action == Or(j.task_type, j.action_type)
  <1>9. /\ action \in ScriptActions =>
               /\ after = <<action, Or(Or(p.content, p.script), NULL)>>
               /\ before = <<action, Or(Or(q.content, q.script), NULL)>>
        /\ action \notin ScriptActions =>
               after = <<action, Or(p.url, NULL)>> /\ before = <<action, Or(q.url, NULL)>>
    BY <1>8 DEF Executed
  <1> HIDE DEF saved, after, before
  <1>10. ASSUME saved.payload \in Payload
         PROVE  /\ p.content = saved.payload.content /\ p.url = saved.payload.url
                /\ q.content = j.payload.content /\ q.url = j.payload.url
                /\ saved.payload.script = j.payload.script => p.script = q.script
    BY <1>1, <1>8, <1>10 DEF PreparePayload, Payload
  <1> HIDE DEF p, q, action
  <1>11. CASE saved.payload = j.payload
    <2>1. p.content = q.content /\ p.url = q.url /\ p.script = q.script
      BY <1>1, <1>10, <1>11
    <2> QED
      BY <1>7, <1>9, <2>1
  <1>12. CASE scripted /\ Truthy(UpdatedScript(d))
    <2> DEFINE text == j.payload.script
    <2>1. saved.payload = [j.payload EXCEPT !.script = UpdatedScript(d),
                                            !.content = UpdatedScript(d)]
      BY <1>7, <1>12 DEF RebuildActionPayload, ScriptActions
    <2>2. text \in Text /\ text = j.payload.content
      BY <1>1 DEF Payload, OneScript
    <2>3. d.script = Unset /\ d.shell_script = SentBack(Line, text)
          /\ d.script_content = SentBack(Area, text)
      BY <1>3, <1>4, <1>12, <2>2
    <2> HIDE DEF text
    <2>4. text \in Scripts /\ Truthy(text) /\ UpdatedScript(d) = Line[text] /\ Line[text] # ""
      <3>1. ~Truthy(Unset) /\ ~Truthy("") /\ ~Truthy(NULL)
        BY DEF Truthy
      <3>2. UpdatedScript(d) = Or(SentBack(Line, text), SentBack(Area, text))
        BY <2>3, <3>1 DEF UpdatedScript, Or
      <3>3. Truthy(text)
        BY <1>12, <3>1, <3>2 DEF SentBack, Or
      <3>4. text \in Scripts
        BY <2>2, <3>3 DEF Text, Truthy
      <3>5. UpdatedScript(d) = Or(Line[text], Area[text])
        BY <3>2, <3>3 DEF SentBack
      <3>6. Line[text] # ""
        BY <1>12, <3>1, <3>4, <3>5, FieldAssumption DEF Or
      <3>7. Line[text] \in Scripts
        BY <3>4, <3>6, FieldAssumption
      <3>8. Truthy(Line[text])
        BY <3>7, JobDefinitionAssumption DEF Truthy
      <3> QED
        BY <3>3, <3>4, <3>5, <3>6, <3>8 DEF Or
    <2>5. /\ saved.payload \in Payload /\ saved.payload.content = Line[text]
          /\ saved.payload.url = j.payload.url
      <3>1. Line[text] \in Text
        BY <2>4, FieldAssumption DEF Text
      <3> QED
        BY <1>1, <2>1, <2>4, <3>1 DEF Payload
    <2>6. p.content = Line[text] /\ q.content = text /\ p.url = q.url
      BY <1>10, <2>2, <2>5
    <2>7. Truthy(Line[text])
      BY <1>12, <2>4
    <2>8. CASE action \in ScriptActions
      <3>1. after = <<action, Line[text]>> /\ before = <<action, text>>
        BY <1>9, <2>4, <2>6, <2>7, <2>8 DEF Or
      <3> QED
        BY <1>7, <2>4, <3>1
    <2>9. CASE action \notin ScriptActions
      BY <1>7, <1>9, <2>6, <2>9
    <2> QED
      BY <2>8, <2>9
  <1>13. CASE scripted /\ ~Truthy(UpdatedScript(d))
    <2>1. saved.payload = j.payload
      BY <1>7, <1>13 DEF RebuildActionPayload, ScriptActions
    <2> QED
      BY <1>11, <2>1
  <1>14. CASE ~scripted
    <2>1. j.action_type = "api_call" /\ "api_call" \notin ScriptActions
      BY <1>1, <1>14, JobDefinitionAssumption
    <2>2. d.api_url = Shown(j.payload.url) /\ d.api_url # Unset
      BY <1>2, <1>3, <1>4, <1>14, JobDefinitionAssumption DEF Form
    <2>3. saved.payload = [j.payload EXCEPT !.url = Shown(j.payload.url)]
      BY <1>7, <2>1, <2>2 DEF RebuildActionPayload, Given
    <2>4. Or(Shown(j.payload.url), NULL) = Or(j.payload.url, NULL)
      BY DEF Shown, Or, Truthy
    <2>5. Shown(j.payload.url) \in Urls \cup {NULL, ""}
      BY <1>1 DEF Shown, Or, Payload
    <2>6. /\ saved.payload \in Payload /\ saved.payload.url = Shown(j.payload.url)
          /\ saved.payload.script = j.payload.script
          /\ saved.payload.content = j.payload.content
      BY <1>1, <2>3, <2>5 DEF Payload
    <2>7. p.content = q.content /\ p.script = q.script /\ Or(p.url, NULL) = Or(q.url, NULL)
      BY <1>10, <2>4, <2>6
    <2> QED
      BY <1>7, <1>9, <2>7
  <1> QED
    BY <1>12, <1>13, <1>14

-----------------------------------------------------------------------------
(* retry_run.                                                              *)

LEMMA RetrySame ==
    ASSUME NEW j \in Job, OneScript(j), OneAction(j)
    PROVE  Executed(RetryRun(NewRun(j))) = Executed(NewRun(j))
  <1> DEFINE run == NewRun(j)
             retry == RetryRun(run)
             p == PreparePayload(run)
             q == PreparePayload(retry)
             action == j.action_type
  <1>1. /\ run.task_type = action /\ run.action_type = action
        /\ run.script = j.script /\ run.payload = j.payload
    BY DEF NewRun, OneAction
  <1>2. /\ retry.task_type = NULL /\ retry.action_type = action
        /\ retry.script = NULL /\ retry.payload = j.payload
    BY <1>1 DEF RetryRun
  <1>3. j.payload \in Payload /\ action \in Actions
    BY DEF Job
  <1>4. q = j.payload
    BY <1>2 DEF PreparePayload
  <1>5. /\ p.content = j.payload.content /\ p.url = j.payload.url
        /\ p.script = IF j.script # NULL THEN j.script ELSE j.payload.script
    <2> HIDE DEF run
    <2> QED
      BY <1>1, <1>3 DEF PreparePayload, Payload
  <1>6. Or(run.task_type, run.action_type) = action
        /\ Or(retry.task_type, retry.action_type) = action
    BY <1>1, <1>2 DEF Or, Truthy
  <1> HIDE DEF run, retry, p, q
  <1>7. CASE action \in ScriptActions
    <2>1. /\ Executed(run) = <<action, Or(Or(p.content, p.script), NULL)>>
          /\ Executed(retry) = <<action, Or(Or(q.content, q.script), NULL)>>
      BY <1>6, <1>7 DEF Executed, p, q
    <2>2. CASE Truthy(j.payload.content)
      BY <1>4, <1>5, <2>1, <2>2 DEF Or, run, retry
    <2>3. CASE ~Truthy(j.payload.content)
      <3>1. ~Truthy(p.script) /\ ~Truthy(q.script)
        BY <1>4, <1>5, <1>7, <2>3 DEF OneAction, OneScript
      <3> QED
        BY <1>4, <1>5, <2>1, <2>3, <3>1 DEF Or, run, retry
    <2> QED
      BY <2>2, <2>3
  <1>8. CASE action \notin ScriptActions
    <2>1. /\ Executed(run) = <<action, Or(p.url, NULL)>>
          /\ Executed(retry) = <<action, Or(q.url, NULL)>>
      BY <1>6, <1>8 DEF Executed, p, q
    <2> QED
      BY <1>4, <1>5, <2>1 DEF run, retry
  <1> QED
    BY <1>7, <1>8

-----------------------------------------------------------------------------
LEMMA InitInv == Init => Inv
  BY DEF Init, Inv, TypeOK, CreatedFormExecuted

LEMMA AskedTyped ==
    ASSUME NEW f \in Form
    PROVE  Asked(f) \in Actions \X (Scripts \cup Urls \cup {NULL})
  BY FormTexts DEF Asked, Form, Or, Truthy

LEMMA StepInv == Inv /\ [Next]_vars => Inv'
  <1> SUFFICES ASSUME Inv, [Next]_vars PROVE Inv'
    OBVIOUS
  <1> USE DEF Inv
  <1>1. ASSUME NEW f \in Form, CreateJob(f) PROVE Inv'
    <2>1. job' \in Job /\ OneScript(job') /\ OneAction(job')
      BY <1>1, CreatedTyped, CreatedOneAction DEF CreateJob
    <2>2. wanted' \in Actions \X (Scripts \cup Urls \cup {NULL}) /\ edited' = edited
      BY <1>1, AskedTyped DEF CreateJob
    <2>3. Executed(NewRun(job')) = wanted'
      BY <1>1, CreatedExecuted DEF CreateJob
    <2> QED
      BY <2>1, <2>2, <2>3 DEF TypeOK, CreatedFormExecuted
  <1>2. ASSUME NEW d \in Request, job # NULL, job' = UpdatedJob(job, d),
               edited' = Edited(job', d),
               wanted' \in (Actions \X (Scripts \cup Urls \cup {NULL})) \cup {NULL}
        PROVE  Inv'
    <2>1. job' \in Job
      BY <1>2, UpdatedTyped DEF TypeOK
    <2>2. edited' \in {"kept", "changed", "replaced"}
      BY <1>2 DEF Edited
    <2>3. edited' # "replaced" => OneScript(job')
      BY <1>2, UpdatedTyped DEF TypeOK, Edited
    <2>4. edited' = "kept" => OneAction(job')
      <3> SUFFICES ASSUME edited' = "kept" PROVE OneAction(job')
        OBVIOUS
      <3>1. /\ d.action_payload = Unset /\ edited \notin {"changed", "replaced"}
            /\ job'.action_type = job.action_type /\ job'.task_type = job.task_type
        BY <1>2 DEF Edited
      <3>2. edited \in {"no", "kept"}
        BY <3>1 DEF TypeOK
      <3>3. job \in Job /\ OneAction(job)
        BY <1>2, <3>2 DEF TypeOK
      <3> QED
        BY <1>2, <3>1, <3>3, UpdatedOneAction
    <2> QED
      BY <1>2, <2>1, <2>2, <2>3, <2>4 DEF TypeOK, CreatedFormExecuted
  <1>3. ASSUME NEW f \in Form, SaveForm(f) PROVE Inv'
    BY <1>2, <1>3, FormSent, AskedTyped DEF SaveForm
  <1>4. ASSUME NEW d \in ApiUpdates, UpdateJob(d) PROVE Inv'
    BY <1>2, <1>4, JobDefinitionAssumption DEF UpdateJob
  <1>5. CASE UNCHANGED vars
    BY <1>5 DEF vars, TypeOK, CreatedFormExecuted
  <1> QED
    BY <1>1, <1>3, <1>4, <1>5 DEF Next

LEMMA Invariance == Spec => []Inv
  BY InitInv, StepInv, PTL DEF Spec

(* Every row of jobs that the forms and API requests produce is well formed. *)
THEOREM DefinitionTypes == Spec => []TypeOK
  <1>1. Inv => TypeOK
    BY DEF Inv
  <1> QED
    BY <1>1, Invariance, PTL

(* A job created with the form executes what was entered there, for all      *)
(* scripts, names, URLs and choices.                                        *)
THEOREM CreatedFormsExecuted == Spec => []CreatedFormExecuted
  <1>1. Inv => CreatedFormExecuted
    BY DEF Inv
  <1> QED
    BY <1>1, Invariance, PTL

(* Saving the edit form as it is shown keeps the job's schedule and what it    *)
(* executes, but for the line breaks of a script and the white space at its   *)
(* ends, after any sequence of forms and requests that replace no             *)
(* action_payload as a whole.                                                *)
THEOREM NoopSavesKeep == Spec => []NoopSaveKeeps
  <1>1. Inv => NoopSaveKeeps
    BY NoopSave DEF Inv, TypeOK, NoopSaveKeeps
  <1> QED
    BY <1>1, Invariance, PTL

(* While no update changes the action of a job created with the form, and none *)
(* replaces its action_payload as a whole, the retry of its run executes what  *)
(* the run itself executes, for all forms and all requests that name fields.   *)
THEOREM RetriesAlike == Spec => []RetriedAlike
  <1>1. Inv => RetriedAlike
    BY RetrySame DEF Inv, TypeOK, RetriedAlike
  <1> QED
    BY <1>1, Invariance, PTL
=============================================================================
