--------------------------- MODULE JobDefinition ---------------------------
(***************************************************************************)
(* What a job executes and when: from the fields of the create and edit     *)
(* forms, or of an API client's request, through the columns of jobs, to the *)
(* arguments the worker of the job's next run gives to the executor.        *)
(*                                                                         *)
(* Python's None is NULL and the empty string is "": both are false, but     *)
(* only None lets the fallback of an "is not None" through.  A key that a    *)
(* request does not carry is Unset; a key that action_payload does not hold  *)
(* is NULL, as .get() returns it.  working_dir and the HTTP method follow    *)
(* the script and the URL and are left out.                                 *)
(***************************************************************************)
EXTENDS Naturals

CONSTANTS
    NULL,
    Unset,
    Scripts,      \* scripts and names of scripts
    Line,         \* what a single-line field of a form sends back for a script
    Area,         \* what a text area of a form sends back for a script
    Urls,         \* absolute URLs, which a URLField gives back as they are
    Crons,        \* cron expressions without white space at their ends
    Intervals,    \* interval_seconds a form accepts
    Actions,      \* the choices of the form: ACTION_CHOICES
    ApiUpdates    \* requests of API clients to update the job

ScriptActions == {"shell", "python"}

ScheduleTypes == {"manual", "cron", "interval"}

VARIABLES
    job,      \* the row of jobs, NULL before its creation
    wanted,   \* what the form last saved asks for; NULL after an API request
    edited    \* "no": never updated; "kept": updates left the action as it was;
              \* "changed"; "replaced": a request brought an action_payload of its own

vars == <<job, wanted, edited>>

Truthy(x) == x \notin {NULL, "", Unset}

\* x or y
Or(x, y) == IF Truthy(x) THEN x ELSE y

Given(x, y) == IF x # Unset THEN x ELSE y

-----------------------------------------------------------------------------
(* schedule_rule: <<"manual">>, <<"every", seconds>> or <<"cron", text>>.    *)

Rules == {<<"manual">>} \cup {<<"every", n>> : n \in Intervals \cup {NULL}}
            \cup {<<"cron", e>> : e \in Crons \cup {""}}

\* d carries the fields schedule_type, cron_expression and interval_seconds
ResolveScheduleRule(d, current) ==
    CASE d.schedule_type = "manual" -> <<"manual">>
      [] d.schedule_type = "cron" -> <<"cron", Or(d.cron_expression, "")>>
      [] d.schedule_type = "interval" -> <<"every", Given(d.interval_seconds, NULL)>>
      [] OTHER -> current

ScheduleType(rule) ==
    CASE rule[1] = "manual" -> "manual"
      [] rule[1] = "every" -> "interval"
      [] OTHER -> "cron"

CronExpression(rule) == IF rule[1] = "cron" THEN rule[2] ELSE NULL

IntervalSeconds(rule) == IF rule[1] = "every" THEN rule[2] ELSE NULL

\* int("None") raises: such a job cannot be returned by the API
Readable(rule) == rule # <<"every", NULL>>

-----------------------------------------------------------------------------
(* The request bodies.  Both forms send every field they have.              *)

Text == Scripts \cup {NULL, ""}

Payload == [script : Text, content : Text, url : Urls \cup {NULL, ""}]

NoPayload == [script |-> NULL, content |-> NULL, url |-> NULL]

\* a request that carries nothing
Nothing ==
    [action_payload |-> Unset, action |-> Unset, task_type |-> Unset, api_url |-> Unset,
     script |-> Unset, shell_script |-> Unset, script_content |-> Unset,
     schedule_type |-> Unset, cron_expression |-> Unset, interval_seconds |-> Unset]

\* JobUpdate: every field may be missing
Request ==
    [action_payload : Payload \cup {NULL, Unset},
     action : Actions \cup {Unset}, task_type : Actions \cup {Unset},
     api_url : Urls \cup {NULL, "", Unset}, script : Text \cup {Unset},
     shell_script : Text \cup {Unset}, script_content : Text \cup {Unset},
     schedule_type : ScheduleTypes \cup {Unset},
     cron_expression : Crons \cup {NULL, "", Unset},
     interval_seconds : Intervals \cup {NULL, Unset}]

ASSUME JobDefinitionAssumption ==
    /\ Actions \subseteq ScriptActions \cup {"api_call"}
    /\ Intervals \subseteq Nat \ {0}
    /\ ApiUpdates \subseteq Request
    /\ NULL # Unset /\ "" \notin {NULL, Unset}
    /\ \A x \in {NULL, Unset} :
        /\ x \notin Actions \cup ScheduleTypes
        /\ x \notin Scripts \cup Urls \cup Crons
        /\ x \notin Intervals
    /\ "" \notin Scripts \cup Urls \cup Crons

(* A text input drops the line breaks of its text, a text area sends them as *)
(* CR LF, and CharField strips white space at both ends of either.           *)
ASSUME FieldAssumption ==
    /\ Line \in [Scripts -> Scripts \cup {""}] /\ Area \in [Scripts -> Scripts \cup {""}]
    /\ \A s \in Scripts :
        /\ Line[s] = "" <=> Area[s] = ""
        /\ Line[s] # "" => /\ Line[Line[s]] = Line[s] /\ Area[Line[s]] = Line[s]
                          /\ Area[Area[s]] = Area[s] /\ Line[Area[s]] = Line[s]

\* JobForm, as far as it is valid; all but the choices may be left empty
Form == [action : Actions, api_url : Urls \cup {""},
         shell_script : {Line[s] : s \in Scripts} \cup {""},
         script_content : {Area[s] : s \in Scripts} \cup {""},
         schedule_type : ScheduleTypes, cron_expression : Crons \cup {""},
         interval_seconds : Intervals \cup {NULL}]

\* _prepare_job_payload: neither script nor task_type is sent
PrepareJobPayload(f) ==
    [Nothing EXCEPT !.action = f.action, !.api_url = f.api_url,
        !.shell_script = f.shell_script, !.script_content = f.script_content,
        !.schedule_type = f.schedule_type, !.cron_expression = f.cron_expression,
        !.interval_seconds = f.interval_seconds]

\* a form shows None as an empty field
Shown(x) == Or(x, "")

\* what a field that shows script x sends back when nobody has changed it
SentBack(field, x) == IF Truthy(x) THEN field[x] ELSE ""

\* _prepare_initial_data, as the page sends it back: the one text of a script
\* is shown in the input for a name and in the area for the content
PrepareInitialData(j) ==
    LET scripted == j.action_type \in ScriptActions IN
    [action |-> j.action_type,
     api_url |-> IF scripted THEN "" ELSE Shown(j.payload.url),
     shell_script |-> IF scripted THEN SentBack(Line, j.payload.script) ELSE "",
     script_content |-> IF scripted THEN SentBack(Area, j.payload.content) ELSE "",
     schedule_type |-> ScheduleType(j.rule),
     cron_expression |-> Shown(CronExpression(j.rule)),
     interval_seconds |-> IntervalSeconds(j.rule)]

-----------------------------------------------------------------------------
(* create_job.                                                             *)

\* the validator of JobCreate: script falls back to the first field present
SyncedScript(d) == Given(d.script, Given(d.script_content, Given(d.shell_script, NULL)))

CreatedScriptPrefersName(d) == Or(d.shell_script, d.script_content)

\* the script that create_job stores in action_payload
CreatedScript(d) == Or(SyncedScript(d), Or(d.shell_script, d.script_content))

CreatedJobKeepsBoth(d) ==
    LET action == Given(d.action, Given(d.task_type, "api_call")) IN
    [task_type |-> Given(d.task_type, action),
     action_type |-> action,
     script |-> SyncedScript(d),
     payload |-> [script |-> d.shell_script, content |-> d.script_content, url |-> d.api_url],
     rule |-> ResolveScheduleRule(d, <<"manual">>)]

CreatedJob(d) ==
    LET action == Given(d.action, Given(d.task_type, "api_call"))
        text == CreatedScript(d)
    IN [task_type |-> Given(d.task_type, action),
        action_type |-> action,
        script |-> SyncedScript(d),
        payload |->
            CASE action = "api_call" /\ Truthy(d.api_url) -> [NoPayload EXCEPT !.url = d.api_url]
              [] action \in ScriptActions /\ Truthy(text) ->
                    [NoPayload EXCEPT !.script = text, !.content = text]
              [] OTHER -> NoPayload,
        rule |-> ResolveScheduleRule(d, <<"manual">>)]

-----------------------------------------------------------------------------
(* update_job.                                                             *)

\* the first of script, shell_script and script_content
UpdatedScriptIgnoresScript(d) == Or(d.shell_script, d.script_content)

UpdatedScript(d) == Or(d.script, Or(d.shell_script, d.script_content))

RebuildUncheckedUrl(p, action, d) ==
    LET text == UpdatedScript(d) IN
    CASE action = "api_call" -> [p EXCEPT !.url = d.api_url]
      [] action \in ScriptActions /\ Truthy(text) ->
            [p EXCEPT !.script = text, !.content = text]
      [] OTHER -> p

\* _rebuild_action_payload
RebuildActionPayload(p, action, d) ==
    LET text == UpdatedScript(d) IN
    CASE action = "api_call" -> [p EXCEPT !.url = Given(d.api_url, @)]
      [] action \in ScriptActions /\ Truthy(text) ->
            [p EXCEPT !.script = text, !.content = text]
      [] OTHER -> p

\* _sync_action_payload, and sync_domain_logic's {} for None
SyncActionPayload(p, action, d) ==
    IF d.action_payload = Unset THEN RebuildActionPayload(p, action, d)
    ELSE IF d.action_payload = NULL THEN NoPayload
    ELSE d.action_payload

UpdatedJob(j, d) ==
    LET action == Given(d.action, j.action_type) IN
    [task_type |-> Given(d.task_type, j.task_type),
     action_type |-> action,
     script |-> Given(d.script, j.script),
     payload |-> SyncActionPayload(j.payload, action, d),
     rule |-> ResolveScheduleRule(d, j.rule)]

-----------------------------------------------------------------------------
(* The job's next run, and the retry of a run.                              *)

\* the run that trigger_job and scan_due_jobs insert
NewRun(j) ==
    [task_type |-> j.task_type, action_type |-> j.action_type,
     script |-> j.script, payload |-> j.payload]

\* retry_run copies neither task_type nor script
RetryRun(r) ==
    [task_type |-> NULL, action_type |-> r.action_type,
     script |-> NULL, payload |-> r.payload]

\* _prepare_payload
PreparePayload(r) ==
    IF r.script # NULL THEN [r.payload EXCEPT !.script = r.script] ELSE r.payload

\* what the worker executes: the executor's name and its text, NULL when the
\* executor finds none
Executed(r) ==
    LET action == Or(r.task_type, r.action_type)
        p == PreparePayload(r)
        text == IF action \in ScriptActions THEN Or(p.content, p.script) ELSE p.url
    IN <<action, Or(text, NULL)>>

-----------------------------------------------------------------------------
\* the action that form f asks for and the text it shows: the content of a
\* script is preferred to the name of one
Asked(f) ==
    <<f.action,
      Or(IF f.action \in ScriptActions THEN Or(f.script_content, f.shell_script) ELSE f.api_url,
         NULL)>>

Job == [task_type : Actions, action_type : Actions, script : Text,
        payload : Payload, rule : Rules]

TypeOK ==
    /\ job \in Job \cup {NULL}
    /\ wanted \in (Actions \X (Scripts \cup Urls \cup {NULL})) \cup {NULL}
    /\ edited \in {"no", "kept", "changed", "replaced"}

Init ==
    /\ job = NULL
    /\ wanted = NULL
    /\ edited = "no"

CreateJob(f) ==
    /\ job = NULL
    /\ job' = CreatedJob(PrepareJobPayload(f))
    /\ wanted' = Asked(f)
    /\ UNCHANGED edited

\* the history of the job after request d has made it new
Edited(new, d) ==
    IF d.action_payload # Unset \/ edited = "replaced" THEN "replaced"
    ELSE IF new.action_type = job.action_type /\ new.task_type = job.task_type
            /\ edited # "changed"
    THEN "kept" ELSE "changed"

\* the edit page, which loads the job first; f is what the page showed, now
\* or before other updates, with the user's changes
SaveForm(f) ==
    /\ job # NULL /\ Readable(job.rule)
    /\ job' = UpdatedJob(job, PrepareJobPayload(f))
    /\ wanted' = Asked(f)
    /\ edited' = Edited(job', PrepareJobPayload(f))

\* an API client's PUT
UpdateJob(d) ==
    /\ job # NULL
    /\ job' = UpdatedJob(job, d)
    /\ wanted' = NULL
    /\ edited' = Edited(job', d)

Next ==
    \/ \E f \in Form : CreateJob(f) \/ SaveForm(f)
    \/ \E d \in ApiUpdates : UpdateJob(d)

Spec == Init /\ [][Next]_vars

-----------------------------------------------------------------------------
(* Properties.                                                             *)

\* Saving the edit form as the page shows it leaves the job's schedule and
\* what its next run executes as they are, but for the layout of a script: one
\* with several lines comes back from the input for its name, which update_job
\* prefers, as one line.  This holds after any sequence of form edits and API
\* requests, changes of the action included, none of which replaced
\* action_payload as a whole: reading a job into the form
\* (normalize_for_response, _prepare_initial_data) and writing it back
\* (_prepare_job_payload, update_job) lose nothing else the worker uses.
NoopSaveKeeps ==
    job # NULL /\ Readable(job.rule) /\ edited # "replaced" =>
        LET saved == UpdatedJob(job, PrepareJobPayload(PrepareInitialData(job)))
            before == Executed(NewRun(job))
            after == Executed(NewRun(saved))
        IN /\ saved.rule = job.rule
           /\ \/ after = before
              \/ before[2] \in Scripts /\ after = <<before[1], Line[before[2]]>>

\* A job created with the form executes the action chosen there and the text
\* entered, the content of a script before its name, through every alias and
\* fallback of JobCreate, create_job, _prepare_payload and the executor.
CreatedFormExecuted ==
    job # NULL /\ edited = "no" => Executed(NewRun(job)) = wanted

\* As long as no update changes the action of a job that was created with the
\* form, and no request replaces its action_payload as a whole, a retry
\* executes what the run it retries executed, although retry_run leaves out two
\* of the columns that run_job_task prefers: task_type and action_type agree,
\* and every script that reaches the column script is in action_payload too.
\* After {"action_payload": {"script": X}} it does not hold: the run executes
\* the column script, its retry X.
RetriedAlike ==
    job # NULL /\ edited \in {"no", "kept"} =>
        Executed(RetryRun(NewRun(job))) = Executed(NewRun(job))

\* A form that was saved is what the job executes.  It does not hold for the
\* edit form: update_job prefers the name of a script to its content.
SavedFormExecuted ==
    wanted # NULL => Executed(NewRun(job)) = wanted
=============================================================================
