-------------------------- MODULE MCJobDefinition --------------------------
(* Instances of JobDefinition for TLC. *)
EXTENDS JobDefinition

\* two scripts of one line; one of several lines, as an API client and as a text
\* area write it, of which the second is what remains without the line breaks
ScriptSet == {"x1", "x2", "lines", "crlf"}

LineOf == [s \in ScriptSet |-> IF s \in {"lines", "crlf"} THEN "x2" ELSE s]

AreaOf == [s \in ScriptSet |-> IF s = "lines" THEN "crlf" ELSE s]

\* requests that set one field, with each of the names a script may have
ScriptRequests ==
    {[Nothing EXCEPT ![x] = s] :
        x \in {"script", "shell_script", "script_content"}, s \in Scripts \cup {""}}

ActionRequests ==
    {[Nothing EXCEPT ![x] = a] : x \in {"action", "task_type"}, a \in Actions}

UrlRequests == {[Nothing EXCEPT !.api_url = u] : u \in Urls}

ScheduleRequests ==
    {[Nothing EXCEPT !.schedule_type = "interval", !.interval_seconds = n] : n \in Intervals}
    \cup {[Nothing EXCEPT !.cron_expression = c] : c \in Crons}

PayloadRequests ==
    {[Nothing EXCEPT !.action_payload = p] :
        p \in {NULL} \cup [script : {"x1", NULL}, content : {"lines", NULL}, url : {NULL}]}

Requests == PayloadRequests \cup ScriptRequests \cup ActionRequests \cup UrlRequests \cup ScheduleRequests
=============================================================================
