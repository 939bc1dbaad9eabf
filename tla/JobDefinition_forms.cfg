CONSTANTS
    NULL = NULL
    Unset = Unset
    Scripts <- ScriptSet
    Line <- LineOf
    Area <- AreaOf
    Urls = {u1}
    Crons = {c1}
    Intervals = {60}
    Actions = {"shell", "python", "api_call"}
    ApiUpdates <- Requests
SPECIFICATION Spec
INVARIANTS
    TypeOK
    NoopSaveKeeps
    CreatedFormExecuted
    RetriedAlike
