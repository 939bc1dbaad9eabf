CONSTANTS
    NULL = NULL
    Unset = Unset
    Scripts <- ScriptSet
    Line <- LineOf
    Area <- AreaOf
    Urls = {u1}
    Crons = {c1}
    Intervals = {60}
    Actions = {"shell"}
    ApiUpdates = {}
SPECIFICATION Spec
INVARIANT SavedFormExecuted
