CONSTANTS
    j1 = j1  j2 = j2  s1 = s1  s2 = s2  c1 = c1  c2 = c2
    NULL = NULL
    NoJob = NoJob
    Deleted = Deleted
    Jobs = {j1}
    Gated = {j1}
    Schedulers = {s1, s2}
    Clients = {c1, c2}
    Statuses = {"enabled", "paused"}
    Rules = {"manual", "every", "cron", "invalid"}
    Interval = 0
    CronPeriod = 2
    MaxCrashes = 1
SPECIFICATION Spec
SYMMETRY SwapSchedulersAndClients
INVARIANT TypeOK
PROPERTIES
    ScheduledWhenDue
    OccurrenceKept
