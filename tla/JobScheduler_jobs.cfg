CONSTANTS
    j1 = j1  j2 = j2  s1 = s1  s2 = s2  c1 = c1  c2 = c2
    NULL = NULL
    NoJob = NoJob
    Deleted = Deleted
    Jobs = {j1, j2}
    Gated = {j2}
    Schedulers = {s1, s2}
    Clients = {c1}
    Statuses = {"enabled", "disabled"}
    Rules = {"manual", "every", "cron"}
    Interval = 1
    CronPeriod = 2
    MaxCrashes = 1
SPECIFICATION FairSpec
INVARIANT RowConsistent
PROPERTIES
    DueJobScheduled
    SchedulerSweeps
