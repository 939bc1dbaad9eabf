CONSTANTS
    j1 = j1  j2 = j2  w1 = w1  t1 = t1  t2 = t2  h1 = h1
    p1 = p1  p2 = p2  s1 = s1  s2 = s2  c1 = c1
    NULL = NULL
    NoRun = NoRun
    Jobs = {j1, j2}
    MaxRuns = 3
    WorkerIds = {w1}
    MaxRetry <- OneRetryEach
    Deps <- ChainDeps
    LockSeconds = 1
    Tasks = {t1, t2}
    Pods = {p1, p2}
    PodOf <- TwoPods
    PullClients = {}
    WorkerIdOf <- SameWorkerId
    Schedulers = {s1}
    Clients = {}
    ClientOps = {}
    AdminOps = {"trigger", "clear"}
    MaxCrashes = 1
    BoundedExec = TRUE
SPECIFICATION FairSpec
INVARIANTS
    SingleRetry
    RetryBound
    UpstreamFirst
    RunningHasLease
PROPERTIES
    FinishedStays
    ImplementsRunLife
    AllRunsEnd
