CONSTANTS
    j1 = j1  j2 = j2  j3 = j3  w1 = w1  t1 = t1  p1 = p1  s1 = s1  e1 = e1
    NULL = NULL
    NoRun = NoRun
    Jobs = {j1, j2, j3}
    MaxRuns = 3
    WorkerIds = {w1}
    MaxRetry <- OneRetryEach
    Deps <- CircleDeps
    LockSeconds = 1
    Tasks = {t1}
    Pods = {p1}
    PodOf <- OnePod
    PullClients = {}
    WorkerIdOf <- SameWorkerId
    Schedulers = {s1}
    Clients = {}
    ClientOps = {}
    AdminOps = {"trigger", "clear"}
    MaxCrashes = 1
    BoundedExec = TRUE
    Pollers = {e1}
SPECIFICATION PollerSpec
INVARIANTS
    PollTypeOK
    
PROPERTIES
    AwaitingStays
    PolledOnce
