CONSTANTS
    j1 = j1  j2 = j2  w1 = w1  t1 = t1  t2 = t2  h1 = h1
    p1 = p1  p2 = p2  s1 = s1  s2 = s2  c1 = c1
    NULL = NULL
    NoRun = NoRun
    Jobs = {j1}
    MaxRuns = 2
    WorkerIds = {w1}
    MaxRetry <- OneRetryEach
    Deps <- NoDeps
    LockSeconds = 0
    Tasks = {t1, t2}
    Pods = {p1, p2}
    PodOf <- TwoPods
    PullClients = {h1}
    WorkerIdOf <- SameWorkerId
    Schedulers = {s1}
    Clients = {c1}
    ClientOps = {"canceled", "failed", "running", "retry"}
    AdminOps = {"trigger", "enable", "clear"}
    MaxCrashes = 1
    BoundedExec = TRUE
SPECIFICATION Spec
SYMMETRY Interchangeable
INVARIANTS
    TypeOK
    ClaimStillValid
    OneExecutorPerRun
    LeaseColumnsAgree
    RetryBound
