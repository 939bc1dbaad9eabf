----------------------------- MODULE MCJobRuns -----------------------------
(* Instances of JobRuns for TLC. *)
EXTENDS JobRuns, TLC

CONSTANTS j1, j2, w1, t1, t2, h1, p1, p2, s1, s2, c1

OneRetryEach == [j \in Jobs |-> 1]

NoDeps == [j \in Jobs |-> {}]

\* j2 runs after a successful run of j1
ChainDeps == j1 :> {} @@ j2 :> {[up |-> j1, required |-> "success"]}

\* two pods with one task each
TwoPods == t1 :> p1 @@ t2 :> p2

\* every replica runs with the same WORKER_ID, as in k3s/scheduler.yaml
SameWorkerId == [t \in Consumers |-> w1]

\* the pods, each with its task, and the schedulers are interchangeable
SwapPods == t1 :> t2 @@ t2 :> t1 @@ p1 :> p2 @@ p2 :> p1

Interchangeable ==
    {f @@ g : f \in Permutations(Schedulers), g \in {<<>>, SwapPods}}
=============================================================================
