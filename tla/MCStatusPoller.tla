--------------------------- MODULE MCStatusPoller ---------------------------
(* Instances of StatusPoller for TLC. *)
EXTENDS StatusPoller, TLC

CONSTANTS j1, j2, j3, w1, t1, p1, s1, e1

OneRetryEach == [j \in Jobs |-> 1]

\* j2 and j3 wait for each other, j2 also for j1
CircleDeps == j1 :> {}
           @@ j2 :> {[up |-> j, required |-> "success"] : j \in {j1, j3}}
           @@ j3 :> {[up |-> j2, required |-> "success"]}

OnePod == [t \in Tasks |-> p1]

SameWorkerId == [t \in Consumers |-> w1]
=============================================================================
