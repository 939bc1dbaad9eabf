--------------------------- MODULE MCJobScheduler ---------------------------
(* Instances of JobScheduler for TLC. *)
EXTENDS JobScheduler, TLC

CONSTANTS j1, j2, s1, s2, c1, c2

SwapSchedulersAndClients == Permutations(Schedulers) \cup Permutations(Clients)
=============================================================================
