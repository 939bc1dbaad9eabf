---------------------------- MODULE MCJobCatalog ----------------------------
(* Instances of JobCatalog for TLC. *)
EXTENDS JobCatalog, TLC

CONSTANTS a, u, n1, n2, c1, c2

\* no dependency, or one, by name or by id
SmallRefSets == {{}, {1}} \cup {{n} : n \in Names}

SwapClientsAndNames ==
    {f @@ g : f \in Permutations(Clients), g \in Permutations(Names)}
=============================================================================
