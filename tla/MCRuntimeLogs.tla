---------------------------- MODULE MCRuntimeLogs ----------------------------
(***************************************************************************)
(* Instances of RuntimeLogs for TLC.                                       *)
(***************************************************************************)
EXTENDS RuntimeLogs

\* One sample fits and two calls, or a sample for each resource and one call.
TightLimits == {[caches |-> 1, attempts |-> 2], [caches |-> 2, attempts |-> 1]}

\* Threads, resources and objects may be exchanged: the one CHOOSE picks the
\* largest sample to evict, and no two samples tie for it at these bounds.
Interchangeable == Permutations(Threads) \cup Permutations(Participants)
                       \cup Permutations(Objects)
=============================================================================
