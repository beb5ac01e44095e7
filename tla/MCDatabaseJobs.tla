---------------------------- MODULE MCDatabaseJobs ----------------------------
(* Two creators racing for one client request; a single execution with a   *)
(* fault; an export and a sorted view of a snapshot, each with a fault; and *)
(* both of them queued at once, competing for the one permit.              *)
EXTENDS DatabaseJobs

Load(have, want, queued, n) ==
    [have |-> have, want |-> want, queued |-> queued, faults |-> n]

MCWorkloads == {
    Load(None, {"e1", "e2"}, {}, 0),
    Load(None, {"e1"}, {}, 1),
    Load("e1", {"x"}, {}, 1),
    Load("e1", {"v"}, {}, 1),
    Load("e1", {}, {"x", "v"}, 0)}
=============================================================================
