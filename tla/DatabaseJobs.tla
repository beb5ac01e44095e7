----------------------------- MODULE DatabaseJobs -----------------------------
(***************************************************************************)
(* The private results of the database console: services/database_jobs.py  *)
(* and services/database_views.py.  An execution is queued with its SQL    *)
(* staged in a bucket, run once by a Cloud Tasks worker, and kept as a     *)
(* snapshot from which exports and sorted views are derived.  Every step   *)
(* below is one Firestore transaction, bucket call or task call of         *)
(* create_execution, create_export, create_view, run_query, run_export,    *)
(* run_sort, cleanup, purge_workspace_id, cleanup_view or sweep; between   *)
(* two of them any other process may move, crash, or see time pass.        *)
(* All jobs belong to one workspace of one login.                          *)
(***************************************************************************)
EXTENDS Naturals, FiniteSets

CONSTANTS
    Executions, Exports, Views,  \* identities drawn by the creators
    Requests,                    \* client_request_id values
    Workloads,                   \* what was captured, what a client asks for,
                                 \* and the faults left to happen
    None,                        \* an empty reference
    Budget,                      \* _reserve: the reservations admitted at once
    MaxFaults                    \* bound on crashes and lost answers

ASSUME KindsAreDistinct ==
    /\ Executions \cap Exports = {} /\ Executions \cap Views = {}
    /\ Exports \cap Views = {}
    /\ None \notin Executions \cup Exports \cup Views

Derived == Exports \cup Views
Jobs == Executions \cup Derived

ASSUME WorkloadAssumption ==
    /\ MaxFaults \in Nat
    /\ \A load \in Workloads :
          /\ load.have \in Executions \cup {None} /\ load.queued \subseteq Derived
          /\ load.queued # {} => load.have \in Executions
          /\ load.faults \in 0..MaxFaults

VARIABLES
    job,        \* the Firestore document of each job
    objects,    \* bucket objects under the job's prefixes
    reserved,   \* control:budget reservations
    permits,    \* control:budget permits, by the job that holds one
    request,    \* request records: the execution of a client request
    asks,       \* the client request each create_execution call carries
    wanted,     \* the jobs the client asks for
    place,      \* the workspace, "closed" when it, the session or the policy lapsed
    dispatched, \* Cloud Tasks that exist for query, export or sort
    creator,    \* where the call that creates a job stands
    worker,     \* where the worker of a job stands
    janitor,    \* where the cleanup or sweep process stands
    misled,     \* executions whose dispatch or completion was reported failed
                \* to the caller, whether or not it took effect (history)
    faults
world == <<asks, wanted, place>>
calm == <<misled, faults>>
vars == <<job, objects, reserved, permits, request, dispatched, creator,
          worker, janitor, world, calm>>

States == {"none", "queued", "running", "completed", "failed", "cancelled",
           "expired", "purged", "deleted"}
Live == {"queued", "running"}
Terminal == {"failed", "cancelled", "expired", "purged"}
Absent == {"none", "deleted"}

NoJob == [state |-> "none", open |-> FALSE, expired |-> FALSE,
          lapsed |-> FALSE, clean |-> FALSE, source |-> None]
Queued(s) == [NoJob EXCEPT !.state = "queued", !.source = s]
Idle == [step |-> "idle", job |-> None, view |-> None, seen |-> FALSE,
         whole |-> FALSE]

\* A workload starts with the snapshot `have` and with the jobs of `queued`
\* derived from it and dispatched: states the calls below lead to.
InitWith(have, queued) ==
    LET known == {have, None} \cap Executions IN
    /\ job = [j \in Jobs |-> IF j \in known THEN [NoJob EXCEPT !.state = "completed"]
                            ELSE IF j \in queued THEN Queued(have) ELSE NoJob]
    /\ objects = [j \in Jobs |-> IF j \in known THEN {"result"} ELSE {}]
    /\ reserved = known \cup queued /\ dispatched = queued /\ permits = {}
    /\ asks \in [Executions -> Requests]
    /\ request = [r \in Requests |-> IF \E e \in known : asks[e] = r THEN have ELSE None]
    /\ place = "active"
    /\ creator = [j \in Jobs |-> IF j \in known \cup queued THEN "done" ELSE "idle"]
    /\ worker = [j \in Jobs |-> IF j \in known THEN "done" ELSE "idle"]
    /\ janitor = Idle /\ misled = {}

Init == \E load \in Workloads :
    /\ InitWith(load.have, load.queued)
    /\ wanted = load.want /\ faults = MaxFaults - load.faults

-----------------------------------------------------------------------------
(* What the transactions check and write.                                  *)

Admitted == place = "active"

Ready(e) == e # None /\ job[e].state = "completed" /\ ~job[e].expired

ExportsOf(e) == {x \in Exports : job[x].source = e /\ job[x].state \notin Absent}
ViewsOf(e) == {v \in Views : job[v].source = e /\ job[v].state \notin Absent}

\* _reserve: the count of other reservations stays below the budget.
CanReserve(j) == Cardinality(reserved \ {j}) < Budget

\* The state _finish writes: expiry wins, and "completed" is re-checked
\* against the workspace, the session, the policy and the source.
FinishState(j, s) ==
    IF job[j].expired THEN "expired"
    ELSE IF s = "completed" /\ ~(Admitted /\ (j \in Derived => Ready(job[j].source)))
         THEN "cancelled" ELSE s

\* Seeded fault: a finished job may be finished again.
CanFinishFault(j, owned, s) ==
    /\ job[j].state \notin Absent
    /\ ~(~owned /\ job[j].state = "running" /\ s = "failed")

\* owned: the caller passes the claim of the only worker a job ever has.
CanFinish(j, owned, s) ==
    /\ job[j].state \in Live
    /\ ~(~owned /\ job[j].state = "running" /\ s = "failed")

Finish(j, owned, s) ==
    job' = IF CanFinish(j, owned, s)
           THEN [job EXCEPT ![j].state = FinishState(j, s), ![j].lapsed = FALSE]
           ELSE job

\* RunContext.authorize(force=True).
Authorized(j) ==
    /\ Admitted
    /\ job[j].state = "running" /\ ~job[j].expired
    /\ j \in Derived => Ready(job[j].source)

\* _permit: one query per owner; sorts and exports share a single permit.
CanPermit(j) ==
    IF j \in Executions THEN permits \cap Executions = {}
                        ELSE permits \cap Derived = {}

(* What the last transaction of each cleanup writes.  Its new expires_at     *)
(* keeps the tombstone for another hour, after which it is deleted.        *)

CleanedExport(r) ==
    IF r.expired \/ r.state \in {"expired", "purged"}
    THEN [r EXCEPT !.state = "expired", !.clean = TRUE, !.expired = FALSE,
                   !.open = FALSE]
    ELSE [r EXCEPT !.open = FALSE]

CleanedView(r) ==
    [r EXCEPT !.clean = TRUE,
              !.expired = @ /\ r.state \notin {"purged", "expired"}]

CleanedExecution(r) ==
    [r EXCEPT !.clean = TRUE, !.expired = FALSE,
              !.state = IF @ = "purged" THEN "purged" ELSE "expired"]

Fault == faults < MaxFaults /\ faults' = faults + 1
Mislead(j) == misled' = misled \cup ({j} \cap Executions)

At(process, j, step) == [process EXCEPT ![j] = step]

-----------------------------------------------------------------------------
(* create_execution.                                                       *)

\* The cleanup task of e is scheduled before anything private is uploaded.
StartExecution(e) ==
    /\ creator[e] = "idle" /\ e \in wanted /\ Admitted
    /\ request[asks[e]] = None
    /\ CanReserve(e)
    /\ reserved' = reserved \cup {e}
    /\ creator' = At(creator, e, "reserved")
    /\ UNCHANGED <<job, objects, permits, request, dispatched, worker,
                   janitor, world, calm>>

StageSql(e) ==
    /\ creator[e] = "reserved"
    /\ \/ /\ objects' = [objects EXCEPT ![e] = @ \cup {"input"}]
          /\ creator' = At(creator, e, "staged")
          /\ UNCHANGED faults
       \/ /\ Fault
          /\ objects' \in {objects, [objects EXCEPT ![e] = {"input"}]}
          /\ creator' = At(creator, e, "drop")
    /\ UNCHANGED <<job, reserved, permits, request, dispatched, worker,
                   janitor, world, misled>>

InsertedExecution(e) ==
    /\ job' = [job EXCEPT ![e] = Queued(None)]
    /\ request' = [request EXCEPT ![asks[e]] = e]
    /\ reserved' = reserved \cup {e}

CanInsert(e) == /\ Admitted /\ CanReserve(e)
                /\ request[asks[e]] = None

\* The insert transaction; one that cannot insert raises or finds the request
\* taken, and the creator then drops its own input and reservation.
InsertExecution(e) ==
    /\ creator[e] = "staged"
    /\ \/ /\ CanInsert(e) /\ InsertedExecution(e)
          /\ \/ creator' = At(creator, e, "inserted") /\ UNCHANGED faults
             \/ creator' = At(creator, e, "done") /\ Fault
       \/ /\ (~CanInsert(e) /\ UNCHANGED faults) \/ Fault
          /\ creator' = At(creator, e, "drop")
          /\ UNCHANGED <<job, request, reserved>>
    /\ UNCHANGED <<objects, permits, dispatched, worker, janitor, world,
                   misled>>

DropInput(j) ==
    /\ creator[j] = "drop"
    /\ objects' = [objects EXCEPT ![j] = {}]
    /\ creator' = At(creator, j, "dropped")
    /\ UNCHANGED <<job, reserved, permits, request, dispatched, worker,
                   janitor, world, calm>>

DropReservation(j) ==
    /\ creator[j] = "dropped"
    /\ reserved' = reserved \ {j}
    /\ job' = IF j \in Exports THEN [job EXCEPT ![j] = CleanedExport(@)] ELSE job
    /\ creator' = At(creator, j, "done")
    /\ UNCHANGED <<objects, permits, request, dispatched, worker, janitor,
                   world, calm>>

\* enqueue: the call may fail before or after Cloud Tasks kept the task.
Dispatch(j) ==
    /\ creator[j] = "inserted"
    /\ \/ /\ dispatched' = dispatched \cup {j}
          /\ creator' = At(creator, j, "done")
          /\ UNCHANGED calm
       \/ /\ Fault
          /\ dispatched' \in {dispatched, dispatched \cup {j}} /\ Mislead(j)
          /\ creator' = [creator EXCEPT
                ![j] = IF j \in Views THEN "done" ELSE "undispatched"]
    /\ UNCHANGED <<job, objects, reserved, permits, request, worker, janitor,
                   world>>

\* The DatabaseUnavailable branch of create_execution and create_export.
FailDispatch(j) ==
    /\ creator[j] = "undispatched"
    /\ Finish(j, FALSE, "failed")
    /\ creator' = At(creator, j, "failed")
    /\ UNCHANGED <<objects, reserved, permits, request, dispatched, worker,
                   janitor, world, calm>>

\* Seeded fault: an export is spared only while it runs, as an execution is.
SparedFault(j) == job[j].state = "running"

\* create_execution spares only a running job; _cleanup_export also spares
\* a live or readable one, and one whose worker may still write.
Spared(j) ==
    IF j \in Executions THEN job[j].state = "running"
    ELSE \/ job[j].state \in Live \cup {"completed"} /\ ~job[j].expired
         \/ job[j].open

AfterFailedDispatch(j) ==
    /\ creator[j] = "failed"
    /\ creator' = [creator EXCEPT ![j] = IF Spared(j) THEN "done" ELSE "drop"]
    /\ UNCHANGED <<job, objects, reserved, permits, request, dispatched,
                   worker, janitor, world, calm>>

(* create_export and create_view: one transaction, then the dispatch.      *)

CanDerive(d, e) ==
    /\ Ready(e) /\ Admitted /\ CanReserve(d)
    /\ d \in Exports =>
          \A x \in ExportsOf(e) : job[x].state \notin Live \cup {"completed"}

Derive(d, e) ==
    /\ creator[d] = "idle" /\ d \in wanted /\ job[d].state = "none"
    /\ CanDerive(d, e)
    /\ job' = [job EXCEPT ![d] = Queued(e)]
    /\ reserved' = reserved \cup {d}
    /\ creator' = At(creator, d, "inserted")
    /\ UNCHANGED <<objects, permits, request, dispatched, worker, janitor,
                   world, calm>>

CrashCreator(j) ==
    /\ creator[j] \notin {"idle", "done"} /\ Fault
    /\ creator' = At(creator, j, "done")
    /\ UNCHANGED <<job, objects, reserved, permits, request, dispatched,
                   worker, janitor, misled, world>>

-----------------------------------------------------------------------------
(* run_query, run_export and run_sort.                                     *)

\* _claim: a second delivery of the task finds the job no longer queued, so
\* that the task need not be kept.
Claim(j) ==
    /\ j \in dispatched /\ worker[j] = "idle" /\ job[j].state = "queued"
    /\ \/ /\ job[j].expired \/ job[j].lapsed
          /\ job' = [job EXCEPT ![j].state = IF job[j].expired THEN "expired"
                                                             ELSE "failed",
                                ![j].lapsed = FALSE]
          /\ UNCHANGED worker
       \/ /\ ~job[j].expired /\ ~job[j].lapsed
          /\ job' = [job EXCEPT ![j].state = "running", ![j].open = TRUE]
          /\ worker' = At(worker, j, "claimed")
    /\ dispatched' = dispatched \ {j}
    /\ UNCHANGED <<objects, reserved, permits, request, creator, janitor,
                   world, calm>>

WorkerOnly == UNCHANGED <<request, dispatched, creator, janitor, world>>

\* A failed check, a rejected or failing query, a busy permit or an error of
\* the stores leaves the try block; the permit is returned on the way out.
Raise(j) ==
    /\ worker[j] \in {"claimed", "authorized", "ready", "working", "writing",
                      "uploaded", "finishing"}
    /\ worker' = At(worker, j, "failing")
    /\ permits' = permits \ {j}
    /\ UNCHANGED <<job, objects, reserved, calm>> /\ WorkerOnly

\* take_sql reads the staged statement and deletes it before anything runs.
TakeSql(j) ==
    /\ j \in Executions /\ worker[j] = "authorized" /\ "input" \in objects[j]
    /\ objects' = [objects EXCEPT ![j] = @ \ {"input"}]
    /\ worker' = At(worker, j, "ready")
    /\ UNCHANGED <<job, reserved, permits, calm>> /\ WorkerOnly

\* The forced authorizations: before the work, during it, and after it.
\* A sort also needs its reservation to grow (SortObjects.resize).
Authorize(j) ==
    /\ Authorized(j)
    /\ \/ worker[j] = "claimed"
          /\ worker' = At(worker, j, IF j \in Executions THEN "authorized" ELSE "ready")
       \/ worker[j] = "working" /\ (j \in Views => j \in reserved)
          /\ worker' = At(worker, j, "writing")
       \/ worker[j] = "uploaded"
          /\ worker' = At(worker, j, "finishing")
    /\ UNCHANGED <<job, objects, reserved, permits, calm>> /\ WorkerOnly

TakePermit(j) ==
    /\ worker[j] = "ready" /\ CanPermit(j)
    /\ permits' = permits \cup {j}
    /\ worker' = At(worker, j, "working")
    /\ UNCHANGED <<job, objects, reserved, calm>> /\ WorkerOnly

\* ResultWriter, the export sink, or the sorted runs and their manifest.
Upload(j) ==
    /\ worker[j] = "writing"
    /\ objects' = [objects EXCEPT ![j] = @ \cup {"result"}]
    /\ worker' = At(worker, j, "uploaded")
    /\ permits' = IF j \in Executions THEN permits \ {j} ELSE permits
    /\ UNCHANGED <<job, reserved, calm>> /\ WorkerOnly

\* _finish("completed"), whose acknowledgement may be lost.
Complete(j) ==
    /\ worker[j] = "finishing"
    /\ Finish(j, TRUE, "completed")
    /\ permits' = permits \ {j}
    /\ \/ /\ worker' = At(worker, j, IF j \in Executions THEN "verify" ELSE "closing")
          /\ UNCHANGED calm
       \/ Fault /\ Mislead(j) /\ worker' = At(worker, j, "failing")
    /\ UNCHANGED <<objects, reserved>> /\ WorkerOnly

Verify(j) ==
    /\ worker[j] = "verify"
    /\ worker' = At(worker, j, IF job[j].state = "completed" THEN "closing"
                                                           ELSE "purging")
    /\ UNCHANGED <<job, objects, reserved, permits, calm>> /\ WorkerOnly

Fail(j) ==
    /\ worker[j] = "failing"
    /\ Finish(j, TRUE, "failed")
    /\ worker' = At(worker, j, IF j \in Executions THEN "purging" ELSE "closing")
    /\ UNCHANGED <<objects, reserved, permits, calm>> /\ WorkerOnly

PurgeFailed(j) ==
    /\ worker[j] \in {"purging", "wiping"}
    /\ objects' = [objects EXCEPT ![j] = {}]
    /\ worker' = At(worker, j, "releasing")
    /\ UNCHANGED <<job, reserved, permits, calm>> /\ WorkerOnly

\* _release_storage; a derived job is closed already and is marked cleaned.
ReleaseFailed(j) ==
    /\ worker[j] = "releasing"
    /\ reserved' = reserved \ {j}
    /\ job' = IF j \in Exports THEN [job EXCEPT ![j] = CleanedExport(@)]
              ELSE IF j \in Views THEN [job EXCEPT ![j] = CleanedView(@)] ELSE job
    /\ worker' = At(worker, j, IF j \in Executions THEN "closing" ELSE "done")
    /\ UNCHANGED <<objects, permits, calm>> /\ WorkerOnly

\* _worker_closed, then the cleanup of a derived job that did not complete;
\* cleanup_view leaves the state of an unexpired failed view alone.
Close(j) ==
    /\ worker[j] = "closing"
    /\ job' = [job EXCEPT ![j].open = FALSE,
                          ![j].state = IF /\ j \in Views /\ @ \in Terminal \ {"purged"}
                                          /\ job[j].expired
                                       THEN "expired" ELSE @]
    /\ worker' = At(worker, j, IF j \in Executions \/ job[j].state \notin Terminal
                                  \/ job[j].clean
                               THEN "done" ELSE "wiping")
    /\ UNCHANGED <<objects, reserved, permits, calm>> /\ WorkerOnly

\* The permit of a crashed worker stays until it lapses.
CrashWorker(j) ==
    /\ worker[j] \notin {"idle", "done", "lost"} /\ Fault
    /\ worker' = At(worker, j, "lost")
    /\ UNCHANGED <<job, objects, reserved, permits, misled>> /\ WorkerOnly

\* The three bodies: only a query has a statement and is verified at its end.
RunJob(j) ==
    \/ Claim(j) \/ Raise(j) \/ Authorize(j) \/ TakePermit(j) \/ Upload(j)
    \/ Complete(j) \/ Fail(j) \/ PurgeFailed(j) \/ ReleaseFailed(j) \/ Close(j)
RunQuery(e) == e \in Executions /\ (RunJob(e) \/ TakeSql(e) \/ Verify(e))
RunExport(x) == x \in Exports /\ RunJob(x)
RunSort(v) == v \in Views /\ RunJob(v)

WorkerStep(j) == RunQuery(j) \/ RunExport(j) \/ RunSort(j)

-----------------------------------------------------------------------------
(* cleanup, purge_workspace_id, cleanup_view, _cleanup_export and sweep.   *)
(* The process runs one of them at a time; it raises, to be retried by     *)
(* Cloud Tasks or by the next sweep, while a worker may still write.       *)

JanitorOnly == UNCHANGED <<permits, request, dispatched, creator, worker,
                           asks, wanted, misled>>
Go(step) == janitor' = [janitor EXCEPT !.step = step]
Quiet == UNCHANGED <<place, faults>> /\ JanitorOnly

\* A staging call that died left no row: its scheduled task comes an hour
\* after the call, long after the request could still be served.
CleanupUnowned(e) ==
    /\ janitor = Idle /\ e \in Executions /\ job[e].state \in Absent
    /\ creator[e] = "done"
    /\ objects[e] # {} \/ e \in reserved
    /\ janitor' = [Idle EXCEPT !.step = "erase", !.job = e]
    /\ UNCHANGED <<job, objects, reserved>> /\ Quiet

\* Seeded fault: cleanup does not wait for the worker of the execution.
CanCleanFault(e) ==
    /\ job[e].state \notin Absent /\ ~job[e].clean
    /\ job[e].expired \/ job[e].state \in Terminal

CanClean(e) ==
    /\ job[e].state \notin Absent /\ ~job[e].clean
    /\ job[e].expired \/ job[e].state \in Terminal
    /\ ~job[e].open /\ \A x \in ExportsOf(e) : ~job[x].open

Cleanup(e) ==
    /\ janitor = Idle /\ e \in Executions /\ CanClean(e)
    /\ janitor' = [Idle EXCEPT !.step = "expire", !.job = e]
    /\ UNCHANGED <<job, objects, reserved>> /\ Quiet

ExpireExecution ==
    /\ janitor.step = "expire"
    /\ job' = [job EXCEPT ![janitor.job].state =
                              IF @ = "purged" THEN "purged" ELSE "expired"]
    /\ Go("views") /\ UNCHANGED <<objects, reserved>> /\ Quiet

\* purge_workspace_id: first the workspace, then each execution not cleaned.
PurgeWorkspaceId ==
    /\ janitor = Idle /\ place \in {"closed", "purged"}
    /\ place' = "purged"
    /\ janitor' = [Idle EXCEPT !.step = "next", !.whole = TRUE]
    /\ UNCHANGED <<job, objects, reserved, faults>> /\ JanitorOnly

Uncleaned == {e \in Executions : job[e].state \notin Absent /\ ~job[e].clean}

InvalidateExecution(e) ==
    /\ janitor.step = "next" /\ e \in Uncleaned
    /\ job' = [job EXCEPT ![e].state = "purged"]
    /\ janitor' = [janitor EXCEPT !.step = "exports", !.job = e]
    /\ UNCHANGED <<objects, reserved>> /\ Quiet

InvalidateExports ==
    /\ janitor.step = "exports"
    /\ LET e == janitor.job IN
       /\ job' = [j \in Jobs |-> IF j \in ExportsOf(e)
                                 THEN [job[j] EXCEPT !.state = "purged"] ELSE job[j]]
       /\ IF job[e].open \/ \E x \in ExportsOf(e) : job[x].open
          THEN janitor' = Idle ELSE Go("views")
    /\ UNCHANGED <<objects, reserved>> /\ Quiet

Tombstone ==
    /\ janitor.step = "next" /\ Uncleaned = {}
    /\ place' = "done" /\ janitor' = Idle
    /\ UNCHANGED <<job, objects, reserved, faults>> /\ JanitorOnly

\* cleanup_children: each view of the execution, by force.
NextView ==
    /\ janitor.step = "views"
    /\ LET left == {v \in ViewsOf(janitor.job) : ~job[v].clean} IN
       \/ /\ left = {} /\ Go("purge")
       \/ \E v \in left : janitor' = [janitor EXCEPT
              !.step = "view", !.view = v, !.seen = job[v].open]
    /\ UNCHANGED <<job, objects, reserved>> /\ Quiet

\* cleanup_view of a view that ended or expired, from a task or a sweep.
CleanupView(v) ==
    /\ janitor = Idle /\ v \in Views /\ job[v].state \notin Absent /\ ~job[v].clean
    /\ job[v].state \in Terminal \/ job[v].expired
    /\ janitor' = [Idle EXCEPT !.step = "view", !.view = v, !.seen = job[v].open]
    /\ UNCHANGED <<job, objects, reserved>> /\ Quiet

\* The worker deadline that decides is the one read before this transaction.
InvalidateView ==
    /\ janitor.step = "view"
    /\ LET v == janitor.view IN
       /\ job' = [job EXCEPT ![v].state =
                    IF @ \in Absent THEN @
                    ELSE IF janitor.job # None \/ @ = "purged" THEN "purged"
                    ELSE IF job[v].expired THEN "expired" ELSE @]
       /\ IF janitor.seen THEN janitor' = Idle ELSE Go("purge_view")
    /\ UNCHANGED <<objects, reserved>> /\ Quiet

PurgeView ==
    /\ janitor.step = "purge_view"
    /\ objects' = [objects EXCEPT ![janitor.view] = {}]
    /\ Go("release_view") /\ UNCHANGED <<job, reserved>> /\ Quiet

ReleaseView ==
    /\ janitor.step = "release_view"
    /\ reserved' = reserved \ {janitor.view}
    /\ job' = [job EXCEPT ![janitor.view] =
                 IF @.state \in Absent THEN @ ELSE CleanedView(@)]
    /\ janitor' = IF janitor.job = None THEN Idle
                  ELSE [janitor EXCEPT !.step = "views", !.view = None, !.seen = FALSE]
    /\ UNCHANGED objects /\ Quiet

\* purge: the prefix of an execution also holds the files of its exports.
PurgeExecution ==
    /\ janitor.step = "purge"
    /\ objects' = [j \in Jobs |-> IF j = janitor.job \/ j \in ExportsOf(janitor.job)
                                  THEN {} ELSE objects[j]]
    /\ Go("release") /\ UNCHANGED <<job, reserved>> /\ Quiet

\* Seeded fault: the reservations of the exports are forgotten.
ReleaseExecutionFault ==
    /\ janitor.step = "release"
    /\ reserved' = reserved \ {janitor.job}
    /\ Go("cleaned") /\ UNCHANGED <<job, objects>> /\ Quiet

ReleaseExecution ==
    /\ janitor.step = "release"
    /\ reserved' = reserved \ ({janitor.job} \cup ExportsOf(janitor.job))
    /\ Go("cleaned") /\ UNCHANGED <<job, objects>> /\ Quiet

MarkCleaned ==
    /\ janitor.step = "cleaned"
    /\ job' = [j \in Jobs |->
                 IF /\ j = janitor.job \/ j \in ExportsOf(janitor.job)
                    /\ job[j].state \notin Absent
                 THEN CleanedExecution(job[j]) ELSE job[j]]
    /\ janitor' = IF janitor.whole THEN [Idle EXCEPT !.step = "next", !.whole = TRUE]
                                   ELSE Idle
    /\ UNCHANGED <<objects, reserved>> /\ Quiet

\* _cleanup_export of an export that ended or expired.
CanCleanExport(x) ==
    /\ job[x].state \notin Absent
    /\ job[x].state \in Terminal \/ job[x].expired
    /\ ~job[x].open

CleanupExport(x) ==
    /\ janitor = Idle /\ x \in Exports /\ CanCleanExport(x)
    /\ objects[x] # {} \/ x \in reserved \/ (job[x].expired /\ ~job[x].clean)
    /\ janitor' = [Idle EXCEPT !.step = "erase", !.job = x]
    /\ UNCHANGED <<job, objects, reserved>> /\ Quiet

\* purge and _release_storage of one job by itself.
Erase ==
    /\ janitor.step = "erase"
    /\ objects' = [objects EXCEPT ![janitor.job] = {}]
    /\ Go("free") /\ UNCHANGED <<job, reserved>> /\ Quiet

Free ==
    /\ janitor.step = "free"
    /\ LET j == janitor.job IN
       /\ reserved' = reserved \ {j}
       /\ job' = [job EXCEPT ![j] = IF j \in Exports /\ @.state \notin Absent
                                    THEN CleanedExport(@) ELSE @]
    /\ janitor' = Idle
    /\ UNCHANGED objects /\ Quiet

\* sweep and sweep_views: a running job whose worker deadline has passed.
WorkerLost(j) ==
    /\ janitor = Idle /\ job[j].state = "running" /\ ~job[j].open
    /\ Finish(j, TRUE, "failed")
    /\ janitor' = IF j \in Views
                  THEN [Idle EXCEPT !.step = "view", !.view = j]
                  ELSE [Idle EXCEPT !.step = "erase", !.job = j]
    /\ UNCHANGED <<objects, reserved>> /\ Quiet

\* _ensure_dispatch past the dispatch deadline, then the cleanup of the kind.
FailQueued(j) ==
    /\ janitor = Idle /\ job[j].state = "queued" /\ job[j].lapsed
    /\ Finish(j, FALSE, "failed")
    /\ janitor' = IF j \in Views
                  THEN [Idle EXCEPT !.step = "view", !.view = j, !.seen = job[j].open]
                  ELSE IF j \in Exports
                  THEN [Idle EXCEPT !.step = "erase", !.job = j]
                  ELSE [Idle EXCEPT !.step = "expire", !.job = j]
    /\ UNCHANGED <<objects, reserved>> /\ Quiet

\* _ensure_dispatch before the deadline, by a sweep or a repeated request.
Redispatch(j) ==
    /\ job[j].state = "queued" /\ ~job[j].lapsed /\ j \notin dispatched
    /\ dispatched' = dispatched \cup {j}
    /\ UNCHANGED <<job, objects, reserved, permits, request, creator, worker,
                   janitor, world, calm>>

\* sweep deletes a cleaned document once its last hour has passed too.
DeleteTombstone(j) ==
    /\ janitor = Idle /\ job[j].state \notin Absent /\ job[j].clean
    /\ job' = [job EXCEPT ![j] = [NoJob EXCEPT !.state = "deleted"]]
    /\ UNCHANGED <<objects, reserved, janitor>> /\ Quiet

\* A cleanup past its 230 s deadline, a failing store, or a crash.
JanitorStops ==
    /\ janitor # Idle /\ Fault
    /\ janitor' = Idle
    /\ UNCHANGED <<job, objects, reserved, place>> /\ JanitorOnly

\* What a sweep takes up, one document at a time.
SweepViews == \E v \in Views : \/ CleanupView(v) \/ WorkerLost(v)
                               \/ FailQueued(v) \/ DeleteTombstone(v)
Sweep ==
    \/ SweepViews \/ PurgeWorkspaceId
    \/ \E j \in Executions \cup Exports :
          \/ Cleanup(j) \/ CleanupExport(j) \/ WorkerLost(j) \/ FailQueued(j)
          \/ DeleteTombstone(j)

JanitorStep ==
    \/ Sweep \/ \E e \in Executions : CleanupUnowned(e) \/ InvalidateExecution(e)
    \/ ExpireExecution \/ InvalidateExports \/ Tombstone
    \/ NextView \/ InvalidateView \/ PurgeView \/ ReleaseView
    \/ PurgeExecution \/ ReleaseExecution \/ MarkCleaned \/ Erase \/ Free

-----------------------------------------------------------------------------
(* The user, the session and the clock.                                    *)

StoreOnly == UNCHANGED <<objects, reserved, permits, request, asks, wanted,
                         dispatched, creator, worker, janitor, calm>>

Cancel(e) ==
    /\ Admitted /\ job[e].state \in Live /\ ~job[e].expired
    /\ Finish(e, TRUE, "cancelled")
    /\ UNCHANGED place /\ StoreOnly

DeleteView(v) ==
    /\ Admitted /\ Ready(job[v].source)
    /\ job[v].state \notin Absent \cup {"purged", "expired"} /\ ~job[v].expired
    /\ job' = [job EXCEPT ![v].state = "purged", ![v].expired = TRUE]
    /\ UNCHANGED place /\ StoreOnly

\* purge_workspace, and purge_session after a logout revoked the session.
PurgeWorkspace ==
    /\ place \in {"active", "closed"} /\ place' = "purged"
    /\ UNCHANGED job /\ StoreOnly

\* A revoked or expired session or a changed policy; the workspace expires
\* with the session, so from here on a sweep may find it expired.
CloseWorkspace ==
    /\ place = "active" /\ place' = "closed"
    /\ UNCHANGED job /\ StoreOnly

\* Exports and views carry the expiry of the execution they derive from.
Age(j) ==
    /\ j \in Executions
    /\ job[j].state \notin Absent /\ ~job[j].expired /\ ~job[j].clean
    /\ job' = [k \in Jobs |->
                 IF /\ k = j \/ (job[k].source = j /\ job[k].state \notin Absent)
                    /\ ~job[k].clean
                 THEN [job[k] EXCEPT !.expired = TRUE] ELSE job[k]]
    /\ UNCHANGED place /\ StoreOnly

LapseDispatch(j) ==
    /\ job[j].state = "queued" /\ ~job[j].lapsed
    /\ job' = [job EXCEPT ![j].lapsed = TRUE]
    /\ UNCHANGED place /\ StoreOnly

\* WORKER_SECONDS outlasts WALL_SECONDS: a worker that can still write or
\* complete has stopped before its deadline passes.
PassWorkerDeadline(j) ==
    /\ job[j].open
    /\ worker[j] \in {"failing", "purging", "releasing", "closing", "lost"}
    /\ job' = [job EXCEPT ![j].open = FALSE]
    /\ UNCHANGED place /\ StoreOnly

\* A permit outlives every worker by its grace period.
LapsePermit(j) ==
    /\ j \in permits /\ worker[j] = "lost"
    /\ permits' = permits \ {j}
    /\ UNCHANGED <<job, objects, reserved, request, dispatched, creator, worker,
                   janitor, world, calm>>

CreatorStep(j) ==
    \/ j \in Executions /\ (StartExecution(j) \/ StageSql(j) \/ InsertExecution(j))
    \/ j \in Derived /\ \E e \in Executions : Derive(j, e)
    \/ Dispatch(j) \/ FailDispatch(j) \/ AfterFailedDispatch(j)
    \/ DropInput(j) \/ DropReservation(j)

Clock ==
    \/ \E j \in Jobs : \/ Age(j) \/ LapseDispatch(j) \/ PassWorkerDeadline(j)
                       \/ LapsePermit(j)
    \/ CloseWorkspace

Next ==
    \/ \E j \in Jobs : \/ CreatorStep(j) \/ CrashCreator(j)
                       \/ WorkerStep(j) \/ CrashWorker(j) \/ Redispatch(j)
    \/ JanitorStep \/ JanitorStops
    \/ \E e \in Executions : Cancel(e)
    \/ \E v \in Views : DeleteView(v)
    \/ PurgeWorkspace \/ Clock

\* Workers and creators run to their end or crash; Cloud Tasks redeliver and
\* the scheduler sweeps for ever; time passes.
Spec == /\ Init /\ [][Next]_vars
        /\ \A j \in Jobs : /\ WF_vars(CreatorStep(j)) /\ WF_vars(WorkerStep(j))
                           /\ WF_vars(Age(j)) /\ WF_vars(LapseDispatch(j))
                           /\ WF_vars(PassWorkerDeadline(j))
        /\ WF_vars(JanitorStep) /\ WF_vars(CloseWorkspace)

-----------------------------------------------------------------------------
TypeOK ==
    /\ job \in [Jobs -> [state : States, open : BOOLEAN, expired : BOOLEAN,
                         lapsed : BOOLEAN, clean : BOOLEAN,
                         source : Executions \cup {None}]]
    /\ objects \in [Jobs -> SUBSET {"input", "result"}]
    /\ reserved \subseteq Jobs /\ permits \subseteq Jobs
    /\ dispatched \subseteq Jobs /\ misled \subseteq Executions
    /\ request \in [Requests -> Executions \cup {None}]
    /\ place \in {"active", "closed", "purged", "done"}
    /\ faults \in 0..MaxFaults

\* Nothing private is kept in the bucket without a reservation that accounts
\* for it: no upload of a worker, however late, survives or follows the
\* _release_storage of a cleanup, a purge or a failed creation.
ObjectsAreReserved ==
    \A j \in Jobs : objects[j] # {} => j \in reserved \/ j \in misled

\* What page and open_download serve is there: a job is only ever shown as
\* completed while its objects exist, whichever cleanup runs beside it.
Served(j) == Ready(j) /\ Admitted /\ (j \in Derived => Ready(job[j].source))
CompletedIsReadable ==
    \A j \in Jobs : Served(j) => "result" \in objects[j] \/ j \in misled

\* One client request makes one execution, whichever creators race.
OneCapture ==
    \A e \in Executions : job[e].state # "none" => request[asks[e]] = e

\* Once a cleanup has marked a job done, nothing of it comes back: a worker,
\* creator or sweep that still runs cannot upload or reserve for it again.
CleanedIsEmpty ==
    \A j \in Jobs : job[j].clean \/ job[j].state = "deleted"
                      => objects[j] = {} /\ j \notin reserved

\* The permit that sorts and exports share is held by one of them, and by one
\* that still works or was lost with it: a failed worker never keeps it.
PermitsAreReturned ==
    /\ Cardinality(permits \cap Derived) <= 1
    /\ \A j \in permits : worker[j] \in {"working", "writing", "uploaded",
                                          "finishing", "lost"}

\* Resources are accounted for in every state: objects by reservations, cleaned
\* jobs by nothing, permits by workers (_release_storage, _permit, the cleanups).
ResourcesAreAccountedFor ==
    TypeOK /\ ObjectsAreReserved /\ CleanedIsEmpty /\ PermitsAreReturned

\* A request has one capture, and a capture that is shown is whole
\* (create_execution, run_query, page, open_download).
CapturesAreWhole == OneCapture /\ CompletedIsReadable

\* A job that ended is never brought back: late workers, creators and sweeps
\* can only move it on towards expired, purged and deleted.
NoResurrection ==
    [][\A j \in Jobs :
        /\ job[j].state \in Terminal /\ job'[j].state # job[j].state
              => job'[j].state \in {"expired", "purged", "deleted"}
        /\ job[j].state = "completed" /\ job'[j].state # "completed"
              => \/ job'[j].state = "purged"
                 \/ /\ job'[j].state = "expired"
                    /\ job[j].expired \/ (j \in Derived /\ ~Ready(job[j].source))]_vars

\* Whatever crashed or was lost, every object is erased in the end and every
\* reservation given back: the budget cannot be leaked.
EverythingIsErased ==
    <>[](reserved = {} /\ \A j \in Jobs : objects[j] = {})
=============================================================================
