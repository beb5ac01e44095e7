---------------------------- MODULE Deployments ----------------------------
(***************************************************************************)
(* The deployment commands of one service: start_deployment and            *)
(* start_rollback behind the command fence, the dispatch to GitHub Actions *)
(* or to Cloud Build, the one-time release authorization of a workflow     *)
(* run, the engine's callbacks, and the readers that refresh a deployment  *)
(* from its provider.                                                      *)
(*                                                                         *)
(* A command is named by its idempotency key; caller[k] is the request     *)
(* that issues or repeats it (the key has a fence of its own, so there is  *)
(* one at a time).  Handlers are event and read requests, each of which    *)
(* reads first and writes later.  The store holds, per key, an intent      *)
(* document, the deployment item and the execution record.  Remote runs    *)
(* belong to the provider and are external.                                *)
(***************************************************************************)
EXTENDS Naturals, Sequences, FiniteSets

CONSTANTS Keys,         \* idempotency keys of the commands
          Handlers,     \* event and refresh requests
          Workloads,    \* the situations to explore: a set of Workload
          None

ASSUME NoneAssumption == None \notin Keys

VARIABLES load,      \* what each key asks for, and the bounds (immutable)
          fence,     \* owner of the service's command lock, or None
          intent,    \* keys with an "intent-..." document
          item,      \* status of the stored deployment of each key
          exec,      \* the private execution record of each key
          token,     \* authorizations issued for each key, in order
          runs,      \* remote runs created for each key
          live,      \* the command whose revision serves production
          caller, handler,
          mail,      \* engine events on their way
          calls, faults,
          excused    \* history: see ServiceWork

vars == <<load, fence, intent, item, exec, token, runs, live, caller,
          handler, mail, calls, faults, excused>>

Request == [provider : {"github_actions", "cloud_build"},
            kind     : {"deploy", "rollback"},
            runtime  : {"service", "independent", "job"}]

\* A workload says what is asked of which service, and bounds the calls issued
\* for each key, the refusals, lost answers, errors and crashes, and the handlers
\* that run at the same time.  Only the workflows of a "cgm-artemis-" service run
\* in stages, with tickets that a later stage verifies again.
Workload == [ask : [Keys -> Request], staged : BOOLEAN, calls : [Keys -> Nat],
             faults : Nat, handlers : SUBSET Handlers]

ASSUME WorkloadsAssumption == Workloads \subseteq Workload

Terminal == {"succeeded", "rolled_back", "failed", "failed_dispatch"}
ItemStatus == Terminal \cup {"none", "queued", "active", "unknown"}

ExecStatus ==
  {"none", "SUBMISSION_PENDING", "SUBMITTING", "SUBMISSION_UNKNOWN",
   "SUBMISSION_FAILED", "BOUND", "GITHUB_DISPATCHING", "GITHUB_ACCEPTED",
   "GITHUB_REJECTED", "GITHUB_UNCERTAIN"}

Busy  == {"working", "failing", "restoring"}
Ended == {"succeeded", "restored", "failed", "void"}
RunState == Busy \cup Ended \cup {"inflight", "queued"}

NoExec == [status |-> "none", build |-> 0, seq |-> 0]
Idle == [at |-> "idle", retry |-> FALSE, note |-> "none"]
Free == [at |-> "idle", key |-> None, seq |-> 0, status |-> "none"]

Github(k) == load.ask[k].provider = "github_actions"
Job(k) == load.ask[k].runtime = "job"

\* The status of a command that did what it was asked.
Done(k) == IF load.ask[k].kind = "rollback" THEN "rolled_back" ELSE "succeeded"

RunsIn(k, S) == {i \in DOMAIN runs[k] : runs[k][i].state \in S}
IsBusy(k) == RunsIn(k, Busy) # {}

----------------------------------------------------------------------------
(* Admission: the fence, the idempotency lookup and the active check.      *)

\* A document of the service that is not terminal, or a GitHub dispatch that
\* is under way or in doubt.
ActiveDeployment ==
  \/ intent # {}
  \/ \E k \in Keys :
       \/ item[k] \notin Terminal \cup {"none"}
       \/ item[k] # "none" /\ exec[k].status \in {"GITHUB_UNCERTAIN", "GITHUB_DISPATCHING"}

CanEnterFault(k) ==
  /\ caller[k].at = "idle"
  /\ calls[k] < load.calls[k]

CanEnter(k) ==
  /\ caller[k].at = "idle"
  /\ fence = None
  /\ calls[k] < load.calls[k]

Enter(k, at, retry) ==
  /\ CanEnter(k)
  /\ fence' = k
  /\ calls' = [calls EXCEPT ![k] = @ + 1]
  /\ caller' = [caller EXCEPT ![k] = [Idle EXCEPT !.at = at, !.retry = retry]]
  /\ UNCHANGED <<load, item, exec, token, runs, live, handler, mail, faults>>

\* The key is new to the store: it has neither an intent nor a deployment.
Unseen(k) == k \notin intent /\ item[k] = "none"

\* A key never seen, in a service where nothing is active.
Start(k) ==
  /\ Unseen(k)
  /\ ~ActiveDeployment
  /\ Enter(k, "intend", FALSE)
  /\ UNCHANGED <<intent, excused>>

\* A key whose dispatch failed: the same deployment is dispatched again, with
\* its own provider, unless GitHub may already have it.
CanRetry(k) ==
  /\ item[k] = "failed_dispatch"
  /\ exec[k].status \notin {"GITHUB_UNCERTAIN", "GITHUB_DISPATCHING", "GITHUB_ACCEPTED"}

RetryFailedDispatch(k) ==
  /\ CanRetry(k)
  /\ Enter(k, IF Github(k) THEN "reclaim" ELSE "submit", TRUE)
  /\ excused' = excused \cup {k}
  /\ UNCHANGED intent

----------------------------------------------------------------------------
(* Steps of a caller that holds the fence.                                 *)

At(k, where) == caller[k].at = where
Goto(k, where) == caller' = [caller EXCEPT ![k].at = where]
Note(k, where, what) == caller' = [caller EXCEPT ![k].at = where, ![k].note = what]
Leave(k) == caller' = [caller EXCEPT ![k] = Idle] /\ fence' = None

Fault == faults < load.faults /\ faults' = faults + 1
Mark(k, status) == exec' = [exec EXCEPT ![k].status = status]
Issue(k) == token' = [token EXCEPT ![k] = Append(@, "issued")]
Reserved(k) == [exec EXCEPT ![k].status = "SUBMISSION_PENDING"]

\* What is asked of the provider: the run knows its deployment and, on GitHub,
\* the authorization issued last.
NewRun(k, state) == [state |-> state, token |-> Len(token[k]), moved |-> FALSE]
Run(k, state) == runs' = [runs EXCEPT ![k] = Append(@, NewRun(k, state))]
\* The runs that the provider shows.
Visible(k) == RunsIn(k, RunState \ {"inflight"})

\* The intent is stored before anything external exists.
SaveIntent(k) ==
  /\ At(k, "intend")
  /\ intent' = intent \cup {k}
  /\ Goto(k, "create")
  /\ UNCHANGED <<load, fence, item, exec, token, runs, live, handler, mail, calls, faults,
                 excused>>

\* The GitHub Deployment object, the authorization of a workflow run and the
\* item that binds the admission to that object.
CreateDeployment(k) ==
  /\ At(k, "create") /\ Github(k)
  /\ item' = [item EXCEPT ![k] = "queued"]
  /\ Issue(k)
  /\ Goto(k, "unintend")
  /\ UNCHANGED <<load, fence, intent, exec, runs, live, handler, mail, calls,
                 faults, excused>>

\* The same object for a build of Cloud Build, which needs no authorization.
CreateManagedDeployment(k) ==
  /\ At(k, "create") /\ ~Github(k)
  /\ item' = [item EXCEPT ![k] = "queued"]
  /\ Goto(k, "unintend")
  /\ UNCHANGED <<load, fence, intent, exec, token, runs, live, handler, mail, calls,
                 faults, excused>>

\* Where the command goes on: with a workflow or with a build.
DispatchAt(k) == IF Github(k) THEN "reserve" ELSE "submit"

\* The second write of save: the intent goes once the item is durable.
DropIntent(k) ==
  /\ At(k, "unintend")
  /\ intent' = intent \ {k}
  /\ Goto(k, DispatchAt(k))
  /\ UNCHANGED <<load, fence, item, exec, token, runs, live, handler, mail, calls,
                 faults, excused>>

\* GitHub: the execution is reserved; a lookup that fails before the dispatch
\* fails the command without one.
Reserve(k) ==
  /\ At(k, "reserve")
  /\ exec' = Reserved(k)
  /\ \/ Goto(k, "claim") /\ UNCHANGED faults
     \/ Goto(k, "revoke") /\ Fault
  /\ UNCHANGED <<load, fence, intent, item, token, runs, live, handler, mail, calls,
                 excused>>

CanClaimDispatch(k) == exec[k].status \in {"SUBMISSION_PENDING", "GITHUB_REJECTED"}

ClaimDispatch(k) ==
  /\ At(k, "claim") /\ CanClaimDispatch(k)
  /\ Mark(k, "GITHUB_DISPATCHING")
  /\ Goto(k, "dispatch")
  /\ UNCHANGED <<load, fence, intent, item, token, runs, live, handler, mail, calls,
                 faults, excused>>

\* A retry claims first and remembers the status it claimed from.
ReclaimDispatch(k) ==
  /\ At(k, "reclaim") /\ CanClaimDispatch(k)
  /\ Mark(k, "GITHUB_DISPATCHING")
  /\ Note(k, "lookup", exec[k].status)
  /\ UNCHANGED <<load, fence, intent, item, token, runs, live, handler, mail, calls,
                 faults, excused>>

\* Then it looks its objects up and issues a new authorization; a failure
\* gives the claim back.
RetryLookup(k) ==
  /\ At(k, "lookup")
  /\ \/ /\ Issue(k) /\ Goto(k, "dispatch")
        /\ UNCHANGED <<exec, faults>>
     \/ /\ Mark(k, caller[k].note) /\ Goto(k, "fail") /\ Fault
        /\ UNCHANGED token
  /\ UNCHANGED <<load, fence, intent, item, runs, live, handler, mail, calls, excused>>

\* The workflow dispatch: accepted, rejected by a 4xx answer, or in doubt (an
\* exception or a False answer), in which case the run may exist, may appear
\* later or may never exist.
Accepted(k) ==
  Note(k, "record", "GITHUB_ACCEPTED") /\ Run(k, "queued") /\ UNCHANGED faults
Refused(k) ==
  \/ Note(k, "record", "GITHUB_REJECTED") /\ UNCHANGED runs
  \/ /\ Note(k, "record", "GITHUB_UNCERTAIN")
     /\ \/ UNCHANGED runs
        \/ \E state \in {"queued", "inflight"} : Run(k, state)
Dispatch(k) ==
  /\ At(k, "dispatch")
  /\ Accepted(k) \/ (Refused(k) /\ Fault)
  /\ UNCHANGED <<load, fence, intent, item, exec, token, live, handler, mail, calls,
                 excused>>

RecordDispatchFault(k) ==
  /\ At(k, "record")
  /\ Mark(k, IF caller[k].note = "GITHUB_ACCEPTED" THEN "GITHUB_ACCEPTED" ELSE "GITHUB_REJECTED")
  /\ IF caller[k].note = "GITHUB_ACCEPTED" THEN Note(k, "save", "queued")
     ELSE Goto(k, IF caller[k].retry THEN "fail" ELSE "revoke")
  /\ UNCHANGED <<load, fence, intent, item, token, runs, live, handler, mail, calls,
                 faults, excused>>

RecordDispatch(k) ==
  /\ At(k, "record")
  /\ Mark(k, caller[k].note)
  /\ IF caller[k].note = "GITHUB_ACCEPTED" THEN Note(k, "save", "queued")
     ELSE Goto(k, IF caller[k].retry THEN "fail" ELSE "revoke")
  /\ UNCHANGED <<load, fence, intent, item, token, runs, live, handler, mail, calls,
                 faults, excused>>

Revoked(k) == [token EXCEPT ![k][Len(token[k])] = "revoked"]
RevokeAuthorization(k) ==
  /\ At(k, "revoke")
  /\ token' = Revoked(k)
  /\ Goto(k, "fail")
  /\ UNCHANGED <<load, fence, intent, item, exec, runs, live, handler, mail, calls,
                 faults, excused>>

\* Cloud Build: return what is bound, bind what the listing shows, or go on to
\* claim the submission.  A listing that is refused fails the command.
Submit(k) ==
  /\ At(k, "submit")
  /\ LET reserved == IF exec[k].status = "none" THEN Reserved(k) ELSE exec
     IN  \/ /\ exec[k].build # 0
            /\ Note(k, "announce", item[k])
            /\ UNCHANGED <<exec, faults>>
         \/ /\ exec[k].build = 0
            /\ \E i \in Visible(k) :
                 exec' = [exec EXCEPT ![k].status = "BOUND", ![k].build = i]
            /\ Note(k, "announce", "queued")
            /\ UNCHANGED faults
         \/ /\ exec[k].build = 0 /\ Visible(k) = {}
            /\ exec' = reserved
            /\ Goto(k, "claim_submission")
            /\ UNCHANGED faults
         \/ /\ exec[k].build = 0
            /\ exec' = reserved
            /\ Goto(k, "fail") /\ Fault
  /\ UNCHANGED <<load, fence, intent, item, token, runs, live, handler, mail, calls,
                 excused>>

CanClaimSubmission(k) ==
  exec[k].build = 0 /\ exec[k].status \in {"SUBMISSION_PENDING", "SUBMISSION_FAILED"}

ClaimSubmission(k) ==
  /\ At(k, "claim_submission")
  /\ IF CanClaimSubmission(k)
     THEN Mark(k, "SUBMITTING") /\ Goto(k, "post")
     ELSE Goto(k, "fail") /\ UNCHANGED exec
  /\ UNCHANGED <<load, fence, intent, item, token, runs, live, handler, mail, calls,
                 faults, excused>>

\* The POST of the build: answered, refused (an error answer does not say that
\* no build exists), or without an answer.
Post(k) ==
  /\ At(k, "post")
  /\ \/ /\ Goto(k, "bind") /\ Run(k, "queued") /\ UNCHANGED faults
     \/ /\ Note(k, "settle", "SUBMISSION_FAILED") /\ Fault
        /\ UNCHANGED runs \/ Run(k, "queued")
     \/ /\ Note(k, "settle", "SUBMISSION_UNKNOWN") /\ Fault
        /\ \/ UNCHANGED runs
           \/ \E state \in {"queued", "inflight"} : Run(k, state)
  /\ UNCHANGED <<load, fence, intent, item, exec, token, live, handler, mail, calls,
                 excused>>

\* A submission in doubt is reported as a failed dispatch.
RecordSubmission(k) ==
  /\ At(k, "settle")
  /\ Mark(k, caller[k].note)
  /\ Goto(k, "fail")
  /\ excused' = IF runs[k] = <<>> THEN excused ELSE excused \cup {k}
  /\ UNCHANGED <<load, fence, intent, item, token, runs, live, handler, mail, calls,
                 faults>>

BindBuild(k) ==
  /\ At(k, "bind")
  /\ exec' = [exec EXCEPT ![k].status = "BOUND",
                          ![k].build = Len(runs[k])]
  /\ Note(k, "announce", "queued")
  /\ UNCHANGED <<load, fence, intent, item, token, runs, live, handler, mail, calls,
                 faults, excused>>

\* The GitHub Deployment status of a Cloud Build run.
Announce(k) ==
  /\ At(k, "announce")
  /\ Goto(k, "save")
  /\ UNCHANGED <<load, fence, intent, item, exec, token, runs, live, handler, mail,
                 calls, faults, excused>>

\* The command's answer is stored and the fence opens.
Save(k) ==
  /\ At(k, "save") \/ At(k, "fail")
  /\ item' = [item EXCEPT ![k] =
                IF At(k, "fail") THEN "failed_dispatch" ELSE caller[k].note]
  /\ Leave(k)
  /\ UNCHANGED <<load, intent, exec, token, runs, live, handler, mail, calls, faults,
                 excused>>

\* An exception that no handler maps to a state: 502, and the fence opens.
Abandon(k) ==
  /\ caller[k].at \in {"intend", "create", "unintend", "submit", "announce", "save", "fail",
                       "revoke", "lookup"}
  /\ Fault
  /\ Leave(k)
  /\ UNCHANGED <<load, intent, item, exec, token, runs, live, handler, mail, calls,
                 excused>>

\* The replica dies: no one ever opens the fence again.
Crash(k) ==
  /\ caller[k].at \notin {"idle", "dead"}
  /\ Fault
  /\ Goto(k, "dead")
  /\ UNCHANGED <<load, fence, intent, item, exec, token, runs, live, handler, mail,
                 calls, excused>>

----------------------------------------------------------------------------
(* The remote runs (external) and the engine's events.                     *)

SetRun(k, i, state, moved) ==
  runs' = [runs EXCEPT ![k][i].state = state, ![k][i].moved = @ \/ moved]

\* Only the engine under Cloud Build posts events.  It waits for the answer or
\* for its timeout before it goes on; an event is never resent.
Answered(k, i) == \A e \in mail : ~(e.key = k /\ e.run = i)

Emit(k, i, seq, verdict) ==
  mail' = IF Github(k) THEN mail
          ELSE mail \cup {[key |-> k, run |-> i, seq |-> seq, verdict |-> verdict]}

RemoteUnchanged == UNCHANGED <<load, fence, intent, item, exec, caller, handler, calls,
                               excused>>

Appear(k, i) ==
  /\ runs[k][i].state = "inflight"
  /\ \E state \in {"queued", "void"} : SetRun(k, i, state, FALSE)
  /\ UNCHANGED <<token, live, mail, faults>> /\ RemoteUnchanged

\* What the verified authorization of a run has become.
Ticket(k, i) == token[k][runs[k][i].token]

\* consume: the first creation of the authorization's record wins; a revoked
\* authorization has a record already.
CanConsume(k, i) == Ticket(k, i) = "issued"

\* The workflows of a service form one concurrency group: a run waits while
\* another is in progress.  (That a waiting run is cancelled, by somebody or by a
\* third run of the group, is left out.)
WorkflowAtWork == \E k \in Keys : Github(k) /\ IsBusy(k)

\* A Cloud Build run starts; a workflow run first consumes its authorization.
BeginRun(k, i) ==
  /\ runs[k][i].state = "queued"
  /\ Github(k) => ~WorkflowAtWork
  /\ IF Github(k)
     THEN IF CanConsume(k, i)
          THEN /\ token' = [token EXCEPT ![k][runs[k][i].token] = "consumed"]
               /\ SetRun(k, i, "working", FALSE)
          ELSE SetRun(k, i, "void", FALSE) /\ UNCHANGED token
     ELSE SetRun(k, i, "working", FALSE) /\ UNCHANGED token
  /\ Emit(k, i, 1, "active")
  /\ UNCHANGED <<live, faults>> /\ RemoteUnchanged

MayContinueFault(k, i) == TRUE

\* verify_continuation: the promoting job of a staged workflow goes on only with
\* a ticket that is consumed and not revoked.  The workflow of any other service
\* is one job, which asks for nothing after it has consumed.
MayContinue(k, i) == Github(k) /\ load.staged => Ticket(k, i) = "consumed"

\* The last check of a run and the promotion it allows are one step.
FinishRun(k, i) ==
  /\ runs[k][i].state = "working" /\ MayContinue(k, i) /\ Answered(k, i)
  /\ SetRun(k, i, "succeeded", TRUE)
  /\ live' = k
  /\ Emit(k, i, 3, Done(k))
  /\ UNCHANGED <<token, faults>> /\ RemoteUnchanged

\* The run fails.  A deployment then restores what it replaced: the engine of an
\* independent runtime or a Job reports the failure first, that of a service
\* reports that it rolls back (still an active status), a workflow queues its
\* rollback job.  A rollback command just ends.
FailRun(k, i) ==
  /\ runs[k][i].state = "working" /\ Answered(k, i)
  /\ IF load.ask[k].kind = "rollback" THEN SetRun(k, i, "failed", FALSE)
     ELSE SetRun(k, i, IF Github(k) THEN "failing" ELSE "restoring", FALSE)
  /\ IF load.ask[k].runtime # "service" \/ load.ask[k].kind = "rollback" THEN Emit(k, i, 2, "failed")
     ELSE UNCHANGED mail
  /\ UNCHANGED <<token, live, faults>> /\ RemoteUnchanged

QueueRestore(k, i) ==
  /\ runs[k][i].state = "failing"
  /\ SetRun(k, i, "restoring", FALSE)
  /\ UNCHANGED <<token, live, mail, faults>> /\ RemoteUnchanged

RestoreRun(k, i) ==
  /\ runs[k][i].state = "restoring" /\ Answered(k, i)
  /\ SetRun(k, i, "restored", FALSE)
  /\ Emit(k, i, 3, "rolled_back")
  /\ UNCHANGED <<token, live, faults>> /\ RemoteUnchanged

\* The event never reaches the platform.
LoseEvent(e) ==
  /\ mail' = mail \ {e}
  /\ UNCHANGED <<token, runs, live, faults>> /\ RemoteUnchanged

\* A timeout or a cancellation, perhaps just after production moved.
KillRun(k, i) ==
  /\ runs[k][i].state \in Busy
  /\ Fault
  /\ \/ SetRun(k, i, "failed", FALSE) /\ UNCHANGED live
     \/ /\ runs[k][i].state = "working" /\ MayContinue(k, i)
        /\ SetRun(k, i, "failed", TRUE) /\ live' = k
  /\ UNCHANGED <<token, mail>> /\ RemoteUnchanged

\* The executor reports its outcome and then fails to upload its summary: the
\* run fails after all, and says so.
LoseSummary(k, i) ==
  /\ runs[k][i].state = "succeeded" /\ ~Github(k) /\ Answered(k, i)
  /\ Fault
  /\ SetRun(k, i, "failed", FALSE)
  /\ Emit(k, i, 4, "failed")
  /\ UNCHANGED <<token, live>> /\ RemoteUnchanged

\* Somebody presses "re-run" on an ended workflow run: another attempt with the
\* same inputs and the same token.
RerunWorkflow(k, i) ==
  /\ Github(k) /\ i = Len(runs[k]) /\ runs[k][i].state \in Ended \ {"void"}
  /\ Fault
  /\ runs' = [runs EXCEPT ![k] = Append(@, [state |-> "queued", token |-> runs[k][i].token,
                                            moved |-> FALSE])]
  /\ UNCHANGED <<token, live, mail>> /\ RemoteUnchanged

----------------------------------------------------------------------------
(* Handlers: the event callback and the readers that refresh.              *)

HandlerUnchanged == UNCHANGED <<load, fence, intent, token, runs, live, caller, calls,
                                faults>>

\* accept_event reads the execution and the item and verifies the build.
ReceiveEvent(h, e) ==
  /\ handler[h].at = "idle" /\ e \in mail
  /\ mail' = mail \ {e}
  /\ IF item[e.key] # "none" /\ exec[e.key].build = e.run
     THEN handler' = [handler EXCEPT ![h] = [at |-> "accept", key |-> e.key,
                                             seq |-> e.seq, status |-> e.verdict]]
     ELSE UNCHANGED handler
  /\ UNCHANGED <<item, exec, excused>> /\ HandlerUnchanged

\* Only a sequence above the recorded one is accepted.
IsNewer(k, seq) == seq > exec[k].seq

AcceptEvent(h) ==
  /\ handler[h].at = "accept"
  /\ LET k == handler[h].key IN
     IF IsNewer(k, handler[h].seq)
     THEN /\ exec' = [exec EXCEPT ![k].seq = handler[h].seq]
          /\ handler' = [handler EXCEPT ![h].at = "write"]
     ELSE /\ handler' = [handler EXCEPT ![h] = Free]
          /\ UNCHANGED exec
  /\ UNCHANGED <<item, mail, excused>> /\ HandlerUnchanged

\* GitHub: the status of the run's last attempt follows from its jobs, where a
\* failed job outweighs a rollback job that has not started.
OfJobs(k) ==
  {status \in Terminal \cup {"active"} :
     /\ runs[k] # <<>>
     /\ LET state == runs[k][Len(runs[k])].state IN
          \/ state \in {"working", "restoring"} /\ status = "active"
          \/ state \in {"failing", "failed", "void"} /\ status = "failed"
          \/ state = "restored" /\ status = "rolled_back"
          \/ state = "succeeded" /\ status = Done(k)}

ObservedFault(k) ==
  IF Github(k)
  THEN OfJobs(k)
  ELSE IF exec[k].build = 0 THEN {}
  ELSE LET state == runs[k][exec[k].build].state
       IN CASE state = "queued" -> {"queued"}
            [] state \in Busy -> {"active"}
            [] state \in Ended -> {Done(k)}

\* An ended build is judged by the production traffic and the health of what
\* serves; a Job by its summary and its image, and a failed one by nothing.
Healthy(k) == {Done(k), "unknown"}
OfTraffic(k) == IF live = k THEN Healthy(k) ELSE {"failed", "unknown"}
OfJob(k, state) == IF state = "succeeded" /\ live = k THEN {Done(k), "unknown"} ELSE {"unknown"}

\* The status a reader computes from the provider.
Observed(k) ==
  IF Github(k)
  THEN OfJobs(k)
  ELSE IF exec[k].build = 0 THEN {}
  ELSE LET state == runs[k][exec[k].build].state
       IN CASE state = "queued" -> {"queued"}
            [] state \in Busy -> {"active"}
            [] state \in Ended -> IF Job(k) THEN OfJob(k, state) ELSE OfTraffic(k)

UnfinishedFault(k) == item[k] \notin Terminal \cup {"none", "unknown"}

Unfinished(k) == item[k] \notin Terminal \cup {"none"}

\* A reader of an unfinished deployment, or the sweep of stalled dispatches.
Refresh(h, k, status) ==
  /\ handler[h].at = "idle"
  /\ Unfinished(k)
  /\ status \in Observed(k) \ {item[k]}
  /\ handler' = [handler EXCEPT ![h] = [at |-> "write", key |-> k, seq |-> 0,
                                        status |-> status]]
  /\ UNCHANGED <<item, exec, mail, excused>> /\ HandlerUnchanged

\* The webhook of an ended workflow run: the item is stored again with the run's
\* id and the status it had when it was read, or as failed when GitHub refused
\* to start any step of the run.
WorkflowRunEnded(h, k) ==
  /\ handler[h].at = "idle" /\ Github(k) /\ item[k] # "none"
  /\ RunsIn(k, Ended) # {}
  /\ \E status \in {item[k]} \cup IF RunsIn(k, {"void"}) # {} /\ item[k] # "failed_dispatch"
                                 THEN {"failed"} ELSE {} :
       handler' = [handler EXCEPT ![h] = [at |-> "write", key |-> k, seq |-> 0,
                                          status |-> status]]
  /\ UNCHANGED <<item, exec, mail, excused>> /\ HandlerUnchanged

\* The item read earlier is written back whole, with its new status.
WriteItem(h) ==
  /\ handler[h].at = "write"
  /\ LET k == handler[h].key IN
     /\ item' = [item EXCEPT ![k] = handler[h].status]
     /\ excused' = IF handler[h].status \in Terminal /\ IsBusy(k)
                   THEN excused \cup {k} ELSE excused
  /\ handler' = [handler EXCEPT ![h] = Free]
  /\ UNCHANGED <<exec, mail>> /\ HandlerUnchanged

\* The sweep meets an intent whose cleanup failed.  It takes the intent for a
\* GitHub dispatch without a run and saves it under the key, which removes the
\* deployment that already holds the key; when a workflow run with that tag is
\* there, the intent adopts it.
SweepIntent(k) ==
  /\ k \in intent /\ item[k] # "none"
  /\ caller[k].at \in {"idle", "dead"}
  /\ IF Github(k) /\ load.ask[k].kind = "deploy" /\ Observed(k) # {}
     THEN /\ \E status \in Observed(k) : item' = [item EXCEPT ![k] = status]
          /\ intent' = intent \ {k}
          /\ exec' = [exec EXCEPT ![k] = NoExec]
          /\ excused' = IF IsBusy(k) THEN excused \cup {k} ELSE excused
     ELSE /\ item' = [item EXCEPT ![k] = "none"]
          /\ UNCHANGED <<intent, exec, excused>>
  /\ UNCHANGED <<load, fence, token, runs, live, caller, handler, mail, calls, faults>>

----------------------------------------------------------------------------
Init ==
  /\ load \in Workloads
  /\ fence = None
  /\ intent = {}
  /\ item = [k \in Keys |-> "none"]
  /\ exec = [k \in Keys |-> NoExec]
  /\ token = [k \in Keys |-> <<>>]
  /\ runs = [k \in Keys |-> <<>>]
  /\ live = None
  /\ caller = [k \in Keys |-> Idle]
  /\ handler = [h \in Handlers |-> Free]
  /\ mail = {}
  /\ calls = [k \in Keys |-> 0]
  /\ faults = 0
  /\ excused = {}

Command(k) ==
  \/ Start(k) \/ RetryFailedDispatch(k)
  \/ SaveIntent(k) \/ CreateDeployment(k) \/ CreateManagedDeployment(k) \/ DropIntent(k)
  \/ Reserve(k) \/ ClaimDispatch(k) \/ ReclaimDispatch(k) \/ RetryLookup(k) \/ Dispatch(k) \/ RecordDispatch(k)
  \/ RevokeAuthorization(k) \/ Submit(k) \/ ClaimSubmission(k) \/ Post(k)
  \/ RecordSubmission(k) \/ BindBuild(k) \/ Announce(k) \/ Save(k)
  \/ Abandon(k) \/ Crash(k)

Remote(k, i) ==
  \/ Appear(k, i) \/ BeginRun(k, i) \/ FinishRun(k, i) \/ FailRun(k, i)
  \/ QueueRestore(k, i) \/ RestoreRun(k, i) \/ KillRun(k, i) \/ LoseSummary(k, i)
  \/ RerunWorkflow(k, i)

Handle(h) ==
  \/ \E e \in mail : ReceiveEvent(h, e)
  \/ AcceptEvent(h)
  \/ \E k \in Keys, status \in ItemStatus : Refresh(h, k, status)
  \/ \E k \in Keys : WorkflowRunEnded(h, k)
  \/ WriteItem(h)

Next ==
  \/ \E k \in Keys : Command(k)
  \/ \E k \in Keys : \E i \in DOMAIN runs[k] : Remote(k, i)
  \/ \E e \in mail : LoseEvent(e)
  \/ \E h \in load.handlers : Handle(h)
  \/ \E k \in Keys : SweepIntent(k)

\* A handler that has begun runs to its end, and somebody keeps reading an
\* unfinished deployment (its page polls) until the runtime can be verified.
Fairness ==
  /\ WF_vars(\E h \in load.handlers : AcceptEvent(h) \/ WriteItem(h))
  /\ \A k \in Keys :
       SF_vars(\E h \in load.handlers, status \in Terminal : Refresh(h, k, status))

Spec == Init /\ [][Next]_vars
FairSpec == Spec /\ Fairness

----------------------------------------------------------------------------
(* Correctness.                                                            *)

\* Every variable keeps its shape; a bound build and a run's authorization are
\* ones that exist (_bind_build, issue).
TypeOK ==
  /\ load \in Workload
  /\ fence \in Keys \cup {None}
  /\ intent \subseteq Keys
  /\ item \in [Keys -> ItemStatus]
  /\ \A k \in Keys :
       /\ exec[k].status \in ExecStatus /\ exec[k].seq \in 0..4
       /\ exec[k].build \in 0..Len(runs[k])
       /\ \A i \in DOMAIN token[k] : token[k][i] \in {"issued", "consumed", "revoked"}
       /\ \A i \in DOMAIN runs[k] : /\ runs[k][i].state \in RunState
                                    /\ runs[k][i].token \in 0..Len(token[k])
                                    /\ Github(k) => runs[k][i].token > 0
  /\ live \in Keys \cup {None}
  /\ excused \subseteq Keys

\* While the service is open to a new command - no fence, nothing active - no
\* run of a command that is not excused can still act: what has not ended is a
\* workflow run that its authorization no longer lets begin.  So it is whatever
\* answers, replicas, intents or callbacks were lost on the way
\* (command_guard, _active_deployment, persist_before_dispatch).
OpenMeansQuiet ==
  fence = None /\ ~ActiveDeployment =>
    \A k \in Keys \ excused : \A i \in DOMAIN runs[k] :
      runs[k][i].state \notin Ended =>
        /\ Github(k) /\ runs[k][i].state = "queued"
        /\ token[k][runs[k][i].token] # "issued"

\* A deployment is recorded as successful only when its run moved production,
\* however late the record is written and whatever became of the build
\* (cloud_build._reconcile, accept_event, github refresh).
SuccessMovedProduction ==
  \A k \in Keys :
    item[k] = Done(k) /\ (load.ask[k].kind = "deploy" => item[k] = "succeeded") =>
      \E i \in DOMAIN runs[k] : runs[k][i].moved

\* A workflow run begins only with an authorization that no run has used and no
\* caller has revoked; a run of a staged workflow moves production, now or in its
\* last moments, only if its authorization was still not revoked when its promoting
\* job asked to continue.  The one-job workflow of any other service does promote
\* after a revocation that came too late for its consume (consume, revoke,
\* verify_continuation).
RevokedIsFenced ==
  [][\A k \in Keys : \A i \in DOMAIN runs[k] :
       Github(k) =>
         /\ runs[k][i].state = "queued" /\ runs'[k][i].state \in Busy =>
              token[k][runs[k][i].token] = "issued"
         /\ load.staged /\ runs'[k][i].moved /\ ~runs[k][i].moved =>
              token[k][runs[k][i].token] = "consumed"]_vars

\* The projection of an event is never older than the last one accepted when
\* its own acceptance was decided: the recorded sequence only grows
\* (deployment_executions.accept_event).
SequenceGrows ==
  [][\A k \in Keys : exec'[k] # NoExec => exec'[k].seq >= exec[k].seq]_vars

\* The records are well formed and tell of success only what production shows
\* (bind_build, _reconcile, accept_event).
RecordsAreTrue == TypeOK /\ SuccessMovedProduction

\* Late runs and late events are fenced: by the authorization of their run and
\* by the sequence of their execution (consume, verify_continuation, accept_event).
LateIsFenced == RevokedIsFenced /\ SequenceGrows

\* Detailed commands implement the abstract promise: one effective remote run
\* per command, and no overlap except with an excused one.
Promise == INSTANCE ServiceWork WITH
  begun   <- {k \in Keys : RunsIn(k, Busy \cup (Ended \ {"void"})) # {}},
  working <- {k \in Keys : IsBusy(k)},
  excused <- excused

EffectsOnce == Promise!Spec

\* A deployment to Cloud Build whose build has ended is settled in the end,
\* though every callback may be lost (cloud_build.refresh).  A failed Job is
\* not covered: without its callback the code leaves it UNKNOWN.
BuildIsSettled ==
  \A k \in Keys :
    (/\ exec[k].build # 0 /\ ~Job(k)
     /\ item[k] \notin Terminal \cup {"none"}
     /\ runs[k][exec[k].build].state \in Ended)
      ~> item[k] \in Terminal \cup {"none"}

\* What the API documents: a command is refused while another deployment of
\* the service is active, so of the deployments recorded as unfinished at most
\* one is at work.  (Two workflow runs are kept apart by their concurrency group
\* in any case; nothing keeps a workflow run and a build apart, or two builds.)
OneWorkingRun == Cardinality({k \in Keys : IsBusy(k) /\ Unfinished(k)}) <= 1
=============================================================================
