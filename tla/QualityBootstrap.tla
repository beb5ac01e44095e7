-------------------------- MODULE QualityBootstrap --------------------------
(***************************************************************************)
(* The quality bootstrap: one release execution that waits for GitHub may  *)
(* be handed to Cloud Build, once in the life of the platform.  A global   *)
(* ticket is consumed in the transaction that changes the provider; only   *)
(* the request that consumed it may send the one POST, and whatever that   *)
(* leaves in doubt is recovered by reading builds, never by sending again. *)
(*                                                                         *)
(* The nonce of an attempt is the request that made it.  What must hold    *)
(* outside (the operator's permission, the policy on new builds, the       *)
(* disabled workflow without runs of this head) can change at any time.    *)
(***************************************************************************)
EXTENDS Naturals, FiniteSets

CONSTANTS Requests,     \* requests of operators, repeated ones included
          Sweepers,     \* reconciliations at a time
          Callbacks,    \* callbacks of builds handled at a time
          MaxBuilds,    \* bound on builds with the tag of the execution
          MaxFaults,    \* bound on crashes, lost answers and failed reads
          MaxChanges,   \* bound on changes outside
          None

\* A build: the nonce it carries, whether its request was edited, its state.
Build == [nonce : Requests, altered : BOOLEAN,
          state : {"running", "succeeded", "failed"}]

ASSUME BootstrapAssumption ==
  /\ None \notin Requests \cup Build
  /\ {MaxBuilds, MaxFaults, MaxChanges} \subseteq Nat

Builds == 1..MaxBuilds

VARIABLES rec,       \* the execution
          ticket,    \* the global ticket: None, or the request that consumed it
          req,       \* [at, build] of each request
          sweep,     \* [at, build, caller] of each reconciliation and callback
          builds,    \* Cloud Build: the builds, [nonce, altered, state]
          workflow,  \* GitHub: "disabled", "enabled", "ran"
          holding,   \* the conditions outside that hold
          faults, changes,
          posts      \* history: POSTs sent

outside == <<workflow, holding>>
bounds == <<faults, changes>>
vars == <<rec, ticket, req, sweep, builds, outside, bounds, posts>>

Fresh == [provider |-> "github_actions", status |-> "waiting_github", nonce |-> None,
          dispatched |-> FALSE, build |-> 0, verified |-> FALSE, run |-> FALSE,
          token |-> 0, report |-> "none"]
Idle == [at |-> "idle", build |-> 0]
Asleep == [at |-> "idle", build |-> 0, caller |-> 0]
Terminal == {"quality_passed", "quality_failed", "failed"}

\* The operator is allowlisted and its session holds; new builds are allowed;
\* catalog, profile, executor and price are the approved ones; so is the head
\* of the open pull request.
Conditions == {"operator", "policy", "identity", "pull_request"}
Authorized == "operator" \in holding
NewBuildsAllowed == "policy" \in holding
Identified == "identity" \in holding

Fault == faults < MaxFaults /\ faults' = faults + 1
Goes(r, at) == req' = [req EXCEPT ![r].at = at]

----------------------------------------------------------------------------
(* Transactions of the store.                                              *)

\* Which statuses may follow another; nothing follows a completed bootstrap.
Following(status) ==
  CASE status = "submitting" -> {"running_quality", "unknown"} \cup Terminal
    [] status = "running_quality" -> {"unknown"} \cup Terminal
    [] status = "unknown" -> {"running_quality", "failed"}
    [] OTHER -> {}
MayBecomeFault(status) ==
  status \in {rec.status} \cup Following(rec.status)
            \cup IF rec.status = "quality_passed" THEN {"failed", "unknown"} ELSE {}
MayBecome(status) == status \in {rec.status} \cup Following(rec.status)

\* A fresh execution that no run, token or event has touched.
CanReserve(r) ==
  /\ ticket = None
  /\ rec.provider = "github_actions" /\ rec.status = "waiting_github"
  /\ rec.nonce = None /\ ~rec.run /\ rec.token = 0 /\ rec.report = "none"
Reserved(r) == [rec EXCEPT !.provider = "cloud_build", !.status = "submitting", !.nonce = r]

\* The winner's permit is consumed before the only POST.
CanClaim(r) ==
  /\ rec.nonce = r /\ ~rec.dispatched
  /\ rec.provider = "cloud_build" /\ rec.status = "submitting" /\ rec.build = 0

\* A verified build of a started dispatch; a binding is never replaced.
CanBind(nonce, b) ==
  /\ rec.nonce = nonce /\ rec.dispatched
  /\ rec.build \in {0, b}
  /\ MayBecome("running_quality")
Bound(b) == [rec EXCEPT !.build = b, !.verified = TRUE, !.status = "running_quality"]

\* admit_github_run: a run of GitHub is admitted unless the bootstrap was faster.
CanAdmit ==
  /\ rec.provider = "github_actions" /\ rec.nonce = None
  /\ rec.status \in {"waiting_github", "running_quality"}

----------------------------------------------------------------------------
(* A request of an operator.                                               *)

\* The permission, the ticket, the policy and the execution.  A consumed ticket
\* answers its own key with the status and refuses every other: neither goes on.
Begin(r) ==
  /\ req[r].at = "idle"
  /\ Goes(r, IF Authorized /\ NewBuildsAllowed /\ Identified /\ CanReserve(r)
             THEN "proof" ELSE "done")
  /\ UNCHANGED <<rec, ticket, sweep, builds, outside, bounds, posts>>

\* verify_quality_bootstrap_preconditions: the pull request is as approved, the
\* workflow is disabled and has no run of this head.
Proven == workflow = "disabled" /\ "pull_request" \in holding
Prove(r, from, to, onFail) ==
  /\ req[r].at = from
  /\ \/ Proven /\ Goes(r, to) /\ UNCHANGED faults
     \/ ~Proven /\ Goes(r, onFail) /\ UNCHANGED faults
     \/ Goes(r, onFail) /\ Fault
  /\ UNCHANGED <<rec, ticket, sweep, builds, outside, changes, posts>>

ReserveFault(r) ==
  /\ req[r].at = "reserve"
  /\ IF Authorized
     THEN /\ rec' = [Fresh EXCEPT !.provider = "cloud_build", !.status = "submitting",
                                  !.nonce = r]
          /\ ticket' = r /\ Goes(r, "recheck")
     ELSE Goes(r, "done") /\ UNCHANGED <<rec, ticket>>
  /\ UNCHANGED <<sweep, builds, outside, bounds, posts>>

\* Ticket and execution change together, or the request goes without.
Reserve(r) ==
  /\ req[r].at = "reserve"
  /\ IF Authorized /\ NewBuildsAllowed /\ CanReserve(r)
     THEN /\ rec' = Reserved(r) /\ ticket' = r
          /\ \/ Goes(r, "recheck") /\ UNCHANGED faults
             \/ Goes(r, "done") /\ Fault      \* the answer is lost
     ELSE Goes(r, "done") /\ UNCHANGED <<rec, ticket, faults>>
  /\ UNCHANGED <<sweep, builds, outside, changes, posts>>

\* After the reservation everything is checked once more.
Recheck(r) ==
  /\ req[r].at = "recheck"
  /\ Goes(r, IF Authorized /\ Identified /\ rec.status = "submitting" /\ rec.nonce = r
             THEN "reproof" ELSE "read")
  /\ UNCHANGED <<rec, ticket, sweep, builds, outside, bounds, posts>>

\* submit_quality_bootstrap up to the claim.
Claim(r) ==
  /\ req[r].at = "claim"
  /\ IF NewBuildsAllowed /\ Authorized /\ CanClaim(r)
     THEN /\ rec' = [rec EXCEPT !.dispatched = TRUE]
          /\ \/ Goes(r, "post") /\ UNCHANGED faults
             \/ Goes(r, "read") /\ Fault
     ELSE Goes(r, "read") /\ UNCHANGED <<rec, faults>>
  /\ UNCHANGED <<ticket, sweep, builds, outside, changes, posts>>

\* The last authorization and the POST, whose answer may be lost or refused, or
\* show another build than was asked for.
NewBuild(nonce, altered) == [nonce |-> nonce, altered |-> altered, state |-> "running"]
FreeBuilds == {b \in Builds : builds[b] = None}
Post(r) ==
  /\ req[r].at = "post"
  /\ IF Authorized /\ NewBuildsAllowed
     THEN /\ posts' = posts + 1
          /\ \/ \E b \in FreeBuilds :
                  \/ /\ builds' = [builds EXCEPT ![b] = NewBuild(r, FALSE)]
                     /\ \/ /\ req' = [req EXCEPT ![r] = [at |-> "bind", build |-> b]]
                           /\ UNCHANGED faults
                        \/ Goes(r, "read") /\ Fault
                  \/ /\ builds' = [builds EXCEPT ![b] = NewBuild(r, TRUE)]
                     /\ req' = [req EXCEPT ![r] = [at |-> "bind", build |-> b]] /\ Fault
             \/ Goes(r, "read") /\ Fault /\ UNCHANGED builds
     ELSE Goes(r, "read") /\ UNCHANGED <<builds, posts, faults>>
  /\ UNCHANGED <<rec, ticket, sweep, outside, changes>>

VerifiedFault(nonce, b) == builds[b] # None

\* verify_quality_bootstrap_build: every field that carries input is the
\* consumed request's.
Verified(nonce, b) == builds[b] # None /\ builds[b].nonce = nonce /\ ~builds[b].altered
Bind(r) ==
  /\ req[r].at = "bind"
  /\ IF Verified(r, req[r].build) /\ CanBind(r, req[r].build)
     THEN /\ rec' = Bound(req[r].build)
          /\ \/ Goes(r, "done") /\ UNCHANGED faults
             \/ Goes(r, "read") /\ Fault
     ELSE Goes(r, "read") /\ UNCHANGED <<rec, faults>>
  /\ UNCHANGED <<ticket, sweep, builds, outside, changes, posts>>

\* The handler of any failure after the reservation: what is not settled yet is
\* made unknown.
ReadLatest(r) ==
  /\ req[r].at = "read"
  /\ Goes(r, IF rec.status \in {"submitting", "running_quality", "unknown"}
             THEN "write" ELSE "done")
  /\ UNCHANGED <<rec, ticket, sweep, builds, outside, bounds, posts>>
MakeUnknown(r) ==
  /\ req[r].at = "write" /\ Goes(r, "done")
  /\ rec' = IF rec.nonce = r /\ MayBecome("unknown")
            THEN [rec EXCEPT !.status = "unknown"] ELSE rec
  /\ UNCHANGED <<ticket, sweep, builds, outside, bounds, posts>>

Crash(r) ==
  /\ req[r].at \notin {"idle", "done"} /\ Fault
  /\ Goes(r, "done")
  /\ UNCHANGED <<rec, ticket, sweep, builds, outside, changes, posts>>

----------------------------------------------------------------------------
(* Recovery by reading.                                                    *)

RecoverableFault == rec.status = "unknown"

Recoverable == rec.status \in {"submitting", "unknown"}

Carrying(nonce) == {b \in Builds : builds[b] # None /\ builds[b].nonce = nonce}
\* The listing binds the only build with the nonce, and nothing when one of
\* them was altered, is not the one that calls, or has a twin.
Found(caller) ==
  LET matches == Carrying(rec.nonce)
  IN  IF rec.build # 0
      THEN IF Verified(rec.nonce, rec.build) /\ caller \in {0, rec.build} THEN {rec.build} ELSE {}
      ELSE IF /\ Cardinality(matches) = 1
              /\ \A b \in matches : Verified(rec.nonce, b) /\ caller \in {0, b}
           THEN matches ELSE {}

\* reconcile_quality_bootstrap, for a sweep (caller 0) or a build that calls; the
\* build that is bound already is only verified.
Look(s, caller) ==
  /\ sweep[s].at = "idle"
  /\ rec.nonce # None
  /\ caller # 0 => builds[caller] # None /\ builds[caller].state = "running"
                   /\ rec.build \in {0, caller}
  /\ \/ /\ Recoverable /\ Found(caller) # {} /\ 0 \in {caller, rec.build}
        /\ sweep' = [sweep EXCEPT ![s] = [at |-> "bind", caller |-> caller,
                                          build |-> CHOOSE b \in Found(caller) : TRUE]]
     \/ /\ caller # 0 /\ rec.build = caller /\ Verified(rec.nonce, caller)
        /\ sweep' = [sweep EXCEPT ![s] = [at |-> "admit", build |-> caller, caller |-> caller]]
  /\ UNCHANGED <<rec, ticket, req, builds, outside, bounds, posts>>
BindFound(s) ==
  LET b == sweep[s].build
  IN  /\ sweep[s].at = "bind"
      /\ \/ /\ CanBind(rec.nonce, b) /\ rec' = Bound(b)
            /\ sweep' = [sweep EXCEPT ![s].at = IF sweep[s].caller = 0 THEN "idle" ELSE "admit"]
         \/ /\ ~CanBind(rec.nonce, b) /\ UNCHANGED rec
            /\ sweep' = [sweep EXCEPT ![s] = Asleep]
      /\ UNCHANGED <<ticket, req, builds, outside, bounds, posts>>

\* The token for the source goes once, to the verified build that calls.
CanIssue(b) == rec.verified /\ rec.build = b /\ rec.token = 0 /\ rec.status \notin Terminal
IssueToken(s) ==
  /\ sweep[s].at = "admit"
  /\ rec' = IF CanIssue(sweep[s].build) THEN [rec EXCEPT !.token = sweep[s].build] ELSE rec
  /\ sweep' = [sweep EXCEPT ![s] = Asleep]
  /\ UNCHANGED <<ticket, req, builds, outside, bounds, posts>>

\* The build that holds the token reports its verdict.
CanReport(b) == rec.verified /\ rec.build = b /\ rec.token = b /\ rec.status \notin Terminal
Report(b, verdict) ==
  /\ builds[b] # None /\ builds[b].state = "running" /\ CanReport(b)
  /\ rec.report = "none"
  /\ rec' = [rec EXCEPT !.report = verdict]
  /\ builds' = [builds EXCEPT ![b].state = "succeeded"]
  /\ UNCHANGED <<ticket, req, sweep, outside, bounds, posts>>

\* A bound build that ended decides: its report, or a failure.
Consolidate ==
  /\ rec.status = "running_quality" /\ rec.build # 0
  /\ builds[rec.build].state # "running"
  /\ rec' = [rec EXCEPT !.status = IF builds[rec.build].state = "succeeded" /\ rec.report # "none"
                                   THEN rec.report ELSE "failed"]
  /\ UNCHANGED <<ticket, req, sweep, builds, outside, bounds, posts>>

----------------------------------------------------------------------------
(* GitHub, Cloud Build and operators.                                      *)

Admit ==
  /\ workflow = "ran" /\ CanAdmit /\ ~rec.run
  /\ rec' = [rec EXCEPT !.run = TRUE]
  /\ UNCHANGED <<ticket, req, sweep, builds, outside, bounds, posts>>

Change == changes < MaxChanges /\ changes' = changes + 1
Outside ==
  /\ Change
  /\ \/ workflow = "disabled" /\ workflow' = "enabled" /\ UNCHANGED <<holding, builds>>
     \/ /\ \E c \in Conditions : holding' = (holding \ {c}) \cup ({c} \ holding)
        /\ UNCHANGED <<workflow, builds>>
     \/ \* someone runs the build again, as it was or edited
        /\ \E b \in FreeBuilds, altered \in BOOLEAN :
             /\ rec.nonce # None /\ Carrying(rec.nonce) # {}
             /\ builds' = [builds EXCEPT ![b] = NewBuild(rec.nonce, altered)]
        /\ UNCHANGED <<workflow, holding>>
  /\ UNCHANGED <<rec, ticket, req, sweep, faults, posts>>
StartRun ==
  /\ workflow = "enabled" /\ workflow' = "ran"
  /\ UNCHANGED <<rec, ticket, req, sweep, builds, holding, bounds, posts>>
EndBuild(b) ==
  /\ builds[b] # None /\ builds[b].state = "running"
  /\ builds' = [builds EXCEPT ![b].state = "failed"]
  /\ UNCHANGED <<rec, ticket, req, sweep, outside, bounds, posts>>

----------------------------------------------------------------------------
Init ==
  /\ rec = Fresh /\ ticket = None
  /\ req = [r \in Requests |-> Idle] /\ sweep = [s \in Sweepers \cup Callbacks |-> Asleep]
  /\ builds = [b \in Builds |-> None]
  /\ workflow = "disabled" /\ holding = Conditions
  /\ faults = 0 /\ changes = 0 /\ posts = 0

Step(r) ==
  \/ Begin(r) \/ Prove(r, "proof", "reserve", "done") \/ Reserve(r) \/ Recheck(r)
  \/ Prove(r, "reproof", "claim", "read") \/ Claim(r) \/ Post(r) \/ Bind(r)
  \/ ReadLatest(r) \/ MakeUnknown(r)
Sweep(s) == Look(s, 0) \/ BindFound(s)
Serve(s) == BindFound(s) \/ IssueToken(s)

Next ==
  \/ \E r \in Requests : Step(r) \/ Crash(r)
  \/ \E s \in Sweepers : Sweep(s)
  \/ \E s \in Callbacks : Serve(s) \/ \E b \in Builds : Look(s, b)
  \/ \E b \in Builds, v \in {"quality_passed", "quality_failed"} : Report(b, v)
  \/ \E b \in Builds : EndBuild(b)
  \/ Consolidate \/ Admit \/ Outside \/ StartRun

\* Cloud Scheduler repeats the reconciliation; a request or a callback that is
\* not cut off goes on.
Spec == Init /\ [][Next]_vars
FairSpec == Spec /\ (\A s \in Sweepers : WF_vars(Sweep(s)))
                 /\ (\A s \in Callbacks : WF_vars(Serve(s)))
                 /\ (\A r \in Requests : WF_vars(Step(r)))

----------------------------------------------------------------------------
(* Correctness.                                                            *)

ExecutionType ==
  [provider : {"github_actions", "cloud_build"},
   status : Terminal \cup {"waiting_github", "submitting", "running_quality", "unknown"},
   nonce : Requests \cup {None}, dispatched : BOOLEAN, build : {0} \cup Builds,
   verified : BOOLEAN, run : BOOLEAN, token : {0} \cup Builds,
   report : {"none", "quality_passed", "quality_failed"}]

TypeOK ==
  /\ rec \in ExecutionType
  /\ ticket \in Requests \cup {None} /\ rec.nonce = ticket
  /\ req \in [Requests ->
       [at : {"idle", "proof", "reserve", "recheck", "reproof", "claim", "post", "bind", "read",
              "write", "done"}, build : {0} \cup Builds]]
  /\ sweep \in [Sweepers \cup Callbacks ->
       [at : {"idle", "bind", "admit"}, build : {0} \cup Builds, caller : {0} \cup Builds]]
  /\ builds \in [Builds -> Build \cup {None}]
  /\ workflow \in {"disabled", "enabled", "ran"} /\ holding \subseteq Conditions

\* However requests interleave, are repeated or die, one POST is sent at most,
\* and none after a reservation that was not this request's
\* (reserve_quality_bootstrap, claim_quality_bootstrap_dispatch).
OnePost == posts <= 1 /\ (posts = 1 => rec.dispatched)

\* GitHub and the bootstrap never both own the execution, whichever of the
\* webhook and the reservation comes first (admit_github_run, CanReserve).
OneEngine == ~(rec.run /\ rec.nonce # None)

\* An execution has one attempt and one owner, whoever asks and however often
\* (reserve_quality_bootstrap, claim_quality_bootstrap_dispatch, admit_github_run).
OneAttempt == TypeOK /\ OnePost /\ OneEngine

\* The build that is bound carries the attempt's nonce and the request that was
\* consumed, and it alone gets the token and gives the verdict, also when
\* someone ran a copy or an edited build
\* (verify_quality_bootstrap_build, reconcile_quality_bootstrap).
BoundIsVerified ==
  /\ rec.build # 0 => /\ builds[rec.build].nonce = ticket /\ ~builds[rec.build].altered
                      /\ rec.verified
  /\ rec.token \in {0, rec.build}
  /\ rec.status \in {"quality_passed", "quality_failed"} =>
       rec.report = rec.status /\ rec.token # 0

\* Neither the ticket nor the binding of the attempt ever changes, and a
\* verdict is never reopened by a late failure handler
\* (_validate_changes, update_quality_bootstrap, _validate_status_change).
AttemptIsFinal ==
  [][/\ ticket # None => ticket' = ticket /\ rec'.nonce = rec.nonce
     /\ rec.build # 0 => rec'.build = rec.build
     /\ rec.status \in Terminal => rec'.status = rec.status]_vars

\* A build whose answer was lost, or whose request died, is found and bound, as
\* long as it is what was asked for and nobody runs a second one: recovery needs no second POST
\* (reconcile_quality_bootstrap).
BuildIsRecovered ==
  (posts = 1 /\ Carrying(rec.nonce) # {})
    ~> \/ rec.build # 0 /\ rec.status \notin {"submitting", "unknown"}
       \/ Cardinality(Carrying(rec.nonce)) > 1
       \/ \E b \in Carrying(rec.nonce) : builds[b].altered
=============================================================================
