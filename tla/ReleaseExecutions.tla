-------------------------- MODULE ReleaseExecutions --------------------------
(***************************************************************************)
(* The durable record of ONE release execution, as kept by                 *)
(* services/release_executions.py: a document that every handler, on every *)
(* replica, changes only through short serializable transactions.  Each    *)
(* action below is one such transaction: its guard is what the transaction *)
(* re-checks on the version it updates, never what the caller read before. *)
(* The specification is therefore the promise the store makes whatever the *)
(* order in which handlers call it; ReleaseReconciliation composes the     *)
(* same transactions into the handlers and is checked to implement it.     *)
(***************************************************************************)
EXTENDS Naturals, FiniteSets

CONSTANTS
    Builds,      \* provider runs: Cloud Build ids, or GitHub run ids
    NoBuild,     \* the empty build_id / provider_run_id / token field
    Images,      \* digest-pinned planner images, each with its planner hash
    NoImage,     \* an empty image field
    Operations,  \* what executions are for: pull requests, main releases
    Selections,  \* provider_selection at reservation: provider and whether it
                 \* is locked; only legacy records are not
    MaxSequence, \* bound on event sequences
    MaxAttempts  \* bound on reconciliation_attempts

ASSUME NoBuildAssumption == NoBuild \notin Builds
ASSUME NoImageAssumption == NoImage \notin Images
ASSUME OperationAssumption == Operations \subseteq {"pr_quality", "main_release"}
ASSUME SelectionAssumption ==
    Selections \subseteq [provider : {"github_actions", "cloud_build"},
                          locked : BOOLEAN]
ASSUME BoundAssumption == MaxSequence \in Nat /\ MaxAttempts \in Nat

VARIABLE rec     \* the document
vars == <<rec>>

-----------------------------------------------------------------------------
(* Statuses and the transition table.                                      *)

Terminal == {"quality_failed", "no_release", "released", "superseded", "failed"}

Status == Terminal \cup
    {"received", "waiting_github", "submission_pending", "submitting",
     "running_quality", "quality_passed", "release_planned",
     "publish_pending", "unknown"}

Transitions == UNION {
    {"received"} \X {"waiting_github", "submission_pending", "failed",
        "unknown"},
    {"waiting_github"} \X {"running_quality", "quality_passed",
        "quality_failed", "submission_pending", "failed", "unknown"},
    {"submission_pending"} \X {"submitting", "running_quality",
        "quality_passed", "quality_failed", "failed", "unknown"},
    {"submitting"} \X {"submission_pending", "running_quality",
        "quality_passed", "quality_failed", "failed", "unknown"},
    {"running_quality"} \X {"quality_passed", "quality_failed", "failed",
        "unknown"},
    {"quality_passed"} \X {"release_planned", "no_release", "released",
        "superseded", "failed", "unknown"},
    {"release_planned"} \X {"publish_pending", "superseded", "failed",
        "unknown"},
    {"publish_pending"} \X {"released", "release_planned", "superseded",
        "failed", "unknown"},
    {"unknown"} \X {"submission_pending", "running_quality",
        "release_planned", "released", "superseded", "failed"}}

\* _validate_status_change: an unchanged status is always accepted.
CanMove(t) == t = rec.status \/ <<rec.status, t>> \in Transitions

Providers == {"github_actions", "cloud_build"}
Reports == {"none", "good", "bad"}      \* a bad report fails the policy
Plans == {"missing", "none", "semantic"}
EngineStatus == {"none", "running_quality", "quality_passed",
                 "quality_failed", "release_planned", "no_release", "failed"}

ExecutionType ==
    [operation : Operations, selection : Selections, status : Status,
     provider : Providers,
     build : Builds \cup {NoBuild}, run : Builds \cup {NoBuild}, sequence : 0..MaxSequence,
     engine : EngineStatus, report : Reports, committed : Reports,
     evidence : BOOLEAN, plan : Plans, engineFailed : BOOLEAN,
     succeeded : BOOLEAN, attempts : 0..MaxAttempts, retries : 0..3,
     retryPending : BOOLEAN, checked : SUBSET (0..2),
     retryImage : Images \cup {NoImage}, remediationImage : Images \cup {NoImage},
     retired : SUBSET Builds, claimed : BOOLEAN, pubUncertain : BOOLEAN, canary : BOOLEAN,
     eventToken : Builds \cup {NoBuild}, sourceToken : Builds \cup {NoBuild}]

\* reserve() of a fresh fingerprint; a replay returns the existing record.
Reserved(o, s) ==
    [operation |-> o, selection |-> s,
     status |-> IF s.provider = "github_actions" THEN "waiting_github"
                                               ELSE "submission_pending",
     provider |-> s.provider, build |-> NoBuild, run |-> NoBuild,
     sequence |-> 0, engine |-> "none", report |-> "none",
     committed |-> "none", evidence |-> FALSE, plan |-> "missing",
     engineFailed |-> FALSE, succeeded |-> FALSE, attempts |-> 0,
     retries |-> 0, retryPending |-> FALSE, checked |-> {},
     retryImage |-> NoImage, remediationImage |-> NoImage, retired |-> {},
     claimed |-> FALSE, pubUncertain |-> FALSE, canary |-> FALSE,
     eventToken |-> NoBuild, sourceToken |-> NoBuild]

Init == \E o \in Operations, s \in Selections : rec = Reserved(o, s)

-----------------------------------------------------------------------------
(* Submission of the Cloud Build run.                                      *)

\* Seeded fault: the handoff forgets that the run may have started.
TransitionFault ==
    /\ ~rec.selection.locked /\ rec.provider = "github_actions"
    /\ rec' = [rec EXCEPT !.provider = "cloud_build",
                          !.status = "submission_pending"]

TransitionToCloudBuild ==
    /\ ~rec.selection.locked
    /\ rec.provider = "github_actions"
    /\ rec.status \in {"received", "waiting_github"}
    /\ rec' = [rec EXCEPT !.provider = "cloud_build",
                          !.status = "submission_pending"]

CanClaimSubmission == /\ rec.provider = "cloud_build"
                      /\ rec.build = NoBuild
                      /\ rec.status = "submission_pending"

ClaimSubmission ==
    /\ CanClaimSubmission
    /\ rec' = [rec EXCEPT !.status = "submitting"]

\* Seeded fault: a second submitter may replace the bound build.
CanBindFault(b) == /\ rec.provider = "cloud_build"
                   /\ rec.build = b \/ CanMove("submission_pending")

CanBind(b) == /\ rec.provider = "cloud_build"
              /\ \/ rec.build = b
                 \/ rec.build = NoBuild /\ CanMove("submission_pending")

\* Binding the build that is already bound changes nothing.
BindBuild(b) ==
    /\ CanBind(b)
    /\ \/ rec.build = b /\ rec' = rec
       \/ rec.build # b /\ rec' = [rec EXCEPT !.build = b, !.run = b,
                                     !.status = "submission_pending"]

\* reconcile_submission_absent: the attempt count n was read before, outside
\* the transaction, which itself only validates the status change.
ReopenSubmission(n) ==
    /\ CanMove("submission_pending")
    /\ n < MaxAttempts
    /\ rec' = [rec EXCEPT !.status = "submission_pending",
                          !.attempts = n + 1]

-----------------------------------------------------------------------------
(* Admission of provider runs, tokens and engine events.                   *)

CanAdmitRun(b) == /\ rec.provider = "github_actions"
                  /\ rec.status \in {"waiting_github", "running_quality"}
                  /\ rec.run \in {NoBuild, b}

AdmitGithubRun(b) ==
    /\ CanAdmitRun(b)
    /\ rec' = [rec EXCEPT !.run = b]

\* save_for_provider after a completed workflow: f is TRUE when the run
\* failed after quality had passed.
SaveProviderSuccess(b, f) ==
    /\ rec.provider = "github_actions" /\ rec.run = b
    /\ rec' = [rec EXCEPT !.succeeded = TRUE,
                          !.engineFailed = IF f THEN TRUE ELSE @]

\* _claim_build_scoped_token for the token field whose value is `issued`.
CanClaimToken(b, issued) ==
    /\ b = IF rec.provider = "cloud_build" THEN rec.build ELSE rec.run
    /\ issued # b
    /\ \/ issued = NoBuild
       \/ rec.provider = "cloud_build" /\ issued \in rec.retired

ClaimEventToken(b) ==
    /\ CanClaimToken(b, rec.eventToken)
    /\ rec' = [rec EXCEPT !.eventToken = b]

ClaimSourceToken(b) ==
    /\ CanClaimToken(b, rec.sourceToken)
    /\ \/ rec.provider = "cloud_build"
       \/ rec.status \in {"waiting_github", "running_quality"}
    /\ rec' = [rec EXCEPT !.sourceToken = b]

\* _require_event_identity: run and token hash are those of run b.
EventIdentity(b) == rec.run = b /\ rec.eventToken = b

\* What an event of status e, with report r and plan p, sets.  The flag f
\* says the handler classified a failure as one of the release phase.
EventStatus(e, f) == IF e = "failed" /\ ~f THEN "failed" ELSE "running_quality"

CanAcceptEvent(b, q, e, f) == /\ EventIdentity(b)
                              /\ q > rec.sequence
                              /\ CanMove(EventStatus(e, f))

AcceptEvent(b, q, e, r, p, f) ==
    /\ CanAcceptEvent(b, q, e, f)
    /\ rec' = [rec EXCEPT
                 !.sequence = q, !.engine = e, !.status = EventStatus(e, f),
                 !.report = IF r = "none" THEN @ ELSE r,
                 !.plan = IF p = "missing" THEN @ ELSE p,
                 !.engineFailed = IF f THEN TRUE ELSE @]

-----------------------------------------------------------------------------
(* Consolidation of the provider's result.                                 *)

SaveEngineFailed ==
    rec' = [rec EXCEPT !.engineFailed = TRUE]

ClearRetryPending ==
    rec' = [rec EXCEPT !.retryPending = FALSE]

\* The two outcomes of _commit_quality for a report r in the evidence store.
CommitQuality(r) ==
    /\ r # "none"
    /\ CanMove(IF r = "good" THEN "quality_passed" ELSE "quality_failed")
    /\ rec' = [rec EXCEPT
                 !.status = IF r = "good" THEN "quality_passed"
                                          ELSE "quality_failed",
                 !.committed = r, !.evidence = IF r = "good" THEN TRUE ELSE @]

SaveStatus(s) ==
    /\ CanMove(s)
    /\ rec' = [rec EXCEPT !.status = s]

\* A caller plans only from a record whose evidence was committed; evidence
\* is never withdrawn, so the fact still holds when the transaction runs.
SavePlanned ==
    /\ rec.evidence
    /\ CanMove("release_planned")
    /\ rec' = [rec EXCEPT !.status = "release_planned"]

SaveNoRelease ==
    /\ rec.evidence
    /\ CanMove("no_release")
    /\ rec' = [rec EXCEPT !.status = "no_release"]

-----------------------------------------------------------------------------
(* Planner-only recovery: the one reopening of a terminal record.          *)

\* Which of the three attempts a record may still be granted: checked holds
\* planner_retry_checked (0), the remediation's (1) and the contract's (2).
AttemptAvailable(r) ==
    \/ r.retries = 0 /\ 0 \notin r.checked
    \/ r.retries = 1 /\ 0 \in r.checked /\ 1 \notin r.checked
    \/ /\ r.retries = 2 /\ 1 \in r.checked /\ 2 \notin r.checked
       /\ r.remediationImage # NoImage

PlannerRetryCandidate(r) ==
    /\ r.status = "failed" /\ r.provider = "cloud_build"
    /\ r.operation = "main_release"
    /\ r.engineFailed /\ r.engine = "quality_passed"
    /\ r.evidence /\ r.committed # "none"
    /\ AttemptAvailable(r)
    /\ r.build # NoBuild

\* n is the retry count the caller saw, which chose the kind of attempt; old
\* is the image of the failed build, which a remediation has to replace.
CanStageRetry(b, n, image, old) ==
    /\ PlannerRetryCandidate(rec)
    /\ rec.build = b /\ rec.retries = n
    /\ n = 1 => image \notin {old, rec.retryImage}
    /\ n = 2 => rec.remediationImage = image

\* Seeded fault: the recovery also resets the committed report.
StageFault(b, n, image, old) ==
    /\ CanStageRetry(b, n, image, old)
    /\ rec' = [rec EXCEPT
                 !.status = "submission_pending", !.committed = "none",
                 !.build = NoBuild, !.run = NoBuild,
                 !.retired = @ \cup {b}, !.retries = n + 1,
                 !.retryPending = TRUE, !.checked = @ \cup {0, n},
                 !.engineFailed = FALSE]

StagePlannerRetry(b, n, image, old) ==
    /\ CanStageRetry(b, n, image, old)
    /\ rec' = [rec EXCEPT
                 !.status = "submission_pending",
                 !.build = NoBuild, !.run = NoBuild,
                 !.retired = @ \cup {b}, !.retries = n + 1,
                 !.retryPending = TRUE, !.checked = @ \cup {0, n},
                 !.retryImage = IF n = 0 THEN image
                                ELSE IF n = 1 THEN old ELSE @,
                 !.remediationImage = IF n = 1 THEN image ELSE @,
                 !.engineFailed = FALSE]

\* The failed step was not the planner's: the attempt is spent, unused.
\* The caller's snapshot chose which flag to set.
SpendRetry(n) ==
    rec' = [rec EXCEPT !.checked = @ \cup {n}]

-----------------------------------------------------------------------------
(* Publication, and the decisions of operators.                            *)

\* Seeded fault: publication may be claimed from any status.
ClaimPublishFault == rec.operation = "main_release" /\ ~rec.claimed

CanClaimPublish == /\ rec.operation = "main_release"
                   /\ rec.status = "release_planned"
                   /\ ~rec.claimed

ClaimPublish ==
    /\ CanClaimPublish
    /\ rec' = [rec EXCEPT !.status = "publish_pending", !.claimed = TRUE]

\* Only a publisher that held or inherited the claim reports a publication.
SavePublicationUncertain ==
    /\ rec.claimed
    /\ CanMove("unknown")
    /\ rec' = [rec EXCEPT !.status = "unknown", !.pubUncertain = TRUE]

SaveReleased ==
    /\ rec.claimed
    /\ CanMove("released")
    /\ rec' = [rec EXCEPT !.status = "released", !.pubUncertain = FALSE]

SaveCanary ==
    rec' = [rec EXCEPT !.canary = TRUE]

SaveSuperseded ==
    /\ CanMove("superseded")
    /\ rec' = [rec EXCEPT !.status = "superseded"]

\* Seeded fault: one more status is forgotten in _TERMINAL.
TerminalFault(r) == r.status \in Terminal \ {"superseded", "released"}

\* release_orchestrator._is_terminal, whose _TERMINAL omits "superseded".
OrchestratorTerminal(r) ==
    \/ r.status \in Terminal \ {"superseded"}
    \/ r.operation = "pr_quality" /\ r.status = "quality_passed"

CanCancel == /\ ~OrchestratorTerminal(rec)
             /\ rec.status \notin {"submitting", "unknown"}

\* cancel_release writes through _mutate, past the transition table.
CancelRelease ==
    /\ CanCancel
    /\ rec' = [rec EXCEPT !.status = "failed"]

-----------------------------------------------------------------------------
Engine ==
    \E b \in Builds :
        \/ BindBuild(b) \/ AdmitGithubRun(b)
        \/ ClaimEventToken(b) \/ ClaimSourceToken(b)
        \/ \E f \in BOOLEAN : SaveProviderSuccess(b, f)
        \/ \E q \in 1..MaxSequence, e \in EngineStatus \ {"none"},
              r \in Reports, p \in Plans, f \in BOOLEAN :
              /\ r # "none" <=> e \in {"quality_passed", "quality_failed"}
              /\ p # "missing" <=> e \in {"release_planned", "no_release"}
              /\ f => e = "failed" /\ rec.operation = "main_release"
              /\ AcceptEvent(b, q, e, r, p, f)
        \/ \E n \in 0..2, i, j \in Images : StagePlannerRetry(b, n, i, j)

Handlers ==
    \/ TransitionToCloudBuild \/ ClaimSubmission
    \/ \E n \in 0..(MaxAttempts - 1) : ReopenSubmission(n)
    \/ SaveEngineFailed \/ ClearRetryPending
    \/ \E r \in Reports : CommitQuality(r)
    \/ \E s \in {"failed", "unknown"} : SaveStatus(s)
    \/ SavePlanned \/ SaveNoRelease
    \/ \E n \in 0..2 : SpendRetry(n)
    \/ ClaimPublish \/ SavePublicationUncertain \/ SaveReleased
    \/ SaveCanary \/ SaveSuperseded \/ CancelRelease

Next == Engine \/ Handlers

Spec == Init /\ [][Next]_vars

-----------------------------------------------------------------------------
(* What the record promises whatever the callers do.                       *)

TypeOK == rec \in ExecutionType

\* No release is planned, claimed or published, and no PR passes, on anything
\* but committed evidence that satisfied the policy: _commit_quality is the
\* only way in, and no later transaction of a stale handler can get around it.
PublicationRequiresEvidence ==
    /\ rec.status \in {"quality_passed", "no_release", "release_planned",
                       "publish_pending", "released"}
          => rec.evidence /\ rec.committed = "good"
    /\ rec.claimed => rec.evidence /\ rec.operation = "main_release"
    /\ rec.status \in {"publish_pending", "released"} => rec.claimed
    /\ rec.pubUncertain => rec.claimed

\* A planner-only recovery exists only for a main release on Cloud Build whose
\* quality evidence was committed, and stays within its three attempts, each
\* kind at most once (planner_retry_candidate and stage_planner_retry).
RecoveryKeepsEvidence ==
    rec.retries > 0 =>
        /\ rec.operation = "main_release" /\ rec.provider = "cloud_build"
        /\ rec.evidence /\ rec.retired # {}
        /\ 0..(rec.retries - 1) \subseteq rec.checked

\* A token (and so the right to report events) is held only by the run that
\* is bound now, or by a build that a planner recovery has retired.
TokensBelongToRuns ==
    (rec.selection.provider = "cloud_build" \/ rec.selection.locked) =>
        {rec.eventToken, rec.sourceToken}
            \subseteq {NoBuild, rec.run} \cup rec.retired

\* What one transaction may do to a finished record.
Settled ==
    rec.status \in Terminal =>
        \/ rec'.status = rec.status
        \/ /\ rec.status = "failed" /\ rec'.status = "submission_pending"
           /\ rec.evidence /\ rec'.retries = rec.retries + 1
           /\ rec'.retired = rec.retired \cup {rec.build}
        \/ rec.status = "superseded" /\ rec'.status = "failed"

\* A finished execution is left alone by every late callback, sweep and save,
\* except that a failed main release with committed evidence may be reopened
\* by a planner recovery, and that cancel_release rewrites "superseded".
FinishedStaysFinished == [][Settled]_vars

\* Once a build is bound it is replaced only by being retired, and that
\* takes the run away from it too: two submitters can never swap builds.
BindingIsStable ==
    [][rec.build # NoBuild /\ rec'.build # rec.build =>
          rec'.build = NoBuild /\ rec'.run = NoBuild
             /\ rec.build \in rec'.retired]_vars

\* The provider handoff of a legacy record happens before any engine event,
\* and never back: events of two providers are never mixed.
HandoffBeforeEvents ==
    [][rec'.provider # rec.provider =>
          /\ rec'.provider = "cloud_build"
          /\ rec.sequence = 0 /\ rec.report = "none"]_vars

(* The inductive invariant behind the invariants above.                    *)
EvidenceIsGood ==
    rec.evidence /\ rec.status # "quality_failed" => rec.committed = "good"

WaitingIsFresh ==
    rec.status \in {"received", "waiting_github"} =>
        rec.sequence = 0 /\ rec.report = "none"

RunIsBuild ==
    /\ rec.build # NoBuild => rec.provider = "cloud_build" /\ rec.run = rec.build
    /\ rec.selection.provider = "cloud_build" \/ rec.selection.locked =>
          /\ rec.provider = rec.selection.provider
          /\ rec.selection.provider = "cloud_build" => rec.run = rec.build

IInv == /\ TypeOK
        /\ PublicationRequiresEvidence /\ RecoveryKeepsEvidence
        /\ TokensBelongToRuns
        /\ EvidenceIsGood /\ WaitingIsFresh /\ RunIsBuild
=============================================================================
