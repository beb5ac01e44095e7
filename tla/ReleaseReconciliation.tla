------------------------ MODULE ReleaseReconciliation ------------------------
(***************************************************************************)
(* The handlers that drive one release execution on Cloud Build: webhook   *)
(* and operator submission, the callbacks of the build, the reconciliation *)
(* sweep, planner recovery, publication on GitHub and operator decisions.  *)
(* A worker is one request being served by some replica.  Each action is   *)
(* ONE interaction with shared state (a transaction of ReleaseExecutions,  *)
(* a read, or a call to Cloud Build, GitHub or the evidence store), so two *)
(* handlers interleave exactly where the code lets them: between a read    *)
(* and the transaction that acts on it.                                    *)
(***************************************************************************)
EXTENDS ReleaseExecutions

CONSTANTS
    Workers,     \* requests that can be in progress at once
    Serves,      \* the kinds of request each worker takes
    First,       \* the worker serving the request that reserved the record
    Origin,      \* "hook" (handle_push) or "start" (start_release)
    FirstImage,  \* the planner image configured at the start
    AutoPublish,        \* the service is in enabled_services
    MaxFaults    \* bound on crashes, lost or failed answers, refusals,
                 \* duplicate deliveries and interference on GitHub

ASSUME WorkersAssumption == First \in Workers /\ Origin \in {"hook", "start"}
ASSUME ImageAssumption == FirstImage \in Images
ASSUME CloudBuildAssumption ==
    Selections = {[provider |-> "cloud_build", locked |-> TRUE]} /\ AutoPublish \in BOOLEAN
\* Executor and planner number their callbacks 1, 2 and 3.
ASSUME HandlerAssumption ==
    "main_release" \in Operations /\ MaxSequence >= 3 /\ MaxFaults \in Nat

VARIABLES
    hand,        \* what each worker is doing, with the record it last read, the
                 \* build it found or made, and the build that called it
    builds,      \* Cloud Build: the builds created so far
    github,      \* the tag, the GitHub Release, and whether main has moved
    stored,      \* the write-once report in the evidence store
    image,       \* RELEASE_PLANNER_IMAGE of newly started replicas
    stamps,      \* the record's updated_at and uncertain_since against the
                 \* grace, and whether it has a submission_status_code
    drift,       \* the record's error is the build-identity message
    faults       \* faults so far

world == <<builds, github, stored, image>>
svars == <<rec, hand, builds, github, stored, image, stamps, drift, faults>>

NoEvent == [q |-> 0, e |-> "none", r |-> "none", p |-> "missing"]

\* What a handler knows of the record before it has read it.
Blank == Reserved("main_release",
                  [provider |-> "cloud_build", locked |-> TRUE])

Idle == [pc |-> "idle", kind |-> "none", via |-> "none", image |-> NoImage,
         snap |-> Blank, found |-> NoBuild, b |-> NoBuild, ev |-> NoEvent]

Fault == faults < MaxFaults /\ faults' = faults + 1
NoFault == faults' = faults

-----------------------------------------------------------------------------
(* Control inside a handler.                                               *)

At(w, pc) == hand[w].pc = pc
Goto(w, pc) == hand' = [hand EXCEPT ![w].pc = pc]
Read(w, pc, s) == hand' = [hand EXCEPT ![w].pc = pc, ![w].snap = s]

\* The handler is done; a build that is waiting for the answer gets it.
Answer(w, a) ==
    LET h == hand[w]
    IN hand' = [hand EXCEPT ![w] =
                  IF h.kind \in {"token", "event"}
                  THEN [Idle EXCEPT !.pc = a, !.kind = h.kind, !.b = h.b,
                                    !.ev = h.ev]
                  ELSE Idle]
Return(w) == Answer(w, "ok")

\* Where an exception raised inside a handler ends up: swallowed by a planner
\* retry or by reconcile's own submission, recorded as "unknown" by the sweep
\* and (a ValueError) by the event endpoint, as "failed" by start_release.
\* The other endpoints answer with an error.
Raise(w, error) ==
    LET h == hand[w]
        record == \/ h.kind = "sweep" /\ error # "http"
                  \/ h.kind = "event" /\ error \in {"value", "identity"}
        caught == h.via = "retry" \/ (h.via = "branch" /\ error = "cloud")
    IN  \/ caught /\ Return(w)
        \/ /\ ~caught /\ record
           /\ Goto(w, IF error = "identity" THEN "drift" ELSE "unknown")
        \/ ~caught /\ h.kind = "start" /\ Goto(w, "giveUp")
        \/ ~caught /\ ~record /\ h.kind # "start" /\ Answer(w, "error")

\* A step that only reads the record.
ReadOnly == UNCHANGED <<rec, stamps, drift>> /\ UNCHANGED world

\* A transaction stamps updated_at; d tells whether the error it leaves in
\* the record is the identity message.
Stamp(d) == stamps' = [stamps EXCEPT !.updated = "recent"] /\ drift' = d

\* save(status=s): the transaction, or the ValueError of an invalid move.
\* The check run updated afterwards may fail too.
Saved(w, s, txn, d, continue) ==
    \/ CanMove(s) /\ txn /\ Stamp(d) /\ NoFault /\ continue
    \/ CanMove(s) /\ txn /\ Stamp(d) /\ Fault /\ Raise(w, "other")
    \/ ~CanMove(s) /\ UNCHANGED <<rec, stamps, drift>> /\ NoFault
                   /\ Raise(w, "value")

-----------------------------------------------------------------------------
(* release_cloud_build: submission, and recovery of an uncertain one.      *)

\* submit() returned the record s to the code that called it; the webhook and
\* start_release then update the check runs, which may fail.
Submitted(w, s) ==
    \/ /\ hand[w].via \in {"branch", "uncertain"} /\ NoFault
       /\ hand' = [hand EXCEPT ![w].pc = "readBuild", ![w].via = "none",
                               ![w].snap = s]
    \/ hand[w].via \in {"none", "retry"} /\ NoFault /\ Return(w)
    \/ hand[w].via = "none" /\ Fault /\ Raise(w, "other")

\* A PR build carries no planner image.
PlannerImage(h) == IF rec.operation = "main_release" THEN h.image ELSE NoImage

\* Seeded fault: the recovery attempt of a build is not compared.
CarriesFault(b, s, i) == builds[b].state # "none" /\ builds[b].image = i

\* _matching_build: the substitutions expected of a build for snapshot s.
Carries(b, s, i) == /\ builds[b].state # "none" /\ builds[b].image = i
                    /\ s.retries > 0 => builds[b].attempt = s.retries

\* Seeded fault: the listing never recognises a build.
MatchingFault(h) == {b \in Builds : FALSE}

Matching(h) == {b \in Builds : Carries(b, h.snap, PlannerImage(h))}

\* _planner_retry_request: the rolled-forward image must still be configured.
RetryAuthorized(h) ==
    h.snap.retryPending /\ h.snap.retries > 1
        => h.snap.remediationImage = h.image

\* _start_checks, before the webhook or start_release submits: the check runs
\* are created on GitHub and their ids saved in the record.
StartChecks(w) ==
    /\ At(w, "checks") /\ UNCHANGED world /\ rec' = rec
    /\ \/ NoFault /\ Stamp(drift) /\ Goto(w, "get")
       \/ Fault /\ UNCHANGED <<stamps, drift>> /\ Raise(w, "other")

Get(w) ==
    /\ At(w, "get") /\ ReadOnly
    /\ \/ rec.build # NoBuild /\ Submitted(w, rec)
       \/ rec.build = NoBuild /\ NoFault /\ Read(w, "list", rec)

\* List the builds tagged for the execution; without one, check the policy.
List(w) ==
    /\ At(w, "list") /\ ReadOnly
    /\ \/ /\ NoFault
          /\ \E b \in Matching(hand[w]) :
                hand' = [hand EXCEPT ![w].pc = "bind", ![w].found = b]
       \/ /\ NoFault /\ Matching(hand[w]) = {} /\ RetryAuthorized(hand[w])
          /\ Goto(w, "claim")
       \/ /\ NoFault /\ Matching(hand[w]) = {} /\ ~RetryAuthorized(hand[w])
          /\ Raise(w, "cloud")
       \/ Fault /\ Raise(w, "cloud")
       \/ Fault /\ Matching(hand[w]) = {} /\ Raise(w, "http")

\* The policy is read once more after the claim: a pause leaves it taken.
Claim(w) ==
    /\ At(w, "claim") /\ UNCHANGED world
    /\ \/ ClaimSubmission /\ Stamp(drift) /\ NoFault /\ Goto(w, "post")
       \/ ClaimSubmission /\ Stamp(drift) /\ Fault /\ Raise(w, "http")
       \/ /\ ~CanClaimSubmission /\ UNCHANGED <<rec, stamps, drift>> /\ NoFault
          /\ Raise(w, "cloud")

Created(h) == [state |-> "working", attempt |-> h.snap.retries,
               image |-> PlannerImage(h), sent |-> 0, token |-> FALSE]

Live == {b \in Builds : builds[b].state # "none"}

\* No answer, or one that does not show the build, or an error answer: any status
\* from 300 on, a 5xx as well, is taken for a refusal.
Doubtful(w) == Goto(w, "uncertain") \/ Goto(w, "refused")

\* POST .../builds: answered, or in doubt with or without a new build.  Build ids
\* are fresh and mean nothing, so any unused one will do.
Post(w) ==
    /\ At(w, "post") /\ UNCHANGED <<rec, stamps, drift, github, stored, image>>
    /\ \/ /\ Live # Builds
          /\ LET b == CHOOSE x \in Builds : x \notin Live
             IN /\ builds' = [builds EXCEPT ![b] = Created(hand[w])]
                /\ \/ /\ NoFault
                      /\ hand' = [hand EXCEPT ![w].pc = "bind", ![w].found = b]
                   \/ Fault /\ Doubtful(w)
       \/ Fault /\ UNCHANGED builds /\ Doubtful(w)

MarkUncertain(w) ==
    /\ At(w, "uncertain") /\ UNCHANGED world /\ NoFault
    /\ \/ /\ SaveStatus("unknown") /\ Raise(w, "cloud") /\ drift' = drift
          /\ stamps' = [stamps EXCEPT !.updated = "recent", !.uncertain = "recent"]
       \/ /\ ~CanMove("unknown") /\ UNCHANGED <<rec, stamps, drift>>
          /\ Raise(w, "value")

MarkRefused(w) ==
    /\ At(w, "refused") /\ UNCHANGED world /\ NoFault
    /\ \/ /\ SaveStatus("failed") /\ Raise(w, "cloud") /\ drift' = drift
          /\ stamps' = [stamps EXCEPT !.updated = "recent", !.refused = TRUE]
       \/ /\ ~CanMove("failed") /\ UNCHANGED <<rec, stamps, drift>>
          /\ Raise(w, "value")

Bind(w) ==
    /\ At(w, "bind") /\ UNCHANGED world
    /\ \/ /\ BindBuild(hand[w].found) /\ Submitted(w, rec')
          /\ IF rec' = rec THEN UNCHANGED <<stamps, drift>> ELSE Stamp(drift)
       \/ /\ ~CanBind(hand[w].found) /\ UNCHANGED <<rec, stamps, drift>>
          /\ NoFault /\ Raise(w, "value")

\* Seeded fault: only "unknown" counts as an uncertain submission.
UnsureFault(w) ==
    /\ At(w, "unsure") /\ NoFault /\ ReadOnly
    /\ IF rec.build # NoBuild THEN Read(w, "readBuild", rec) ELSE Return(w)

\* reconcile_uncertain_submission, entered by _provider_success without a
\* build.  The age is that of the timestamps in the record just read.
Unsure(w) ==
    /\ At(w, "unsure") /\ NoFault /\ ReadOnly
    /\ \/ rec.build # NoBuild /\ Read(w, "readBuild", rec)
       \/ /\ rec.build = NoBuild /\ rec.status \notin {"submitting", "unknown"}
          /\ Return(w)
       \/ /\ rec.build = NoBuild /\ rec.status \in {"submitting", "unknown"}
          /\ LET since == IF stamps.uncertain # "none" THEN stamps.uncertain
                                                      ELSE stamps.updated
             IN Read(w, IF since = "old" THEN "seekOld" ELSE "seek", rec)

Seek(w) ==
    /\ hand[w].pc \in {"seek", "seekOld"} /\ ReadOnly
    /\ LET expired == At(w, "seekOld") /\ hand[w].snap.attempts = 0
       IN \/ /\ NoFault
             /\ \E b \in Matching(hand[w]) :
                   hand' = [hand EXCEPT ![w].pc = "bind", ![w].found = b,
                                        ![w].via = "uncertain"]
          \/ NoFault /\ Matching(hand[w]) = {} /\ ~expired /\ Return(w)
          \/ NoFault /\ Matching(hand[w]) = {} /\ expired /\ Goto(w, "absent")
          \/ Fault /\ Raise(w, "cloud")

Absent(w) ==
    /\ At(w, "absent") /\ NoFault /\ ReadOnly
    /\ LET uncertain == rec.build = NoBuild
                          /\ rec.status \in {"submitting", "unknown"}
       IN \/ uncertain /\ Read(w, "reopen", rec)
          \/ ~uncertain /\ Raise(w, "value")

Reopen(w) ==
    /\ At(w, "reopen") /\ UNCHANGED world /\ NoFault
    /\ \/ /\ ReopenSubmission(hand[w].snap.attempts) /\ Stamp(drift)
          /\ hand' = [hand EXCEPT ![w].pc = "get", ![w].via = "uncertain"]
       \/ /\ ~CanMove("submission_pending") /\ UNCHANGED <<rec, stamps, drift>>
          /\ Raise(w, "value")

Submission(w) ==
    \/ StartChecks(w) \/ Get(w) \/ List(w) \/ Claim(w) \/ Post(w)
    \/ MarkUncertain(w) \/ MarkRefused(w) \/ Bind(w) \/ Unsure(w)
    \/ Seek(w) \/ Absent(w) \/ Reopen(w)

-----------------------------------------------------------------------------
(* release_reconciler: publication.                                        *)

\* Seeded fault: neither the service list nor a canary approval is checked.
PublishUnchecked(w, s) ==
    \/ s.status = "release_planned" /\ Read(w, "claimPublish", s)
    \/ s.status # "release_planned" /\ Read(w, "branch", s)

\* Seeded fault: a claimed publication is left to whoever claimed it.
PublishOnce(w, s) ==
    IF s.status = "release_planned" THEN Read(w, "claimPublish", s)
                                    ELSE Return(w)

\* _publish_if_allowed, entered with the record s.
Publish(w, s) ==
    LET allowed == AutoPublish \/ s.canary
        resumes == \/ s.status = "publish_pending"
                   \/ s.status = "unknown" /\ s.pubUncertain
    IN  \/ allowed /\ s.status = "release_planned" /\ Read(w, "claimPublish", s)
        \/ allowed /\ resumes /\ Read(w, "branch", s)
        \/ /\ ~(allowed /\ (s.status = "release_planned" \/ resumes))
           /\ Return(w)

ClaimRelease(w) ==
    /\ At(w, "claimPublish") /\ UNCHANGED world /\ NoFault
    /\ \/ ClaimPublish /\ Stamp(drift) /\ Goto(w, "reread")
       \/ ~CanClaimPublish /\ UNCHANGED <<rec, stamps, drift>> /\ Return(w)

Reread(w) ==
    /\ At(w, "reread") /\ NoFault /\ ReadOnly
    /\ LET resumes == \/ rec.status = "publish_pending"
                      \/ rec.status = "unknown" /\ rec.pubUncertain
       IN \/ resumes /\ Read(w, "branch", rec)
          \/ ~resumes /\ Return(w)

\* publish_release: the plan and the default branch, then tag, then Release.
\* Any answer that is not a conflict leaves the publication in doubt.
CheckBranch(w) ==
    /\ At(w, "branch") /\ ReadOnly
    /\ \/ /\ NoFault
          /\ Goto(w, IF hand[w].snap.plan # "semantic" THEN "doubt"
                     ELSE IF github.moved THEN "conflict" ELSE "tag")
       \/ Fault /\ Goto(w, "doubt")

\* Get the ref (or the Release): go on if it is ours, create it if absent.
Lookup(w, half, create, next) ==
    /\ At(w, half) /\ ReadOnly
    /\ \/ NoFault /\ github[half] = "none" /\ Goto(w, create)
       \/ NoFault /\ github[half] = "ours" /\ Goto(w, next)
       \/ NoFault /\ github[half] = "foreign" /\ Goto(w, "conflict")
       \/ Fault /\ Goto(w, "doubt")

\* Create it.  Somebody else may have been faster, or the answer be lost.
Create(w, half, create, next) ==
    /\ At(w, create) /\ UNCHANGED <<rec, stamps, drift, builds, stored, image>>
    /\ \/ /\ github[half] = "none"
          /\ github' = [github EXCEPT ![half] = "ours"]
          /\ (NoFault /\ Goto(w, next)) \/ (Fault /\ Goto(w, "doubt"))
       \/ github[half] # "none" /\ github' = github /\ NoFault /\ Goto(w, "doubt")
       \/ Fault /\ github' = github /\ Goto(w, "doubt")

LookupTag(w) == Lookup(w, "tag", "createTag", "release")
CreateTag(w) == Create(w, "tag", "createTag", "release")
LookupRelease(w) == Lookup(w, "release", "createRelease", "released")
CreateRelease(w) == Create(w, "release", "createRelease", "released")

\* GitHubReleaseConflict: the status, not publication_uncertain, is written.
Conflict(w) ==
    /\ At(w, "conflict") /\ UNCHANGED world
    /\ Saved(w, "unknown", SaveStatus("unknown"), FALSE, Return(w))

Doubt(w) ==
    /\ At(w, "doubt") /\ UNCHANGED world
    /\ Saved(w, "unknown", SavePublicationUncertain, FALSE, Return(w))

Released(w) ==
    /\ At(w, "released") /\ UNCHANGED world
    /\ Saved(w, "released", SaveReleased, drift, Return(w))

Publishing(w) ==
    \/ ClaimRelease(w) \/ Reread(w) \/ CheckBranch(w) \/ LookupTag(w)
    \/ CreateTag(w) \/ LookupRelease(w) \/ CreateRelease(w) \/ Conflict(w) \/ Doubt(w) \/ Released(w)

-----------------------------------------------------------------------------
(* release_reconciler: planner recovery.                                   *)

\* The build a recovery may be granted for, given the kind of attempt.
Recoverable(h) ==
    LET n == h.snap.retries
        f == builds[h.snap.build]
    IN  \/ n = 0 /\ f.image = h.image
        \/ /\ n = 1 /\ f.attempt = 1 /\ f.image # h.image
           /\ h.snap.retryImage \in {NoImage, f.image}
        \/ /\ n = 2 /\ f.attempt = 2 /\ f.image = h.image
           /\ h.snap.remediationImage = h.image

\* A fault is a paused policy, or Cloud Build not answering.
Inspect(w) ==
    /\ At(w, "inspect") /\ ReadOnly
    /\ LET h == hand[w]
           granted == PlannerRetryCandidate(h.snap) /\ Recoverable(h)
           planner == builds[h.snap.build].state = "plan_failed"
       IN \/ NoFault /\ ~granted /\ Return(w)
          \/ NoFault /\ granted /\ Goto(w, IF planner THEN "stage" ELSE "spend")
          \/ Fault /\ Return(w)

Stage(w) ==
    /\ At(w, "stage") /\ UNCHANGED world /\ NoFault
    /\ LET h == hand[w]
           b == h.snap.build
           n == h.snap.retries
       IN \/ /\ StagePlannerRetry(b, n, h.image, builds[b].image) /\ Stamp(FALSE)
             /\ hand' = [hand EXCEPT ![w].pc = "get", ![w].via = "retry"]
          \/ /\ ~CanStageRetry(b, n, h.image, builds[b].image) /\ Return(w)
             /\ UNCHANGED <<rec, stamps, drift>>

Spend(w) ==
    /\ At(w, "spend") /\ UNCHANGED world /\ NoFault
    /\ SpendRetry(hand[w].snap.retries) /\ Stamp(drift) /\ Return(w)

\* _recover_unknown_planner_identity_drift looks at the build of its snapshot.
DriftCandidate ==
    /\ drift /\ rec.engineFailed /\ rec.engine = "quality_passed"
    /\ rec.operation = "main_release" /\ rec.evidence
    /\ rec.retries = 1 /\ 0 \in rec.checked /\ 1 \notin rec.checked
    /\ rec.build # NoBuild

Recover(w) ==
    /\ At(w, "recover") /\ ReadOnly
    /\ LET f == builds[hand[w].snap.build]
           verified == /\ f.attempt = 1 /\ f.image # hand[w].image
                       /\ f.state = "plan_failed"
       IN \/ NoFault /\ verified /\ Goto(w, "recovered")
          \/ NoFault /\ ~verified /\ Return(w)
          \/ Fault /\ Return(w)

Recovered(w) ==
    /\ At(w, "recovered") /\ UNCHANGED world /\ NoFault
    /\ IF CanMove("failed")
       THEN SaveStatus("failed") /\ Stamp(FALSE) /\ Read(w, "inspect", rec')
       ELSE UNCHANGED <<rec, stamps, drift>> /\ Raise(w, "value")

Recovery(w) ==
    Inspect(w) \/ Stage(w) \/ Spend(w) \/ Recover(w) \/ Recovered(w)

-----------------------------------------------------------------------------
(* release_reconciler.reconcile.                                           *)

\* The decision on the status that was read.
Reconcile(w) ==
    /\ At(w, "reconcile") /\ NoFault /\ ReadOnly
    /\ \/ rec.status \in Terminal \ {"failed"} /\ Return(w)
       \/ rec.status = "failed" /\ Read(w, "inspect", rec)
       \/ rec.status = "unknown" /\ rec.pubUncertain /\ Publish(w, rec)
       \/ /\ rec.status = "unknown" /\ ~rec.pubUncertain
          /\ IF DriftCandidate THEN Read(w, "recover", rec) ELSE Return(w)
       \/ /\ rec.status \in {"release_planned", "publish_pending"}
          /\ Publish(w, rec)
       \/ /\ rec.status = "submission_pending"
          /\ hand' = [hand EXCEPT ![w].pc = "get", ![w].via = "branch"]
       \/ /\ rec.status \in {"submitting", "running_quality", "quality_passed"}
          /\ Read(w, IF rec.build = NoBuild THEN "unsure" ELSE "readBuild", rec)

\* _provider_success with a build: read it, verify it, look at its state.
ReadBuild(w) ==
    /\ At(w, "readBuild") /\ ReadOnly
    /\ LET h == hand[w]
           s == h.snap
           state == builds[s.build].state
           failure == state \in {"failed", "plan_failed"}
           explained == /\ failure /\ s.report # "none"
                        /\ s.engine = "quality_failed"
           released == /\ failure /\ s.report # "none" /\ ~explained
                       /\ s.engine = "quality_passed" \/ s.engineFailed
       IN \/ Fault /\ Raise(w, "cloud")
          \/ /\ NoFault /\ ~Carries(s.build, s, PlannerImage(h))
             /\ Raise(w, "identity")
          \/ /\ NoFault /\ Carries(s.build, s, PlannerImage(h))
             /\ \/ state = "working" /\ Return(w)
                \/ /\ state = "success"
                   /\ Goto(w, IF s.retryPending THEN "clear" ELSE "reget")
                \/ explained /\ Goto(w, "reget")
                \/ released /\ Goto(w, "blame")
                \/ /\ failure \/ state = "cancelled"
                   /\ ~explained /\ ~released /\ Goto(w, "buildFailed")

Clear(w) ==
    /\ At(w, "clear") /\ UNCHANGED world /\ NoFault
    /\ ClearRetryPending /\ Stamp(drift) /\ Goto(w, "reget")

Blame(w) ==
    /\ At(w, "blame") /\ UNCHANGED world /\ NoFault
    /\ SaveEngineFailed /\ Stamp(drift) /\ Goto(w, "reget")

BuildFailed(w) ==
    /\ At(w, "buildFailed") /\ UNCHANGED world
    /\ Saved(w, "failed", SaveStatus("failed"), FALSE, Return(w))

\* What follows once the evidence is known, on the record s.
Decide(w, s) ==
    LET consolidated == s.status \in {"quality_passed", "running_quality"}
        reported == s.engineFailed /\ s.engine = "quality_passed" /\ s.evidence
        nothing == s.engine = "no_release" \/ s.plan = "none"
        next == IF s.engineFailed THEN "planFailed"
                ELSE IF nothing THEN "noRelease"
                ELSE IF s.plan = "missing" THEN "noPlan" ELSE "plan"
    IN  \/ /\ rec.operation = "main_release" /\ ~consolidated /\ reported
           /\ Read(w, "planFailed", s)
        \/ ~consolidated /\ ~(rec.operation = "main_release" /\ reported) /\ Return(w)
        \/ consolidated /\ rec.operation = "pr_quality" /\ Return(w)
        \/ consolidated /\ rec.operation = "main_release" /\ Read(w, next, s)

Reget(w) ==
    /\ At(w, "reget") /\ NoFault /\ ReadOnly
    /\ \/ rec.evidence /\ Decide(w, rec)
       \/ /\ ~rec.evidence
          /\ IF rec.report = "none" THEN Raise(w, "value")
                                     ELSE Read(w, "evidence", rec)

\* Seeded fault: the record is saved before the evidence is stored.
StoreEvidenceFault(w) ==
    /\ At(w, "evidence") /\ NoFault /\ ReadOnly /\ Goto(w, "commit")

\* save_immutable_report: the index object is created only if it is absent;
\* the same evidence is accepted again, other evidence is a conflict.
CanSaveReport(r) == stored \in {"none", r}
SaveImmutableReport(r) == CanSaveReport(r) /\ stored' = r

\* _commit_quality: the evidence store first (write once), then the record.
StoreEvidence(w) ==
    /\ At(w, "evidence")
    /\ UNCHANGED <<rec, stamps, drift, builds, github, image>>
    /\ LET r == hand[w].snap.report
       IN \/ SaveImmutableReport(r) /\ NoFault /\ Goto(w, "commit")
          \/ ~CanSaveReport(r) /\ stored' = stored /\ NoFault /\ Raise(w, "value")
          \/ /\ Fault /\ Raise(w, "other")
             /\ stored' = stored \/ SaveImmutableReport(r)

\* The policy, applied to the stored report: quality_gate_status and errors.
Verdict(r) == IF r = "good" THEN "quality_passed" ELSE "quality_failed"

Commit(w) ==
    /\ At(w, "commit") /\ UNCHANGED world
    /\ LET r == hand[w].snap.report
       IN Saved(w, Verdict(r), CommitQuality(r), drift, Decide(w, rec'))

PlanFailed(w) ==
    /\ At(w, "planFailed") /\ UNCHANGED world
    /\ Saved(w, "failed", SaveStatus("failed"), FALSE, Read(w, "inspect", rec'))

NoRelease(w) ==
    /\ At(w, "noRelease") /\ UNCHANGED world
    /\ Saved(w, "no_release", SaveNoRelease, drift, Return(w))

NoPlan(w) ==
    /\ At(w, "noPlan") /\ UNCHANGED world
    /\ Saved(w, "unknown", SaveStatus("unknown"), FALSE, Return(w))

Plan(w) ==
    /\ At(w, "plan") /\ UNCHANGED world
    /\ \/ SavePlanned /\ Stamp(drift) /\ NoFault /\ Publish(w, rec')
       \/ /\ ~CanMove("release_planned") /\ UNCHANGED <<rec, stamps, drift>>
          /\ NoFault /\ Raise(w, "value")

\* Seeded fault: the last save does not validate the move.
RecordUnknownFault(w) ==
    /\ hand[w].pc \in {"unknown", "drift"} /\ UNCHANGED world /\ NoFault
    /\ rec' = [rec EXCEPT !.status = "unknown"]
    /\ Stamp(At(w, "drift")) /\ Return(w)

\* The last save of the sweep and of the event endpoint after an exception.
RecordUnknown(w) ==
    /\ hand[w].pc \in {"unknown", "drift"} /\ UNCHANGED world /\ NoFault
    /\ \/ SaveStatus("unknown") /\ Stamp(At(w, "drift")) /\ Return(w)
       \/ /\ ~CanMove("unknown") /\ UNCHANGED <<rec, stamps, drift>>
          /\ Answer(w, "error")

\* start_release: "Selected provider could not start".
GiveUp(w) ==
    /\ At(w, "giveUp") /\ UNCHANGED world /\ NoFault /\ Return(w)
    /\ \/ SaveStatus("failed") /\ Stamp(FALSE)
       \/ ~CanMove("failed") /\ UNCHANGED <<rec, stamps, drift>>

Consolidation(w) ==
    \/ Reconcile(w) \/ ReadBuild(w) \/ Clear(w) \/ Blame(w) \/ BuildFailed(w)
    \/ Reget(w) \/ StoreEvidence(w) \/ Commit(w) \/ PlanFailed(w)
    \/ NoRelease(w) \/ NoPlan(w) \/ Plan(w) \/ RecordUnknown(w) \/ GiveUp(w)

-----------------------------------------------------------------------------
(* routers/release_execution_events: the callbacks of a build.             *)

\* _verify_cloud_build against the record read when the request came in; a
\* build that is not bound yet binds itself.
Verify(w) ==
    /\ At(w, "verify") /\ ReadOnly
    /\ LET h == hand[w]
           known == /\ h.snap.build \in {NoBuild, h.b}
                    /\ Carries(h.b, h.snap, PlannerImage(h))
           next == IF h.kind = "token" THEN "issue" ELSE "admit"
       IN \/ /\ NoFault /\ known
             /\ Goto(w, IF h.snap.build = NoBuild THEN "bindCaller" ELSE next)
          \/ NoFault /\ ~known /\ Answer(w, "error")
          \/ Fault /\ Answer(w, "error")

BindCaller(w) ==
    /\ At(w, "bindCaller") /\ UNCHANGED world /\ NoFault
    /\ LET h == hand[w]
       IN \/ /\ BindBuild(h.b)
             /\ IF rec' = rec THEN UNCHANGED <<stamps, drift>> ELSE Stamp(drift)
             /\ Goto(w, IF h.kind = "token" THEN "issue" ELSE "admit")
          \/ /\ ~CanBind(h.b) /\ UNCHANGED <<rec, stamps, drift>>
             /\ Answer(w, "error")

\* claim_event_token
IssueToken(w) ==
    /\ At(w, "issue") /\ UNCHANGED world /\ NoFault
    /\ LET b == hand[w].b
       IN \/ ClaimEventToken(b) /\ Stamp(drift) /\ Return(w)
          \/ /\ ~CanClaimToken(b, rec.eventToken) /\ Answer(w, "error")
             /\ UNCHANGED <<rec, stamps, drift>>

\* The token and the sequence are compared with the record read at first;
\* admit_event_provider then fences the provider and the terminal statuses.
Admit(w) ==
    /\ At(w, "admit") /\ NoFault /\ ReadOnly
    /\ LET h == hand[w]
           fenced == EventIdentity(h.b) /\ rec.status \notin Terminal
           repeated == h.ev.q <= h.snap.sequence
       IN \/ h.snap.eventToken # h.b /\ Answer(w, "error")
          \/ h.snap.eventToken = h.b /\ repeated /\ Return(w)
          \/ /\ h.snap.eventToken = h.b /\ ~repeated
             /\ \/ fenced /\ Read(w, "accept", rec)
                \/ ~fenced /\ Answer(w, "error")

\* accept_event, followed by a reconciliation unless the event was a failure.
Accept(w) ==
    /\ At(w, "accept") /\ UNCHANGED world /\ NoFault
    /\ LET h == hand[w]
           e == h.ev
           f == /\ e.e = "failed" /\ rec.operation = "main_release"
                /\ h.snap.report # "none" /\ h.snap.engine = "quality_passed"
       IN \/ /\ AcceptEvent(h.b, e.q, e.e, e.r, e.p, f) /\ Stamp(FALSE)
             /\ IF rec'.status = "failed" THEN Return(w)
                                          ELSE Goto(w, "reconcile")
          \/ /\ ~CanAcceptEvent(h.b, e.q, e.e, f)
             /\ UNCHANGED <<rec, stamps, drift>>
             /\ Answer(w, IF EventIdentity(h.b) /\ e.q <= rec.sequence
                          THEN "ok" ELSE "error")

Callback(w) ==
    Verify(w) \/ BindCaller(w) \/ IssueToken(w) \/ Admit(w) \/ Accept(w)

-----------------------------------------------------------------------------
(* Operator decisions.                                                     *)

\* The endpoint reconciles the execution once the approval is saved.
Approve(w) ==
    /\ At(w, "approve") /\ UNCHANGED world /\ NoFault
    /\ SaveCanary /\ Stamp(drift) /\ Goto(w, "reconcile")

Supersede(w) ==
    /\ At(w, "supersede") /\ UNCHANGED world /\ NoFault /\ Return(w)
    /\ \/ SaveSuperseded /\ Stamp(drift)
       \/ ~CanMove("superseded") /\ UNCHANGED <<rec, stamps, drift>>

\* cancel_release, which then stops the build of a PR.
Cancel(w) ==
    /\ At(w, "cancel") /\ UNCHANGED world /\ NoFault
    /\ \/ /\ CancelRelease /\ Stamp(FALSE)
          /\ IF rec.operation = "pr_quality" /\ rec.build # NoBuild
             THEN Goto(w, "stop") ELSE Return(w)
       \/ ~CanCancel /\ UNCHANGED <<rec, stamps, drift>> /\ Return(w)

\* release_cloud_build.cancel, which a newer head of the pull request calls
\* too: the build may have to be found and bound before it can be stopped.
FindStopped(w) ==
    /\ At(w, "stop") /\ NoFault /\ ReadOnly
    /\ Read(w, IF rec.build = NoBuild THEN "stopList" ELSE "stopBuild", rec)

ListStopped(w) ==
    /\ At(w, "stopList") /\ ReadOnly
    /\ \/ /\ NoFault
          /\ \E b \in Matching(hand[w]) :
                hand' = [hand EXCEPT ![w].pc = "stopBind", ![w].snap.build = b]
       \/ NoFault /\ Matching(hand[w]) = {} /\ Return(w)
       \/ Fault /\ Return(w)

BindStopped(w) ==
    /\ At(w, "stopBind") /\ UNCHANGED world /\ NoFault
    /\ LET b == hand[w].snap.build
       IN \/ /\ BindBuild(b) /\ Goto(w, "stopBuild")
             /\ IF rec' = rec THEN UNCHANGED <<stamps, drift>> ELSE Stamp(drift)
          \/ ~CanBind(b) /\ UNCHANGED <<rec, stamps, drift>> /\ Return(w)

StopBuild(w) ==
    /\ At(w, "stopBuild")
    /\ UNCHANGED <<rec, stamps, drift, github, stored, image>>
    /\ \/ NoFault /\ Goto(w, "stopSave")
       \/ Fault /\ Return(w)
    /\ LET b == hand[w].snap.build
       IN builds' = [builds EXCEPT ![b].state =
                       IF @ = "working" THEN "cancelled" ELSE @]

SaveStopped(w) ==
    /\ At(w, "stopSave") /\ UNCHANGED world /\ NoFault /\ Return(w)
    /\ \/ SaveStatus("failed") /\ Stamp(drift)
       \/ ~CanMove("failed") /\ UNCHANGED <<rec, stamps, drift>>

Decision(w) ==
    \/ Approve(w) \/ Supersede(w) \/ Cancel(w) \/ FindStopped(w)
    \/ ListStopped(w) \/ BindStopped(w) \/ StopBuild(w) \/ SaveStopped(w)

-----------------------------------------------------------------------------
(* Requests, builds and the environment.                                   *)

Begin(w, kind, pc, s) ==
    /\ At(w, "idle") /\ kind \in Serves[w] /\ ReadOnly
    /\ hand' = [hand EXCEPT ![w] = [Idle EXCEPT !.pc = pc, !.kind = kind,
                                                !.image = image, !.snap = s]]

\* A webhook delivered again finds the record and, unless it is terminal,
\* submits it again.  Duplicate deliveries count as faults.
Redeliver(w) == /\ ~OrchestratorTerminal(rec) /\ Fault
                /\ Begin(w, "hook", "checks", Blank)

\* Seeded fault: a running execution is left to its callbacks.
DueFault == rec.status \notin Terminal \cup {"running_quality"}

\* iter_due
Due == /\ rec.status \notin Terminal \/ PlannerRetryCandidate(rec)
       /\ ~(rec.operation = "pr_quality" /\ rec.status = "quality_passed")

\* The scheduler delivers at least once: a delivery that meets another sweep in
\* progress is a duplicate and counts as a fault.
Sweep(w) ==
    /\ Due /\ Begin(w, "sweep", "reconcile", Blank)
    /\ IF \E v \in Workers : hand[v].kind = "sweep" THEN Fault ELSE NoFault

AskApprove(w) == /\ rec.status = "release_planned" /\ NoFault
                 /\ Begin(w, "approve", "approve", Blank)

AskSupersede(w) ==
    /\ ~rec.canary /\ NoFault
    /\ rec.status \in {"quality_passed", "release_planned", "publish_pending"}
    /\ Begin(w, "supersede", "supersede", Blank)

AskCancel(w) == NoFault /\ Begin(w, "cancel", "cancel", Blank)

\* handle_pull_request: another head of the PR replaces this one.
NewHead(w) == /\ rec.operation = "pr_quality" /\ ~OrchestratorTerminal(rec)
              /\ NoFault
              /\ Begin(w, "newHead", "stop", Blank)

Calling(b) == \E w \in Workers : /\ hand[w].kind \in {"token", "event"}
                                 /\ hand[w].b = b

Call(w, b, kind, event) ==
    /\ builds[b].state = "working" /\ ~Calling(b)
    /\ At(w, "idle") /\ kind \in Serves[w] /\ NoFault /\ ReadOnly
    /\ hand' = [hand EXCEPT ![w] =
                  [Idle EXCEPT !.pc = "verify", !.kind = kind, !.b = b,
                               !.image = image, !.snap = rec, !.ev = event]]

AskToken(w, b) == ~builds[b].token /\ Call(w, b, "token", NoEvent)

\* The events of the executor (1, 2) and of the planner (3); the build of a
\* planner recovery runs no quality step.
Upcoming(b) == IF builds[b].attempt > 0 /\ builds[b].sent = 1
               THEN 3 ELSE builds[b].sent + 1

\* The first event of a build, with the token it has just claimed.
Started == {[NoEvent EXCEPT !.q = 1, !.e = "running_quality"]}

\* The publishing step of the executor: the report the manifest holds, or a
\* failure of the engine when there is no valid manifest.  The checks of a
\* report that passed may still miss the policy of the server.
QualityResults ==
    {[NoEvent EXCEPT !.q = 2, !.e = "failed"]}
    \cup {[NoEvent EXCEPT !.q = 2, !.e = x[1], !.r = x[2]] :
            x \in {<<"quality_passed", "good">>, <<"quality_passed", "bad">>,
                   <<"quality_failed", "bad">>}}

\* The publishing step of the planner: a plan, or an invalid manifest.
PlanResults ==
    {[NoEvent EXCEPT !.q = 3, !.e = x[1], !.p = x[2]] :
        x \in {<<"release_planned", "semantic">>, <<"no_release", "none">>,
               <<"failed", "missing">>}}

Events(q) == {event \in Started \cup QualityResults \cup PlanResults :
                event.q = q}

LastEvent == IF rec.operation = "main_release" THEN 3 ELSE 2

SendEvent(w, b) ==
    /\ builds[b].token /\ builds[b].sent < LastEvent
    /\ \E event \in Events(Upcoming(b)) : Call(w, b, "event", event)

\* Executor and planner send a callback once: an error fails the step, as do
\* the results that end the build.
Answered(x, h) ==
    LET over == h.pc = "error" \/ h.ev.e \in {"quality_failed", "failed"}
    IN [x EXCEPT !.token = @ \/ (h.kind = "token" /\ h.pc = "ok"),
                 !.sent = IF h.pc = "ok" /\ h.kind = "event" THEN h.ev.q ELSE @,
                 !.state = IF over /\ @ = "working" THEN "failed" ELSE @]

\* The build gets its answer.
Reply(w) ==
    /\ hand[w].pc \in {"ok", "error"} /\ NoFault
    /\ UNCHANGED <<rec, stamps, drift, github, stored, image>>
    /\ hand' = [hand EXCEPT ![w] = Idle]
    /\ LET b == hand[w].b
       IN builds' = [builds EXCEPT ![b] = Answered(builds[b], hand[w])]

\* A build ends by itself: all steps done, a step failed ("plan_failed" when
\* it is the planner's, between the last two callbacks), or stopped.
Finish(b, state) ==
    /\ builds[b].state = "working" /\ ~Calling(b)
    /\ state = "success" => builds[b].sent = LastEvent
    /\ state = "plan_failed" =>
          /\ rec.operation = "main_release"
          /\ builds[b].sent = IF builds[b].attempt > 0 THEN 1 ELSE 2
    /\ builds' = [builds EXCEPT ![b].state = state]
    /\ UNCHANGED <<rec, hand, stamps, drift, github, stored, image>> /\ NoFault

EndBuild(b) == \E s \in {"success", "plan_failed", "failed", "cancelled"} :
                   Finish(b, s)

\* Time passes.  A live submitter answers within the 120 seconds of grace
\* (its POST times out after 30).
Age ==
    /\ \A w \in Workers : hand[w].pc \notin {"post", "bind", "uncertain", "refused"}
    /\ stamps' = [stamps EXCEPT !.updated = "old",
                               !.uncertain = IF @ = "none" THEN "none" ELSE "old"]
    /\ stamps' # stamps
    /\ UNCHANGED <<rec, hand, drift, faults>> /\ UNCHANGED world

\* A new revision of the API is deployed with another planner image.
RollForward ==
    /\ image = FirstImage
    /\ \E i \in Images \ {FirstImage} : image' = i
    /\ UNCHANGED <<rec, hand, stamps, drift, faults, builds, github, stored>>

\* Somebody pushes to main, or creates the tag first.
Interfere ==
    /\ Fault /\ UNCHANGED <<rec, hand, stamps, drift, builds, stored, image>>
    /\ \/ ~github.moved /\ github' = [github EXCEPT !.moved = TRUE]
       \/ \E half \in {"tag", "release"} :
            github[half] = "none" /\ github' = [github EXCEPT ![half] = "foreign"]

\* The replica dies, or its request is cut off.
Crash(w) ==
    /\ hand[w].pc \notin {"idle", "ok", "error"}
    /\ Fault /\ ReadOnly /\ Answer(w, "error")

Step(w) == Submission(w) \/ Publishing(w) \/ Recovery(w) \/ Consolidation(w)
           \/ Callback(w) \/ Decision(w) \/ Reply(w)

Request(w) == \/ Redeliver(w) \/ AskApprove(w) \/ AskSupersede(w)
              \/ AskCancel(w) \/ NewHead(w)
              \/ \E b \in Builds : AskToken(w, b) \/ SendEvent(w, b)

\* The request that has just reserved the record, start_release for an operator
\* or handle_push; a pull request is opened by its webhook.
Opening ==
    [Idle EXCEPT !.pc = "checks", !.image = FirstImage,
                 !.kind = IF rec.operation = "pr_quality" THEN "hook" ELSE Origin]

SInit ==
    /\ Init
    /\ hand = [w \in Workers |-> IF w = First THEN Opening ELSE Idle]
    /\ builds = [b \in Builds |->
                   [state |-> "none", attempt |-> 0, image |-> NoImage,
                    sent |-> 0, token |-> FALSE]]
    /\ github = [tag |-> "none", release |-> "none", moved |-> FALSE]
    /\ stored = "none" /\ image = FirstImage
    /\ stamps = [updated |-> "recent", uncertain |-> "none", refused |-> FALSE]
    /\ drift = FALSE /\ faults = 0

SNext ==
    \/ \E w \in Workers : Step(w) \/ Sweep(w) \/ Request(w) \/ Crash(w)
    \/ \E b \in Builds : EndBuild(b)
    \/ Age \/ RollForward \/ Interfere

SSpec == SInit /\ [][SNext]_svars

\* A request in progress goes on until it ends or crashes; the scheduler keeps
\* sweeping; a build calls, and ends by its timeout at the latest; time passes.
\* Nothing is assumed of webhooks, operators, deployments or faults.
FairSpec ==
    /\ SSpec /\ WF_svars(Age)
    /\ \A w \in Workers : WF_svars(Step(w)) /\ WF_svars(Sweep(w))
    /\ \A b \in Builds :
          /\ WF_svars(EndBuild(b))
          /\ WF_svars(\E w \in Workers : AskToken(w, b) \/ SendEvent(w, b))

-----------------------------------------------------------------------------
(* Safety.                                                                 *)

STypeOK ==
    /\ TypeOK
    /\ builds \in [Builds -> [state : {"none", "working", "success",
                                       "plan_failed", "failed", "cancelled"},
                              attempt : 0..3, image : Images \cup {NoImage},
                              sent : 0..3, token : BOOLEAN]]
    /\ github \in [tag : {"none", "ours", "foreign"},
                   release : {"none", "ours", "foreign"}, moved : BOOLEAN]
    /\ stored \in Reports /\ image \in Images /\ drift \in BOOLEAN
    /\ stamps \in [updated : {"recent", "old"}, uncertain : {"none", "recent", "old"},
                   refused : BOOLEAN]
    /\ faults \in 0..MaxFaults
    /\ \A w \in Workers : hand[w].snap \in ExecutionType

\* The handlers use the record only as its store allows: every step of every
\* handler is a transaction of ReleaseExecutions or leaves the record alone.
ImplementsStore == Spec

\* A tag or Release of ours exists on GitHub only for a release that was
\* claimed, whose plan is semantic, whose evidence is in the store and passed
\* the policy, and that the service or a canary approval lets through.
PublicationIsAuthorized ==
    "ours" \in {github.tag, github.release} =>
        /\ rec.claimed /\ rec.evidence /\ stored = "good"
        /\ rec.plan = "semantic" /\ (AutoPublish \/ rec.canary)

\* A record says "released" only when both halves are on GitHub, and the
\* Release is never created ahead of its tag.
ReleasedIsPublished ==
    /\ rec.status = "released" => github.tag = "ours" /\ github.release = "ours"
    /\ github.release = "ours" => github.tag = "ours"

\* Every build that was ever created is paid for by the submission, by a
\* counted retry of an uncertain submission, or by a planner recovery.
BuildsAreAccountedFor ==
    Cardinality(Live) <= 1 + rec.attempts + rec.retries

\* As long as the planner image is not rolled forward, only one build at a time
\* works for the execution: a lost submission is found before another is made.
\* (_matching_build compares with the image that is current, so after a roll
\* forward a build that is at work unbound is not recognised.)
OneWorkingBuild ==
    image = FirstImage =>
        Cardinality({b \in Builds : builds[b].state = "working"}) <= 1

\* The evidence store is written before the record refers to it, and both
\* agree, even when a handler dies in between or two consolidate at once.
RecordMatchesEvidence == rec.committed \in {"none", stored}

\* A build that succeeded has had every result recorded: the callbacks are
\* acknowledged only once they are durable.
SuccessIsReported ==
    rec.build # NoBuild /\ builds[rec.build].state = "success" =>
        /\ rec.sequence = LastEvent /\ rec.report # "none"
        /\ rec.operation = "main_release" => rec.plan # "missing"

\* An instance in which the execution may be ended by decision: start_release,
\* which saves "failed" over whatever an exception left ("unknown" or a bound
\* build included), an operator who cancels, a newer head of the pull request.
EndsByDecision ==
    \/ Origin = "start"
    \/ \E w \in Workers : Serves[w] \cap {"cancel", "newHead"} # {}

\* An execution that is not ended by decision fails only for a reason: a build of
\* it failed or was stopped, the executor reported a failure, or the POST of a
\* build got an error answer, which submit saves with its status code and takes
\* for a refusal.  No other failing call and no order of requests ends it.
\* (After an error answer a build may nevertheless be at work, which nobody looks
\* for, or which a sweep has even bound before the refusal is saved.  And again
\* the planner image is not rolled forward.)
FailureHasACause ==
    rec.status = "failed" /\ image = FirstImage /\ ~EndsByDecision =>
        \/ rec.engine = "failed" \/ stamps.refused
        \/ \E b \in Live : builds[b].state \in {"failed", "plan_failed", "cancelled"}

\* Without a fault and without a change of planner image, sweeps and callbacks
\* never bring a first attempt to "unknown", the status nobody leaves alone.
UnknownNeedsAFault ==
    rec.status = "unknown" => \/ faults > 0 \/ image # FirstImage
                              \/ rec.retries > 0

\* A remediation runs another planner image than the one that failed, and the
\* contract retry runs the image of the remediation.
RecoveryImages ==
    \A a, b \in Live :
        /\ builds[a].attempt = 1 /\ builds[b].attempt = 2
              => builds[a].image # builds[b].image
        /\ builds[a].attempt = 2 /\ builds[b].attempt = 3
              => builds[a].image = builds[b].image

\* A submitter that read the record after a planner recovery never takes a build
\* that the recovery retired for the one it asked for.  (One that stalls between
\* the answer of Cloud Build and its bind_build until its build has failed and
\* been retired does bind it again; ReadBuild then reports the identity.)
RetiredIsNotRecognised ==
    \A w \in Workers : At(w, "bind") /\ hand[w].snap.retries = rec.retries
                           => hand[w].found \notin rec.retired

\* What the record tells is so: it is well formed, and its release, its verdict
\* and its results each have what they claim on GitHub, in the evidence store and
\* on Cloud Build, whatever the requests in progress and the faults do
\* (reconcile, _commit_quality, publish_release, accept_event).
RecordIsTrue ==
    STypeOK /\ ReleasedIsPublished /\ RecordMatchesEvidence /\ SuccessIsReported

\* While the planner image is not rolled forward, a release has one build at
\* work, fails only for a cause or by decision, and is in doubt only after a
\* fault (submit, reconcile_uncertain_submission, reconcile).
SteadyImageIsOrderly == OneWorkingBuild /\ FailureHasACause /\ UnknownNeedsAFault

\* Retries and recoveries stay within their rules: each build is accounted for,
\* runs the image its attempt asks for, and a retired one is not taken for the
\* build of the recovery (reconcile_submission_absent, stage_planner_retry,
\* _matching_build).
RecoveryIsOrderly ==
    BuildsAreAccountedFor /\ RecoveryImages /\ RetiredIsNotRecognised

\* Evidence governs the pull request and the publication: the record agrees with
\* the store, and nothing is published that it and the approval do not allow
\* (_commit_quality, claim_publish, approve_canary).
EvidenceGoverns == RecordMatchesEvidence /\ PublicationIsAuthorized

\* Committed evidence is never replaced, however late a stale handler commits.
EvidenceIsFrozen == [][rec.evidence => rec'.committed = rec.committed]_svars

-----------------------------------------------------------------------------
(* Liveness, under FairSpec.                                               *)

\* A claimed publication never hangs: when the publisher dies between claim,
\* tag, Release and the final save, a later sweep completes the missing part
\* or reports the conflict.
PublicationSettles ==
    rec.status = "publish_pending" ~> rec.status # "publish_pending"

\* A publication in doubt is completed by later sweeps, unless GitHub shows a
\* conflict that only an operator can resolve.
DoubtIsResolved ==
    (rec.status = "unknown" /\ rec.pubUncertain) ~>
        \/ rec.status \notin {"unknown", "publish_pending"}
        \/ github.moved \/ "foreign" \in {github.tag, github.release}

\* A publication ends, whether its publisher died or an answer was lost
\* (_publish_if_allowed, publish_release).
PublicationEnds == PublicationSettles /\ DoubtIsResolved

\* A submission whose owner died after the claim is taken up again once,
\* after the grace period.
SubmissionIsTakenUp ==
    (rec.status = "submitting" /\ rec.attempts = 0) ~> rec.status # "submitting"

\* The result of a bound build is consolidated: the execution does not stay
\* in a running status once its build has ended.
ResultIsConsolidated ==
    (rec.build # NoBuild /\ builds[rec.build].state # "working")
        ~> rec.status \notin {"submission_pending", "running_quality"}

=============================================================================
