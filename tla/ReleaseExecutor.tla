-------------------------- MODULE ReleaseExecutor --------------------------
(***************************************************************************)
(* The release executor image: one deployment or rollback carried out by   *)
(* release_executor.py.  Every change is a command of an external tool,    *)
(* which may succeed, fail without an effect, or fail after its effect     *)
(* took place; the run may also be killed between two commands.            *)
(*                                                                         *)
(* "service" is deploy, "runtime" deploy_runtime, "staged" (API) and       *)
(* "staged_web" the candidate and promote phases of a GitHub deployment    *)
(* with an approval between them, "job" deploy_job; the others are the     *)
(* rollbacks.  serving is what production runs: a revision with all the    *)
(* traffic, or the definition of a Job, which is "check" while it can only *)
(* check readiness.  facts are the conditions outside this program that it *)
(* checks and that hold.                                                   *)
(***************************************************************************)
EXTENDS Naturals, FiniteSets, Sequences

CONSTANTS Schedules,   \* Cloud Scheduler triggers of the Job
          MaxFaults    \* bound on failed commands, kills and foreign changes

ASSUME FaultsAssumption == MaxFaults \in Nat

VARIABLES op,        \* the operation of this run
          scoped,    \* the old release is under the runtime-v1 protocol
          same,      \* the new release has the commit of the old one
          profile,   \* which hooks with effects the release profile has
          facts, registry,                         \* the outside
          serving, paired, grants, sched, saved,   \* production and the bucket
          at,                                      \* the executor: where it is,
          image, started, granted, promoted, previous, active, scanned,  \* its memory
          report,    \* the last outcome emitted
          faults,
          origin, sched0,  \* history: production when the change began
          told             \* history: an outcome of this run has been reported

env == <<op, scoped, same, profile>>
outside == <<facts, registry>>
mem == <<image, started, granted, promoted, previous, active, scanned>>
history == <<origin, sched0, told>>
vars == <<env, outside, serving, paired, grants, sched, saved, at, mem, report, faults,
          history>>

Ops == {"service", "runtime", "staged", "staged_web", "job",
        "rollback_service", "rollback_runtime", "rollback_job"}
IsJob == op \in {"job", "rollback_job"}
IsStaged == op \in {"staged", "staged_web"}
IsRollback == op \in {"rollback_service", "rollback_runtime", "rollback_job"}
\* Releases whose runtime must be authorized before it may work.
HasGrants == op \notin {"service", "rollback_service", "staged_web"}
Sha(what) == IF what = "new" /\ same THEN "old" ELSE what

\* Profiles whose hooks prepare resources, open a window, or both; each of
\* them has a recovery hook and a rollback hook.
Profiles == {"plain", "prepare", "window", "both"}
Hooked == profile # "plain"
HasHooks(phase) == profile \in {phase, "both"}

\* What the executor checks about the world outside: each check fails unless
\* its facts hold.
SourceFacts == {"profile", "source", "hooks"}   \* the checkout is what was authorized
QualityFacts == {"quality"}         \* the exact evidence of the commit passed
VariableFacts == {"variables"}      \* every variable of the profile can be rendered
IdentityFacts == {"identity"}       \* a token for the private runtime can be minted
WebFacts == {"web"}                 \* the paired web serves the expected commit
PrivateFacts == {"private"}         \* nobody may call the runtime anonymously
CandidateFacts == {"candidate"}     \* revision, image, labels and tag of the candidate
JobFacts == {"job"}                 \* the definition is this Job's and a worker's
TargetFacts == {"target"}           \* the target of a rollback is compatible
Facts == UNION {SourceFacts, QualityFacts, VariableFacts, IdentityFacts, WebFacts,
                PrivateFacts, CandidateFacts, JobFacts, TargetFacts}

----------------------------------------------------------------------------
(* The order of the steps.                                                 *)

\* main, and the function it dispatches to.
Path ==
  CASE op = "service" -> <<"start", "quality", "image", "snapshot", "prepare", "candidate",
                           "probe", "window", "promote", "validate", "report", "summary", "done">>
    [] op = "runtime" -> <<"start", "quality", "image", "snapshot", "candidate", "probe",
                           "authorize", "ready", "promote", "validate", "retire", "report",
                           "summary", "done">>
    [] IsStaged -> <<"start", "quality", "image", "snapshot", "candidate", "probe", "stage_check",
                     "staged", "restart", "requality", "load", "reprobe", "authorize", "ready",
                     "promote", "validate", "retire", "report", "summary", "done">>
    [] op = "job" -> <<"start", "quality", "image", "snapshot", "save_old", "pause", "stage_job",
                       "authorize", "ready", "promote", "save_new", "retire", "report", "resume",
                       "summary", "done">>
    [] op = "rollback_service" -> <<"start", "quality", "snapshot", "promote", "validate",
                                    "report", "summary", "done">>
    [] op = "rollback_runtime" -> <<"start", "quality", "snapshot", "authorize", "promote",
                                    "validate", "report", "summary", "done">>
    [] op = "rollback_job" -> <<"start", "quality", "snapshot", "pause", "authorize", "stage_job",
                                "ready", "promote", "validate", "resume", "report", "summary",
                                "done">>
After(step) == LET i == CHOOSE j \in 1..Len(Path) : Path[j] = step IN Path[i + 1]

\* The steps inside the try block whose handler restores production.
Tried ==
  CASE op = "service" -> {"prepare", "candidate", "probe", "window", "promote", "validate"}
    [] op = "job" -> {"stage_job", "authorize", "ready", "promote", "save_new", "retire"}
    [] op = "rollback_job" -> {"authorize", "stage_job", "ready", "promote", "validate"}
    [] op = "rollback_runtime" -> {"promote", "validate"}
    [] op = "rollback_service" -> {}
    [] OTHER -> {"authorize", "ready", "promote", "validate", "retire"}
OnFail(step) == IF step \in Tried THEN "recover" ELSE "fail"

Fault == faults < MaxFaults /\ faults' = faults + 1

\* The step ends well, or its command fails, with or without its effect.
Ends(from, to, onFail) ==
  /\ at = from
  /\ \/ at' = to /\ UNCHANGED faults
     \/ at' = onFail /\ Fault
Does(step) == Ends(step, After(step), OnFail(step))
\* The command of the step fails without an effect.
Fails(from, onFail) == at = from /\ at' = onFail /\ Fault
\* The step is passed over.
Skips(step) == at = step /\ at' = After(step) /\ UNCHANGED faults
\* The step reads conditions of the outside and fails unless they hold.
Checks(step, needed) ==
  IF needed \subseteq facts THEN Does(step)
  ELSE at = step /\ at' = OnFail(step) /\ UNCHANGED faults

----------------------------------------------------------------------------
(* The checks before anything changes.                                     *)

\* verify_profile, assert_source, verify_hooks; both phases begin with them.
AssertSource ==
  /\ \/ Checks("start", SourceFacts)
     \/ Checks("restart", SourceFacts)
  /\ UNCHANGED <<env, outside, serving, paired, grants, sched, saved, mem, report, history>>

\* verify_quality: the exact evidence passed, and a copy of it is stored for
\* the management job.  A rollback of a service with plain traffic asks nothing.
NeedsQuality == ~IsRollback \/ HasGrants
VerifyQuality ==
  /\ \E step \in {"quality", "requality"} :
       IF NeedsQuality THEN Checks(step, QualityFacts) ELSE Skips(step)
  /\ UNCHANGED <<env, outside, serving, paired, grants, sched, saved, mem, report, history>>

\* image_for_tag: an image that already has the tag is taken only if its labels
\* name this commit.  A pull that fails for any reason means there is none.
Proven == registry = "released"
PullImage ==
  /\ at = "image"
  /\ \/ registry = "none" /\ at' = "build" /\ UNCHANGED <<image, faults>>
     \/ registry # "none" /\ at' = "build" /\ UNCHANGED image /\ Fault
     \/ registry # "none" /\ Proven /\ image' = registry /\ Does("image")
     \/ registry # "none" /\ ~Proven /\ at' = "fail" /\ UNCHANGED <<image, faults>>
  /\ UNCHANGED <<env, outside, serving, paired, grants, sched, saved, started, granted,
                 promoted, previous, active, scanned, report, history>>

\* Build and push under the tag.
BuildImage ==
  /\ \/ registry' = "released" /\ image' = "released" /\ Ends("build", After("image"), "fail")
     \/ UNCHANGED <<registry, image>> /\ Fails("build", "fail")
  /\ UNCHANGED <<env, facts, serving, paired, grants, sched, saved, started, granted,
                 promoted, previous, active, scanned, report, history>>

\* Traffic, revisions or the Job's definition are recorded; the paired web, the
\* private boundary and the target of a rollback are verified.
SnapshotFacts ==
  CASE op = "runtime" -> WebFacts
    [] IsStaged -> WebFacts \cup PrivateFacts
    [] op = "job" -> JobFacts
    [] op = "rollback_runtime" -> WebFacts \cup TargetFacts
    [] op = "rollback_job" -> TargetFacts
    [] OTHER -> {}
Snapshot ==
  /\ Checks("snapshot", SnapshotFacts)
  /\ previous' = serving /\ origin' = serving /\ sched0' = sched
  /\ UNCHANGED <<env, outside, serving, paired, grants, sched, saved, image, started, granted,
                 promoted, active, scanned, report, told>>

\* The definition of a Job goes to the bucket, where a rollback finds it.
SaveDefinition ==
  /\ \E step \in {"save_old", "save_new"} :
       \/ /\ saved' = saved \cup {IF step = "save_old" THEN "old" ELSE "new"}
          /\ Does(step)
       \/ UNCHANGED saved /\ Fails(step, OnFail(step))
  /\ UNCHANGED <<env, outside, serving, paired, grants, sched, mem, report, history>>

----------------------------------------------------------------------------
(* The way up.                                                             *)

\* pre_candidate_hooks and pre_promote_hooks: once such a hook has started its
\* effects must be recovered.
RunHooks(step) ==
  /\ \/ Does(step)
     \/ Fails(step, OnFail(step))
  /\ started' = (started \/ HasHooks(step))
  /\ paired' \in IF HasHooks(step) THEN {paired, "new"} ELSE {paired}
  /\ UNCHANGED <<env, outside, serving, grants, sched, saved, image, granted, promoted,
                 previous, active, scanned, report, history>>

\* A revision with the image and the profile's variables, without traffic.
DeployCandidate ==
  /\ Checks("candidate", VariableFacts)
  /\ UNCHANGED <<env, outside, serving, paired, grants, sched, saved, mem, report, history>>

\* The candidate answers at its own address: health, or readiness that may
\* still wait for the authorization; a staged one is also identified.
ProbeCandidate ==
  /\ Checks("probe", IdentityFacts \cup IF IsStaged THEN PrivateFacts \cup CandidateFacts ELSE {})
  /\ UNCHANGED <<env, outside, serving, paired, grants, sched, saved, mem, report, history>>

\* stage_candidate: production is still what the snapshot says; the
\* continuation is written and the phase ends.
StageCandidate ==
  /\ at = "stage_check"
  /\ at' = IF serving = previous THEN "staged" ELSE "fail"
  /\ UNCHANGED <<env, outside, serving, paired, grants, sched, saved, mem, report, faults,
                 history>>

\* While the approval is pending another operation may change production, the
\* candidate, the paired web, the invokers or the verdict.
ForeignChange ==
  /\ at = "staged" /\ Fault
  /\ \/ /\ serving' = "other" /\ grants' = grants \cup {"other"}
        /\ UNCHANGED facts
     \/ /\ \E f \in {"quality", "web", "private", "candidate"} \cap facts : facts' = facts \ {f}
        /\ UNCHANGED <<serving, grants>>
  /\ UNCHANGED <<env, registry, paired, sched, saved, at, mem, report, history>>

Approve ==
  /\ at = "staged" /\ at' = After("staged")
  /\ origin' = serving
  /\ UNCHANGED <<env, outside, serving, paired, grants, sched, saved, mem, report, faults,
                 sched0, told>>

\* promote_candidate: the same traffic and configuration as when the candidate
\* was validated, or no promotion.
CanPromote == serving = previous
LoadContinuation ==
  /\ at = "load"
  /\ \/ CanPromote /\ Does("load")
     \/ ~CanPromote /\ at' = "fail" /\ UNCHANGED faults
  /\ UNCHANGED <<env, outside, serving, paired, grants, sched, saved, mem, report, history>>

RecheckedFactsFault == WebFacts \cup IdentityFacts

\* The candidate is identified, shielded, paired and probed once more.
RecheckedFacts == UNION {CandidateFacts, PrivateFacts, WebFacts, IdentityFacts}
ReprobeCandidate ==
  /\ Checks("reprobe", RecheckedFacts)
  /\ UNCHANGED <<env, outside, serving, paired, grants, sched, saved, mem, report, history>>

\* Every trigger that is enabled is noted, then paused.  A failure resumes the
\* ones noted so far.
Noted(s) == IF sched[s] = "ENABLED" THEN active \cup {s} ELSE active
PauseSchedule(s) ==
  /\ at = "pause" /\ s \notin scanned
  /\ scanned' = scanned \cup {s}
  /\ active' = Noted(s)
  /\ \/ sched' = [sched EXCEPT ![s] = "PAUSED"] /\ UNCHANGED <<at, faults>>
     \/ /\ at' = "unpause" /\ Fault
        /\ sched' \in {sched, [sched EXCEPT ![s] = "PAUSED"]}
  /\ UNCHANGED <<env, outside, serving, paired, grants, saved, image, started, granted,
                 promoted, previous, report, history>>

Paused ==
  /\ at = "pause" /\ scanned = Schedules
  /\ at' = After("pause")
  /\ UNCHANGED <<env, outside, serving, paired, grants, sched, saved, mem, report, faults,
                 history>>

\* The Job's new definition can only check its readiness.
StageJob ==
  /\ \/ /\ op = "job" => VariableFacts \subseteq facts
        /\ serving' = "check" /\ Does("stage_job")
     \/ UNCHANGED serving /\ Fails("stage_job", "recover")
     \/ /\ op = "job" /\ ~(VariableFacts \subseteq facts)
        /\ at = "stage_job" /\ at' = "recover" /\ UNCHANGED <<serving, faults>>
  /\ UNCHANGED <<env, outside, paired, grants, sched, saved, mem, report, history>>

\* runtime_grant of the new release.  deploy_runtime, deploy_job and
\* promote_candidate note it first: a failed job may have committed.
Authorize ==
  /\ IF HasGrants
     THEN /\ \/ grants' = grants \cup {Sha("new")} /\ Does("authorize")
             \/ UNCHANGED grants /\ Fails("authorize", OnFail("authorize"))
          /\ granted' = (granted \/ ~IsRollback)
     ELSE Skips("authorize") /\ UNCHANGED <<grants, granted>>
  /\ UNCHANGED <<env, outside, serving, paired, sched, saved, image, started, promoted,
                 previous, active, scanned, report, history>>

\* A runtime is ready when its release is authorized.
IsReady == HasGrants => Sha("new") \in grants
\* runtime_ready of the candidate, check_job_runtime of the staged Job.
CheckReady ==
  /\ \/ IsReady /\ Does("ready")
     \/ ~IsReady /\ at = "ready" /\ at' = OnFail("ready") /\ UNCHANGED faults
  /\ UNCHANGED <<env, outside, serving, paired, grants, sched, saved, mem, report, history>>

PromoteFault ==
  /\ \/ serving' = "new" /\ Does("promote") /\ promoted' = (at' # OnFail("promote"))
     \/ UNCHANGED <<serving, promoted>> /\ Fails("promote", OnFail("promote"))
  /\ paired' \in IF op = "rollback_service" /\ Hooked THEN {paired, "new"} ELSE {paired}
  /\ UNCHANGED <<env, outside, grants, sched, saved, image, started, granted, previous, active,
                 scanned, report, history>>

\* Production moves.  The flag is set first: a failed command may have moved it.
\* A rollback of a service with hooks moves through its rollback hook.
Promote ==
  /\ \/ serving' = "new" /\ Does("promote")
     \/ UNCHANGED serving /\ Fails("promote", OnFail("promote"))
  /\ promoted' = TRUE
  /\ paired' \in IF op = "rollback_service" /\ Hooked THEN {paired, "new"} ELSE {paired}
  /\ UNCHANGED <<env, outside, grants, sched, saved, image, started, granted, previous, active,
                 scanned, report, history>>

\* The promoted release is probed; hooks finish what they prepared.  A rollback
\* by plain traffic is not probed.
Validate ==
  /\ IF op = "rollback_service" /\ ~Hooked THEN Skips("validate")
     ELSE IF IsReady THEN Checks("validate", IF IsStaged THEN PrivateFacts ELSE {})
     ELSE at = "validate" /\ at' = OnFail("validate") /\ UNCHANGED faults
  /\ paired' \in IF op = "service" /\ Hooked THEN {paired, "new"} ELSE {paired}
  /\ UNCHANGED <<env, outside, serving, grants, sched, saved, mem, report, history>>

\* The authorization of the release that no longer serves.
MustRetire == HasGrants /\ scoped /\ ~same
Retire ==
  /\ IF MustRetire
     THEN \/ grants' = grants \ {"old"} /\ Does("retire")
          \/ UNCHANGED grants /\ Fails("retire", "recover")
     ELSE Skips("retire") /\ UNCHANGED grants
  /\ UNCHANGED <<env, outside, serving, paired, sched, saved, mem, report, history>>

\* What the run says of itself; delivery is the platform's concern.
Emit(outcome) == report' = outcome /\ told' = TRUE
Report ==
  /\ Skips("report")
  /\ Emit(IF IsRollback THEN "rolled_back" ELSE "succeeded")
  /\ UNCHANGED <<env, outside, serving, paired, grants, sched, saved, mem, origin, sched0>>

\* write_summary, after the outcome was reported: the upload may fail.
Summary ==
  /\ Does("summary")
  /\ UNCHANGED <<env, outside, serving, paired, grants, sched, saved, mem, report, history>>

----------------------------------------------------------------------------
(* The way back.                                                           *)

\* deploy_runtime and deploy_job report the failure before they restore.
\* deploy_job puts its old definition back whatever was reached.
Recover ==
  /\ at = "recover"
  /\ report' = IF op \in {"runtime", "job"} THEN "failed" ELSE report
  /\ at' = CASE op = "service" -> IF promoted \/ started THEN "restore" ELSE "fail"
             [] op = "runtime" \/ IsStaged -> IF promoted THEN "reauthorize" ELSE "revoke"
             [] op = "job" -> "reauthorize"
             [] IsRollback -> "restore"
  /\ UNCHANGED <<env, outside, serving, paired, grants, sched, saved, mem, faults, history>>

\* The old release works again before it serves again.
Reauthorize ==
  /\ IF scoped /\ HasGrants
     THEN \/ grants' = grants \cup {"old"} /\ Ends("reauthorize", "restore", "abort")
          \/ UNCHANGED grants /\ Fails("reauthorize", "abort")
     ELSE at = "reauthorize" /\ at' = "restore" /\ UNCHANGED <<grants, faults>>
  /\ UNCHANGED <<env, outside, serving, paired, sched, saved, mem, report, history>>

\* The prior traffic or definition; a profile with hooks restores through its
\* recovery hook, which also undoes what its hooks prepared.
Restore ==
  /\ \/ /\ serving' = previous
        /\ paired' = IF Hooked /\ op = "service" THEN "old" ELSE paired
        /\ Ends("restore", "verify", "abort")
     \/ UNCHANGED <<serving, paired>> /\ Fails("restore", "abort")
  /\ UNCHANGED <<env, outside, grants, sched, saved, mem, report, history>>

\* What was restored is read back.  rollback_runtime does not look.
Verify ==
  /\ IF op = "rollback_runtime" THEN at = "verify" /\ at' = "abort" /\ UNCHANGED faults
     ELSE Ends("verify", CASE op = "service" -> "restored"
                           [] op = "rollback_job" -> "unpause"
                           [] OTHER -> "revoke", "abort")
  /\ UNCHANGED <<env, outside, serving, paired, grants, sched, saved, mem, report, history>>

\* The authorization of the release that did not make it, unless the old
\* release is the same commit.
MustRevoke == granted /\ Sha("new") # "old"
Revoke ==
  /\ IF MustRevoke
     THEN \/ /\ grants' = grants \ {Sha("new")}
             /\ Ends("revoke", "restored", "abort")
          \/ UNCHANGED grants /\ Fails("revoke", "abort")
     ELSE at = "revoke" /\ at' = "restored" /\ UNCHANGED <<grants, faults>>
  /\ UNCHANGED <<env, outside, serving, paired, sched, saved, mem, report, history>>

\* A restored release is reported; one that never moved production just fails.
Restored ==
  /\ at = "restored"
  /\ IF promoted \/ op = "job" \/ started
     THEN Emit("rolled_back") /\ at' = IF op = "job" THEN "resume" ELSE "done"
     ELSE at' = "fail" /\ UNCHANGED <<report, told>>
  /\ UNCHANGED <<env, outside, serving, paired, grants, sched, saved, mem, faults, origin, sched0>>

----------------------------------------------------------------------------
(* The end.                                                                *)

\* Triggers that this run paused are resumed: after the work ("resume") or
\* before the failure is raised ("unpause").
Resumable == active
ResumeSchedule(s) ==
  /\ at \in {"resume", "unpause"} /\ s \in Resumable /\ sched[s] = "PAUSED"
  /\ \/ sched' = [sched EXCEPT ![s] = "ENABLED"] /\ UNCHANGED <<at, faults>>
     \/ sched' \in {sched, [sched EXCEPT ![s] = "ENABLED"]} /\ at' = "fail" /\ Fault
  /\ UNCHANGED <<env, outside, serving, paired, grants, saved, mem, report, history>>

AllResumedFault == \A s \in Schedules : sched[s] = "ENABLED"

AllResumed == \A s \in Resumable : sched[s] = "ENABLED"
Resumed ==
  /\ at \in {"resume", "unpause"} /\ AllResumed
  /\ at' = IF at = "unpause" THEN "fail"
           ELSE IF report = "rolled_back" THEN "done" ELSE After("resume")
  /\ UNCHANGED <<env, outside, serving, paired, grants, sched, saved, mem, report, faults, history>>

AfterAbortFault == IF IsJob THEN "unpause" ELSE "fail"

\* main's handler reports any other exception.  A recovery that could not be
\* verified leaves the triggers paused.
AfterAbort == "fail"
Abort ==
  /\ at = "abort" /\ at' = AfterAbort
  /\ UNCHANGED <<env, outside, serving, paired, grants, sched, saved, mem, report, faults, history>>

Fail ==
  /\ at = "fail" /\ at' = "done" /\ report' = "failed"
  /\ UNCHANGED <<env, outside, serving, paired, grants, sched, saved, mem, faults, history>>

\* A timeout, a cancellation or a lost machine.
Kill ==
  /\ at \notin {"start", "staged", "done", "killed"}
  /\ Fault
  /\ at' = "killed"
  /\ UNCHANGED <<env, outside, serving, paired, grants, sched, saved, mem, report, history>>

----------------------------------------------------------------------------
Init ==
  /\ op \in Ops
  /\ scoped \in BOOLEAN /\ same \in BOOLEAN /\ profile \in Profiles
  /\ Hooked => op \in {"service", "rollback_service"}
  /\ IsRollback => scoped /\ ~same
  /\ same => scoped
  /\ op = "staged_web" => ~scoped
  /\ serving = "old" /\ paired = "old"
  /\ grants = IF scoped THEN {"old"} ELSE {}
  /\ sched \in [Schedules -> {"ENABLED", "PAUSED"}]
  /\ ~IsJob => \A s \in Schedules : sched[s] = "ENABLED"
  /\ at = "start"
  /\ facts \in {Facts} \cup {Facts \ {f} : f \in Facts}
  /\ registry \in {"none", "released", "foreign"} /\ (IsRollback => registry = "released")
  /\ saved = {} /\ image = "none" /\ started = FALSE
  /\ granted = FALSE /\ promoted = FALSE /\ previous = "old"
  /\ active = {} /\ scanned = {}
  /\ report = "running" /\ faults = 0
  /\ origin = "old" /\ sched0 = sched /\ told = FALSE

\* The steps of the executor itself.
Work ==
  \/ AssertSource \/ VerifyQuality \/ PullImage \/ BuildImage \/ Snapshot \/ SaveDefinition
  \/ \E step \in {"prepare", "window"} : RunHooks(step)
  \/ DeployCandidate \/ ProbeCandidate \/ StageCandidate \/ LoadContinuation \/ ReprobeCandidate
  \/ \E s \in Schedules : PauseSchedule(s) \/ ResumeSchedule(s)
  \/ Paused \/ StageJob \/ Authorize \/ CheckReady \/ Promote \/ Validate \/ Retire \/ Report \/ Summary
  \/ Recover \/ Reauthorize \/ Restore \/ Verify \/ Revoke \/ Restored
  \/ Resumed \/ Abort \/ Fail

Next == Work \/ Approve \/ ForeignChange \/ Kill

\* The executor never stops between two commands unless it is killed: every
\* command has a timeout.
Spec == Init /\ [][Next]_vars
FairSpec == Spec /\ WF_vars(Work)

----------------------------------------------------------------------------
(* Correctness.                                                            *)

TypeOK ==
  /\ op \in Ops
  /\ scoped \in BOOLEAN /\ same \in BOOLEAN /\ profile \in Profiles
  /\ facts \subseteq Facts /\ registry \in {"none", "released", "foreign"}
  /\ image \in {"none", "released", "foreign"} /\ saved \subseteq {"old", "new"}
  /\ serving \in {"old", "new", "other", "check"}
  /\ paired \in {"old", "new"}
  /\ grants \subseteq {"old", "new", "other"}
  /\ sched \in [Schedules -> {"ENABLED", "PAUSED"}]
  /\ previous \in {"old", "other"} /\ origin \in {"old", "other"}
  /\ active \subseteq scanned /\ scanned \subseteq Schedules
  /\ report \in {"running", "succeeded", "rolled_back", "failed"}
  /\ faults \in 0..MaxFaults /\ told \in BOOLEAN
  /\ started \in BOOLEAN /\ granted \in BOOLEAN /\ promoted \in BOOLEAN

\* Whatever fails, and wherever the run is killed, the release that serves
\* production (or that a Job's definition names) is one whose runtime is
\* authorized: the new one before it serves, the old one until it does not
\* (deploy_runtime, promote_candidate, deploy_job, the rollbacks).
ServingIsAuthorized ==
  HasGrants =>
    /\ serving = "new" => Sha("new") \in grants
    /\ serving = "old" /\ scoped => "old" \in grants

\* A trigger that is enabled never meets a Job definition that can only check
\* its readiness: no scheduled work is lost silently, also after a kill or a
\* recovery that failed (pause_job_schedules, resume_safe).
TriggersMeetWholeJobs ==
  (\E s \in Schedules : sched[s] = "ENABLED") => serving # "check"

\* A trigger an operator had paused is still paused, and one that a successful
\* or restored Job release paused runs again (active, resume_job_schedules).
TriggersComeBack ==
  /\ \A s \in Schedules : sched0[s] = "PAUSED" => sched[s] = "PAUSED"
  /\ at = "done" /\ report # "failed" => sched = sched0

\* "Rolled back" is reported of a deployment only when production, paired
\* resources included, is what it was when this run began to change it, also
\* when another operation changed it while the approval was pending
\* (deploy, promote_candidate, deploy_runtime, deploy_job).
RolledBackIsPrior ==
  report = "rolled_back" /\ ~IsRollback => serving = origin /\ paired = "old"

\* One failed command is always recovered: a run that was not killed ends with
\* the new release or with production as it found it, and its only report is
\* a failure in the latter case alone, a Job rollback that could not resume its
\* triggers excepted (the except blocks).
OneFailureIsRecovered ==
  at = "done" /\ faults <= 1 /\ op # "rollback_service" =>
    /\ serving \in {"new", origin}
    /\ ~told /\ op # "rollback_job" => serving = origin

\* Production never moves to a release on checks that no longer hold: whatever
\* changes while an approval is pending, the verdict, the paired web, the
\* private boundary and the candidate itself are as they were checked, and the
\* image is of the released commit, also when the tag was already taken
\* (promote_candidate, verify_quality, image_for_tag).
PromotedAsChecked ==
  serving = "new" /\ op # "rollback_service" =>
    /\ {"profile", "source", "hooks", "quality"} \subseteq facts
    /\ IF IsRollback THEN "target" \in facts ELSE image = "released" /\ "variables" \in facts
    /\ op = "runtime" => "web" \in facts
    /\ IsStaged => {"web", "private", "candidate"} \subseteq facts

\* Wherever a Job release stops, the definition it replaced is saved where a
\* later rollback looks for it, and so is its own once it is reported
\* (_save_job_definition).  It says no more: rollback_job saves nothing itself
\* and refuses a saved definition that is not of an independent release.
PriorIsRestorable ==
  op = "job" => /\ serving # "old" => "old" \in saved
                /\ report = "succeeded" => "new" \in saved

\* Wherever the run stops, is killed or fails, what serves is authorized, what
\* triggers start is whole, and what a Job release replaced is saved
\* (deploy_runtime, deploy_job, promote_candidate, the rollbacks).
ProductionIsSafe ==
  TypeOK /\ ServingIsAuthorized /\ TriggersMeetWholeJobs /\ PriorIsRestorable

\* The outcome is what the report says: production was restored where it says so
\* or where one command failed, and the triggers are as they were found
\* (the except blocks, resume_job_schedules).
OutcomeIsTrue == RolledBackIsPrior /\ OneFailureIsRecovered /\ TriggersComeBack

\* A run that is not killed reports an outcome and ends, or waits for its
\* approval, whatever fails on the way up or on the way back (main).
RunEnds ==
  at # "staged" ~> (at \in {"killed", "staged"} \/ (at = "done" /\ report # "running"))
=============================================================================
