----------------------- MODULE ReleaseExecutorProofs -----------------------
(***************************************************************************)
(* One run of the release executor image, for every set of triggers and    *)
(* every number of failed commands, kills and foreign changes.             *)
(***************************************************************************)
EXTENDS ReleaseExecutor, TLAPS

(* Where a run can be.                                                     *)

\* The end of a run, and the way back.
End == {"fail", "done", "killed"}
Back == {"recover", "reauthorize", "restore", "verify", "revoke", "restored", "abort"}

\* The way up to the promotion, by what has been seen to hold so far.
Ready == {"ready", "promote"}
Rechecked == {"authorize"} \cup Ready
Deployed == {"probe", "window", "stage_check", "staged", "restart", "requality", "load",
             "reprobe"} \cup Rechecked
Known == {"save_old", "pause", "prepare", "candidate", "stage_job"} \cup Deployed
Opening == {"quality", "image", "build", "snapshot"}
Up == {"start"} \cup Opening \cup Known
\* From the promotion to the end.
Over == {"validate", "save_new", "retire", "report", "summary"}

\* While these last the evidence and the traffic may change behind the run.
Pending == {"staged", "restart", "requality"}

OpsAt(step) ==
  CASE step \in {"prepare", "window"} -> {"service"}
    [] step \in {"save_old", "save_new"} -> {"job"}
    [] step \in {"pause", "stage_job", "resume", "unpause"} -> {"job", "rollback_job"}
    [] step \in {"stage_check", "staged", "restart", "requality", "load", "reprobe"} ->
         {"staged", "staged_web"}
    [] step \in {"image", "build"} -> {"service", "runtime", "staged", "staged_web", "job"}
    [] step \in {"candidate", "probe"} -> {"service", "runtime", "staged", "staged_web"}
    [] step = "authorize" -> Ops \ {"service", "rollback_service"}
    [] step = "ready" -> Ops \ {"service", "rollback_service", "rollback_runtime"}
    [] step = "validate" -> Ops \ {"job"}
    [] step \in {"retire", "reauthorize", "revoke"} -> {"runtime", "staged", "staged_web", "job"}
    [] step \in {"recover", "restore", "verify", "abort"} -> Ops \ {"rollback_service"}
    [] step = "restored" -> {"service", "runtime", "staged", "staged_web", "job"}
    [] OTHER -> Ops

\* A run is at a step of its operation.
Placed == /\ at \in Up \cup Over \cup Back \cup End \cup {"resume", "unpause"}
          /\ op \in OpsAt(at)

\* What the initial situations of a run have in common.
Given ==
  /\ IsRollback => scoped /\ ~same
  /\ same => scoped
  /\ Hooked => op \in {"service", "rollback_service"}

-----------------------------------------------------------------------------
(* What holds on the way.                                                  *)

\* What serves follows from where the run is.  A foreign change is seen by the
\* step that loads the continuation, and the run goes no further.
Serves ==
  /\ previous = "old"
  /\ serving = "new" => promoted
  /\ serving = "check" => IsJob
  /\ "other" \in {serving, origin} =>
        at \in Pending \cup {"load"} \cup End /\ report # "rolled_back"
  /\ at \in {"restart", "requality", "load"} => serving = origin
  /\ at \in Up => serving # "new"
  /\ at \in Up \cup {"validate"} => report # "rolled_back"
  /\ at \in Up \ Ready => serving # "check" \/ (op = "job" /\ at = "authorize")
  /\ at \in Over => serving = "new"
  /\ at = "resume" => serving = IF report = "rolled_back" THEN "old" ELSE "new"
  /\ at \in {"verify", "revoke", "restored", "unpause"} => serving = "old"

\* The old release is authorized whenever it may come to serve again, the new
\* one from the step that authorizes it.
Authorized ==
  HasGrants =>
    /\ at \in Ready \/ (at = "stage_job" /\ op = "rollback_job") => Sha("new") \in grants
    /\ IsRollback \/ (at = "restore" /\ scoped) => "old" \in grants

\* Triggers that are not as they were found are paused, and noted.
Triggered ==
  /\ sched0 \in [Schedules -> {"ENABLED", "PAUSED"}]
  /\ ~IsJob => sched = sched0
  /\ \A s \in Schedules : sched0[s] = "PAUSED" => sched[s] = "PAUSED"
  /\ \A s \in active : sched0[s] = "ENABLED"
  /\ \A s \in Schedules : sched[s] # sched0[s] => s \in active
  /\ at \in {"start", "save_old"} \cup Opening => scanned = {}
  /\ at = "pause" => \A s \in scanned : sched[s] = "PAUSED"
  /\ serving = "check" \/ (IsJob /\ at \in {"stage_job", "authorize"}) =>
        \A s \in Schedules : sched[s] = "PAUSED"
  /\ \/ at = "summary"
     \/ at = "report" /\ op = "rollback_job"
     \/ at = "done" /\ report # "failed"
     => sched = sched0

\* What a step on the way up has checked is still so.
Checked ==
  /\ at \in Opening \cup Known => SourceFacts \subseteq facts
  /\ at \in (Opening \cup Known) \ ({"quality"} \cup Pending) /\ NeedsQuality => "quality" \in facts
  /\ at \in {"snapshot"} \cup Known /\ ~IsRollback => image = "released"
  /\ at \in Known /\ op \in {"rollback_runtime", "rollback_job"} => "target" \in facts
  /\ at \in Known /\ op = "runtime" => "web" \in facts
  /\ at \in Deployed /\ ~IsRollback => "variables" \in facts
  /\ at \in Rechecked /\ IsStaged => {"web", "private", "candidate"} \subseteq facts

\* The definitions of a Job are in the bucket when they may be needed.
Kept ==
  op = "job" => /\ at \in {"pause", "stage_job"} \cup Rechecked => "old" \in saved
                /\ at \in {"retire", "report"} => "new" \in saved

\* What hooks prepared is undone before the restored release is reported.
Undone ==
  /\ paired # "old" => Hooked
  /\ op = "service" /\ at \in {"verify", "restored"} => paired = "old"
  /\ report = "rolled_back" /\ ~IsRollback =>
        at \in {"resume"} \cup End /\ serving = "old" /\ paired = "old"

\* What one failure can have done.
Failing ==
  /\ at = "summary" \/ (at = "resume" /\ op = "job") => told
  /\ at \in {"recover", "reauthorize", "restore"} /\ faults = 0 => serving = "old"
  /\ at \in {"abort", "fail", "done"} /\ faults <= 1 /\ op # "rollback_service" =>
        /\ serving \in {"new", origin}
        /\ ~told /\ op # "rollback_job" => serving = origin

RInv ==
  /\ TypeOK /\ Placed /\ Given /\ Serves /\ Authorized /\ ServingIsAuthorized /\ Triggered
  /\ Checked /\ PromotedAsChecked /\ Kept /\ PriorIsRestorable /\ Undone /\ Failing

-----------------------------------------------------------------------------
(* The order of the steps.                                                 *)

\* In a path without repetitions a step has one successor.
LEMMA Successor ==
  ASSUME NEW i \in 1..Len(Path), \A j \in 1..Len(Path) : Path[j] = Path[i] => j = i
  PROVE  After(Path[i]) = Path[i + 1]
  BY DEF After

LEMMA ServicePath ==
  ASSUME op = "service"
  PROVE  /\ After("start") = "quality" /\ After("quality") = "image"
         /\ After("image") = "snapshot" /\ After("snapshot") = "prepare"
         /\ After("prepare") = "candidate" /\ After("candidate") = "probe"
         /\ After("probe") = "window" /\ After("window") = "promote"
         /\ After("promote") = "validate" /\ After("validate") = "report"
         /\ After("report") = "summary" /\ After("summary") = "done"
  <1> DEFINE p == <<"start", "quality", "image", "snapshot", "prepare", "candidate", "probe",
                    "window", "promote", "validate", "report", "summary", "done">>
  <1>1. Path = p
    BY DEF Path, IsStaged
  <1>2. Len(p) = 13 /\ \A i, j \in 1..13 : p[i] = p[j] => i = j
    OBVIOUS
  <1>3. \A i \in 1..13 : After(p[i]) = p[i + 1]
    BY <1>1, <1>2, Successor
  <1> QED
    BY <1>3

LEMMA RuntimePath ==
  ASSUME op = "runtime"
  PROVE  /\ After("start") = "quality" /\ After("quality") = "image"
         /\ After("image") = "snapshot" /\ After("snapshot") = "candidate"
         /\ After("candidate") = "probe" /\ After("probe") = "authorize"
         /\ After("authorize") = "ready" /\ After("ready") = "promote"
         /\ After("promote") = "validate" /\ After("validate") = "retire"
         /\ After("retire") = "report" /\ After("report") = "summary"
         /\ After("summary") = "done"
  <1> DEFINE p == <<"start", "quality", "image", "snapshot", "candidate", "probe", "authorize",
                    "ready", "promote", "validate", "retire", "report", "summary", "done">>
  <1>1. Path = p
    BY DEF Path, IsStaged
  <1>2. Len(p) = 14 /\ \A i, j \in 1..14 : p[i] = p[j] => i = j
    OBVIOUS
  <1>3. \A i \in 1..14 : After(p[i]) = p[i + 1]
    BY <1>1, <1>2, Successor
  <1> QED
    BY <1>3

LEMMA StagedPath ==
  ASSUME IsStaged
  PROVE  /\ After("start") = "quality" /\ After("quality") = "image"
         /\ After("image") = "snapshot" /\ After("snapshot") = "candidate"
         /\ After("candidate") = "probe" /\ After("probe") = "stage_check"
         /\ After("stage_check") = "staged" /\ After("staged") = "restart"
         /\ After("restart") = "requality" /\ After("requality") = "load"
         /\ After("load") = "reprobe" /\ After("reprobe") = "authorize"
         /\ After("authorize") = "ready" /\ After("ready") = "promote"
         /\ After("promote") = "validate" /\ After("validate") = "retire"
         /\ After("retire") = "report" /\ After("report") = "summary"
         /\ After("summary") = "done"
  <1> DEFINE p == <<"start", "quality", "image", "snapshot", "candidate", "probe",
                    "stage_check", "staged", "restart", "requality", "load", "reprobe",
                    "authorize", "ready", "promote", "validate", "retire", "report", "summary",
                    "done">>
  <1>1. Path = p
    BY DEF Path, IsStaged
  <1>2. Len(p) = 20 /\ \A i, j \in 1..20 : p[i] = p[j] => i = j
    OBVIOUS
  <1>3. \A i \in 1..20 : After(p[i]) = p[i + 1]
    BY <1>1, <1>2, Successor
  <1> QED
    BY <1>3

LEMMA JobPath ==
  ASSUME op = "job"
  PROVE  /\ After("start") = "quality" /\ After("quality") = "image"
         /\ After("image") = "snapshot" /\ After("snapshot") = "save_old"
         /\ After("save_old") = "pause" /\ After("pause") = "stage_job"
         /\ After("stage_job") = "authorize" /\ After("authorize") = "ready"
         /\ After("ready") = "promote" /\ After("promote") = "save_new"
         /\ After("save_new") = "retire" /\ After("retire") = "report"
         /\ After("report") = "resume" /\ After("resume") = "summary"
         /\ After("summary") = "done"
  <1> DEFINE p == <<"start", "quality", "image", "snapshot", "save_old", "pause", "stage_job",
                    "authorize", "ready", "promote", "save_new", "retire", "report", "resume",
                    "summary", "done">>
  <1>1. Path = p
    BY DEF Path, IsStaged
  <1>2. Len(p) = 16 /\ \A i, j \in 1..16 : p[i] = p[j] => i = j
    OBVIOUS
  <1>3. \A i \in 1..16 : After(p[i]) = p[i + 1]
    BY <1>1, <1>2, Successor
  <1> QED
    BY <1>3

LEMMA RollbackServicePath ==
  ASSUME op = "rollback_service"
  PROVE  /\ After("start") = "quality" /\ After("quality") = "snapshot"
         /\ After("snapshot") = "promote" /\ After("promote") = "validate"
         /\ After("validate") = "report" /\ After("report") = "summary"
         /\ After("summary") = "done"
  <1> DEFINE p == <<"start", "quality", "snapshot", "promote", "validate", "report", "summary",
                    "done">>
  <1>1. Path = p
    BY DEF Path, IsStaged
  <1>2. Len(p) = 8 /\ \A i, j \in 1..8 : p[i] = p[j] => i = j
    OBVIOUS
  <1>3. \A i \in 1..8 : After(p[i]) = p[i + 1]
    BY <1>1, <1>2, Successor
  <1> QED
    BY <1>3

LEMMA RollbackRuntimePath ==
  ASSUME op = "rollback_runtime"
  PROVE  /\ After("start") = "quality" /\ After("quality") = "snapshot"
         /\ After("snapshot") = "authorize" /\ After("authorize") = "promote"
         /\ After("promote") = "validate" /\ After("validate") = "report"
         /\ After("report") = "summary" /\ After("summary") = "done"
  <1> DEFINE p == <<"start", "quality", "snapshot", "authorize", "promote", "validate",
                    "report", "summary", "done">>
  <1>1. Path = p
    BY DEF Path, IsStaged
  <1>2. Len(p) = 9 /\ \A i, j \in 1..9 : p[i] = p[j] => i = j
    OBVIOUS
  <1>3. \A i \in 1..9 : After(p[i]) = p[i + 1]
    BY <1>1, <1>2, Successor
  <1> QED
    BY <1>3

LEMMA RollbackJobPath ==
  ASSUME op = "rollback_job"
  PROVE  /\ After("start") = "quality" /\ After("quality") = "snapshot"
         /\ After("snapshot") = "pause" /\ After("pause") = "authorize"
         /\ After("authorize") = "stage_job" /\ After("stage_job") = "ready"
         /\ After("ready") = "promote" /\ After("promote") = "validate"
         /\ After("validate") = "resume" /\ After("resume") = "report"
         /\ After("report") = "summary" /\ After("summary") = "done"
  <1> DEFINE p == <<"start", "quality", "snapshot", "pause", "authorize", "stage_job", "ready",
                    "promote", "validate", "resume", "report", "summary", "done">>
  <1>1. Path = p
    BY DEF Path, IsStaged
  <1>2. Len(p) = 13 /\ \A i, j \in 1..13 : p[i] = p[j] => i = j
    OBVIOUS
  <1>3. \A i \in 1..13 : After(p[i]) = p[i + 1]
    BY <1>1, <1>2, Successor
  <1> QED
    BY <1>3

\* The successor of each step, whatever the operation that has it.
LEMMA Follows ==
  ASSUME op \in Ops
  PROVE  /\ After("start") = "quality" /\ After("summary") = "done"
         /\ After("quality") = IF IsRollback THEN "snapshot" ELSE "image"
         /\ ~IsRollback => After("image") = "snapshot"
         /\ After("snapshot") = CASE op = "service" -> "prepare"
                                  [] op = "job" -> "save_old"
                                  [] op = "rollback_service" -> "promote"
                                  [] op = "rollback_runtime" -> "authorize"
                                  [] op = "rollback_job" -> "pause"
                                  [] OTHER -> "candidate"
         /\ op = "service" =>
               After("prepare") = "candidate" /\ After("window") = "promote"
         /\ op \in OpsAt("candidate") =>
               /\ After("candidate") = "probe"
               /\ After("probe") = CASE op = "service" -> "window"
                                     [] op = "runtime" -> "authorize"
                                     [] OTHER -> "stage_check"
         /\ IsStaged => /\ After("stage_check") = "staged" /\ After("staged") = "restart"
                        /\ After("restart") = "requality" /\ After("requality") = "load"
                        /\ After("load") = "reprobe" /\ After("reprobe") = "authorize"
         /\ op \in OpsAt("authorize") =>
               After("authorize") = CASE op = "rollback_runtime" -> "promote"
                                      [] op = "rollback_job" -> "stage_job"
                                      [] OTHER -> "ready"
         /\ op \in OpsAt("ready") => After("ready") = "promote"
         /\ After("promote") = IF op = "job" THEN "save_new" ELSE "validate"
         /\ op # "job" => After("validate") = CASE IsRollback /\ op # "rollback_job" -> "report"
                                                [] op = "service" -> "report"
                                                [] op = "rollback_job" -> "resume"
                                                [] OTHER -> "retire"
         /\ op \in OpsAt("retire") => After("retire") = "report"
         /\ After("report") = IF op = "job" THEN "resume" ELSE "summary"
         /\ op = "job" => /\ After("save_old") = "pause" /\ After("pause") = "stage_job"
                          /\ After("stage_job") = "authorize" /\ After("save_new") = "retire"
                          /\ After("resume") = "summary"
         /\ op = "rollback_job" => /\ After("pause") = "authorize" /\ After("resume") = "report"
                                   /\ After("stage_job") = "ready"
  <1>1. CASE op = "service"
    BY <1>1, ServicePath DEF OpsAt, IsRollback, IsStaged, Ops
  <1>2. CASE op = "runtime"
    BY <1>2, RuntimePath DEF OpsAt, IsRollback, IsStaged, Ops
  <1>3. CASE IsStaged
    BY <1>3, StagedPath DEF OpsAt, IsRollback, IsStaged, Ops
  <1>4. CASE op = "job"
    BY <1>4, JobPath DEF OpsAt, IsRollback, IsStaged, Ops
  <1>5. CASE op = "rollback_service"
    BY <1>5, RollbackServicePath DEF OpsAt, IsRollback, IsStaged, Ops
  <1>6. CASE op = "rollback_runtime"
    BY <1>6, RollbackRuntimePath DEF OpsAt, IsRollback, IsStaged, Ops
  <1>7. CASE op = "rollback_job"
    BY <1>7, RollbackJobPath DEF OpsAt, IsRollback, IsStaged, Ops
  <1> QED
    BY <1>1, <1>2, <1>3, <1>4, <1>5, <1>6, <1>7 DEF IsStaged, Ops

-----------------------------------------------------------------------------
(* Every step keeps the invariant.                                         *)

USE DEF Does, Ends, Fails, Skips, Checks, OnFail, Tried, Fault
USE DEF env, outside, mem, history
USE DEF IsJob, IsStaged, IsRollback, HasGrants, Hooked, NeedsQuality, Sha, Ops, Profiles
USE DEF SourceFacts, QualityFacts, VariableFacts, IdentityFacts, WebFacts, PrivateFacts,
        CandidateFacts, JobFacts, TargetFacts
USE DEF End, Back, Ready, Rechecked, Deployed, Known, Opening, Up, Over, Pending, OpsAt
USE DEF RInv, TypeOK, Placed, Given, Serves, Authorized, ServingIsAuthorized, Triggered,
        Checked, PromotedAsChecked, Kept, PriorIsRestorable, Undone, Failing

\* The checks before anything changes, and the definitions saved for later.
LEMMA ChecksKeep ==
  ASSUME RInv,
         \/ AssertSource
         \/ VerifyQuality
         \/ PullImage
         \/ BuildImage
         \/ Snapshot
         \/ SaveDefinition
  PROVE  RInv'
  <1>1. CASE AssertSource
    BY <1>1, Follows, FaultsAssumption DEF AssertSource
  <1>2. CASE VerifyQuality
    BY <1>2, Follows, FaultsAssumption DEF VerifyQuality
  <1>3. CASE PullImage
    BY <1>3, Follows, FaultsAssumption DEF PullImage, Proven
  <1>4. CASE BuildImage
    BY <1>4, Follows, FaultsAssumption DEF BuildImage
  <1>5. CASE Snapshot
    BY <1>5, Follows, FaultsAssumption DEF Snapshot, SnapshotFacts
  <1>6. CASE SaveDefinition
    BY <1>6, Follows, FaultsAssumption DEF SaveDefinition
  <1> QED
    BY <1>1, <1>2, <1>3, <1>4, <1>5, <1>6

\* The candidate, from its deployment to the approval and back to its checks.
LEMMA CandidateKeeps ==
  ASSUME RInv,
         \/ \E step \in {"prepare", "window"} : RunHooks(step)
         \/ DeployCandidate
         \/ ProbeCandidate
         \/ StageCandidate
         \/ ForeignChange
         \/ Approve
         \/ LoadContinuation
         \/ ReprobeCandidate
  PROVE  RInv'
  <1>1. CASE \E step \in {"prepare", "window"} : RunHooks(step)
    <2>1. started' \in BOOLEAN
      BY <1>1 DEF RunHooks, HasHooks
    <2> QED
      BY <1>1, <2>1, Follows, FaultsAssumption DEF RunHooks, HasHooks
  <1>2. CASE DeployCandidate
    BY <1>2, Follows, FaultsAssumption DEF DeployCandidate
  <1>3. CASE ProbeCandidate
    BY <1>3, Follows, FaultsAssumption DEF ProbeCandidate
  <1>4. CASE StageCandidate
    BY <1>4, FaultsAssumption DEF StageCandidate
  <1>5. CASE ForeignChange
    BY <1>5, FaultsAssumption DEF ForeignChange
  <1>6. CASE Approve
    BY <1>6, Follows, FaultsAssumption DEF Approve
  <1>7. CASE LoadContinuation
    BY <1>7, Follows, FaultsAssumption DEF LoadContinuation, CanPromote
  <1>8. CASE ReprobeCandidate
    BY <1>8, Follows, FaultsAssumption DEF ReprobeCandidate, RecheckedFacts
  <1> QED
    BY <1>1, <1>2, <1>3, <1>4, <1>5, <1>6, <1>7, <1>8

\* The triggers of a Job.
LEMMA TriggersKeep ==
  ASSUME RInv,
         \/ \E s \in Schedules : PauseSchedule(s)
         \/ Paused
         \/ \E s \in Schedules : ResumeSchedule(s)
         \/ Resumed
  PROVE  RInv'
  <1>1. CASE \E s \in Schedules : PauseSchedule(s)
    <2> PICK s \in Schedules : PauseSchedule(s)
      BY <1>1
    <2> QED
      BY FaultsAssumption DEF PauseSchedule, Noted
  <1>2. CASE Paused
    BY <1>2, Follows, FaultsAssumption DEF Paused
  <1>3. CASE \E s \in Schedules : ResumeSchedule(s)
    <2> PICK s \in Schedules : ResumeSchedule(s)
      BY <1>3
    <2> QED
      BY FaultsAssumption DEF ResumeSchedule, Resumable
  <1>4. CASE Resumed
    BY <1>4, Follows, FaultsAssumption DEF Resumed, AllResumed, Resumable
  <1> QED
    BY <1>1, <1>2, <1>3, <1>4

\* From the staged definition or the authorization to the report of success.
LEMMA PromotionKeeps ==
  ASSUME RInv,
         \/ StageJob
         \/ Authorize
         \/ CheckReady
         \/ Promote
         \/ Validate
         \/ Retire
         \/ Report
         \/ Summary
  PROVE  RInv'
  <1>1. CASE StageJob
    BY <1>1, Follows, FaultsAssumption DEF StageJob
  <1>2. CASE Authorize
    <2>1. granted' \in BOOLEAN
      BY <1>2, Zenon DEF Authorize
    <2> QED
      BY <1>2, <2>1, Follows, FaultsAssumption DEF Authorize
  <1>3. CASE CheckReady
    BY <1>3, Follows, FaultsAssumption DEF CheckReady, IsReady
  <1>4. CASE Promote
    BY <1>4, Follows, FaultsAssumption DEF Promote
  <1>5. CASE Validate
    BY <1>5, Follows, FaultsAssumption DEF Validate, IsReady
  <1>6. CASE Retire
    BY <1>6, Follows, FaultsAssumption DEF Retire, MustRetire
  <1>7. CASE Report
    BY <1>7, Follows, FaultsAssumption DEF Report, Emit
  <1>8. CASE Summary
    BY <1>8, Follows, FaultsAssumption DEF Summary
  <1> QED
    BY <1>1, <1>2, <1>3, <1>4, <1>5, <1>6, <1>7, <1>8

\* The way back, each command of which may fail too.
LEMMA RecoveryKeeps ==
  ASSUME RInv,
         \/ Recover
         \/ Reauthorize
         \/ Restore
         \/ Verify
         \/ Revoke
         \/ Restored
  PROVE  RInv'
  <1>1. CASE Recover
    BY <1>1, FaultsAssumption DEF Recover
  <1>2. CASE Reauthorize
    BY <1>2, FaultsAssumption DEF Reauthorize
  <1>3. CASE Restore
    BY <1>3, FaultsAssumption DEF Restore
  <1>4. CASE Verify
    BY <1>4, FaultsAssumption DEF Verify
  <1>5. CASE Revoke
    BY <1>5, FaultsAssumption DEF Revoke, MustRevoke
  <1>6. CASE Restored
    <2>1. CASE promoted \/ op = "job" \/ started
      <3>1. /\ at = "restored" /\ at' = IF op = "job" THEN "resume" ELSE "done"
            /\ report' = "rolled_back" /\ told' = TRUE
            /\ UNCHANGED <<env, outside, serving, paired, grants, sched, saved, mem, faults,
                           origin, sched0>>
        BY <1>6, <2>1 DEF Restored, Emit
      <3>2. told' \in BOOLEAN
        BY <3>1, Zenon
      <3>3. TypeOK'
        BY <3>1, <3>2
      <3>4. Placed' /\ Given' /\ Authorized' /\ ServingIsAuthorized'
        BY <3>1
      <3>5. Serves'
        BY <3>1
      <3>6. Triggered' /\ Undone' /\ Failing'
        BY <3>1
      <3>7. Checked' /\ PromotedAsChecked'
        BY <3>1
      <3>8. Kept' /\ PriorIsRestorable'
        BY <3>1
      <3> QED
        BY <3>3, <3>4, <3>5, <3>6, <3>7, <3>8
    <2>2. CASE ~(promoted \/ op = "job" \/ started)
      BY <1>6, <2>2, FaultsAssumption DEF Restored
    <2> QED
      BY <2>1, <2>2
  <1> QED
    BY <1>1, <1>2, <1>3, <1>4, <1>5, <1>6

\* The end of a run.
LEMMA EndKeeps ==
  ASSUME RInv,
         \/ Abort
         \/ Fail
         \/ Kill
  PROVE  RInv'
  <1>1. CASE Abort
    BY <1>1, FaultsAssumption DEF Abort, AfterAbort
  <1>2. CASE Fail
    BY <1>2, FaultsAssumption DEF Fail
  <1>3. CASE Kill
    BY <1>3, FaultsAssumption DEF Kill
  <1> QED
    BY <1>1, <1>2, <1>3

LEMMA StutterKeeps ==
  ASSUME RInv, UNCHANGED vars
  PROVE  RInv'
  BY DEF vars

\* Every situation a run can start in satisfies the invariant.
LEMMA StartsSound ==
  ASSUME Init
  PROVE  RInv
  <1> USE DEF Init
  <1>1. started \in BOOLEAN /\ granted \in BOOLEAN /\ promoted \in BOOLEAN /\ told \in BOOLEAN
    BY Zenon
  <1>2. facts \subseteq Facts /\ grants \subseteq {"old", "new", "other"}
    OBVIOUS
  <1>3. TypeOK
    BY <1>1, <1>2, FaultsAssumption
  <1>4. Placed /\ Given
    OBVIOUS
  <1>5. Serves /\ Authorized /\ ServingIsAuthorized
    OBVIOUS
  <1>6. Triggered
    BY <1>3
  <1>7. Checked /\ PromotedAsChecked /\ Kept /\ PriorIsRestorable /\ Undone /\ Failing
    OBVIOUS
  <1> QED
    BY <1>3, <1>4, <1>5, <1>6, <1>7

LEMMA StepKeeps ==
  ASSUME RInv, [Next]_vars
  PROVE  RInv'
  BY ChecksKeep, CandidateKeeps, TriggersKeep, PromotionKeeps, RecoveryKeeps, EndKeeps, StutterKeeps
     DEF Next, Work

-----------------------------------------------------------------------------
(* The theorems.                                                           *)

HIDE DEF RInv, PromotedAsChecked

\* The inductive invariant holds in every state of every operation: where the
\* run is decides what serves, what is authorized, what is paused and what has
\* been checked (main and the operations it dispatches to).
THEOREM RunIsSound == Spec => []RInv
  <1>1. Init => RInv
    BY StartsSound
  <1>2. RInv /\ [Next]_vars => RInv'
    BY StepKeeps
  <1> QED
    BY <1>1, <1>2, PTL DEF Spec

\* Wherever a run stops, fails or is killed, what serves is authorized, what
\* triggers start is whole, and what was replaced can be restored
\* (deploy_runtime, deploy_job, promote_candidate, the rollbacks).
THEOREM ProductionStaysSafe == Spec => []ProductionIsSafe
  <1>1. RInv => ProductionIsSafe
    BY DEF RInv, ProductionIsSafe, TriggersMeetWholeJobs
  <1> QED
    BY <1>1, RunIsSound, PTL

\* Production never moves on checks that no longer hold, whatever changes while
\* an approval is pending (verify_quality, image_for_tag, promote_candidate).
THEOREM PromotionIsChecked == Spec => []PromotedAsChecked
  <1>1. RInv => PromotedAsChecked
    BY DEF RInv
  <1> QED
    BY <1>1, RunIsSound, PTL

\* The outcome is what the report says: "rolled back" means that production and
\* its paired resources are as they were, one failed command is recovered, and
\* the triggers are as they were found (the except blocks, resume_job_schedules).
THEOREM ReportIsTrue == Spec => []OutcomeIsTrue
  <1>1. ASSUME RInv PROVE RolledBackIsPrior
    BY <1>1 DEF RInv, RolledBackIsPrior
  <1>2. ASSUME RInv PROVE OneFailureIsRecovered
    BY <1>2 DEF RInv, OneFailureIsRecovered
  <1>3. ASSUME RInv PROVE TriggersComeBack
    BY <1>3 DEF RInv, TriggersComeBack
  <1>4. RInv => OutcomeIsTrue
    BY <1>1, <1>2, <1>3 DEF OutcomeIsTrue
  <1> QED
    BY <1>4, RunIsSound, PTL
=============================================================================
