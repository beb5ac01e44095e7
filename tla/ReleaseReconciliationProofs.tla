-------------------- MODULE ReleaseReconciliationProofs --------------------
(***************************************************************************)
(* The handlers of a release execution, for every number of requests,      *)
(* builds, images and faults: they implement the record's specification,   *)
(* and what the record says is so on GitHub, in the evidence store and on   *)
(* Cloud Build.                                                            *)
(***************************************************************************)
EXTENDS ReleaseReconciliation, ReleaseExecutionsProofs

(* Where a request can be.                                                 *)

Done == {"idle", "ok", "error"}

\* The steps of a callback before its event is known to be in the record.
Early == {"verify", "bindCaller", "issue", "admit", "accept"}

TagPcs == {"release", "createRelease", "released"}
PlanPcs == {"tag", "createTag"} \cup TagPcs
ClaimPcs == {"reread", "branch", "conflict", "doubt"} \cup PlanPcs

\* The steps that something has to be so for, and the others.
Special == {"bind", "stopBind", "stopBuild", "stage", "spend", "evidence", "commit",
            "plan", "noRelease", "claimPublish"} \cup ClaimPcs
Easy == {"checks", "get", "list", "claim", "post", "uncertain", "refused", "unsure",
         "seek", "seekOld", "absent", "reopen", "inspect", "recover", "recovered",
         "reconcile", "readBuild", "clear", "blame", "buildFailed", "reget",
         "planFailed", "noPlan", "unknown", "drift", "giveUp", "approve", "supersede",
         "cancel", "stop", "stopList", "stopSave"}
Pcs == Done \cup Early \cup Special \cup Easy
Kinds == {"none", "hook", "start", "token", "event", "sweep", "approve", "supersede",
          "cancel", "newHead"}

Results == Started \cup QualityResults \cup PlanResults

HandType == [pc : Pcs, kind : Kinds, via : {"none", "branch", "uncertain", "retry"},
             image : Images \cup {NoImage}, snap : ExecutionType,
             found : Builds \cup {NoBuild}, b : Builds \cup {NoBuild},
             ev : Results \cup {NoEvent}]

Typed == STypeOK /\ hand \in [Workers -> HandType]

-----------------------------------------------------------------------------
(* What a request knows and holds at each of its steps.                    *)

Caller(h) == h.kind \in {"token", "event"}
\* What a request has read of the record is superseded only in these ways.
Knows(h) ==
    /\ h.snap.plan # "missing" => rec.plan = h.snap.plan
    /\ h.snap.report # "none" => rec.report # "none"
    /\ h.snap.retries <= rec.retries /\ h.snap.sequence <= rec.sequence
    /\ h.snap.eventToken \in {NoBuild, rec.eventToken} \cup rec.retired

\* The build a callback comes from waits for its answer; what an event carried
\* is in the record before the build is told so.
Called(h) ==
    /\ h.pc \notin Done => h.image \in Images
    /\ h.pc \in Early \cup {"ok", "error"} => Caller(h)
    /\ h.pc = "idle" => ~Caller(h)
    /\ h.pc \in {"admit", "accept"} => h.kind = "event"
    /\ h.pc = "issue" => h.kind = "token"
    /\ Caller(h) => h.b \in Live /\ builds[h.b].state # "success"
    /\ h.kind = "event" =>
          /\ h.ev \in Results /\ h.ev.q <= LastEvent
          /\ h.ev.q = 3 => rec.report # "none"
    /\ h.kind = "event" /\ h.pc \notin Early \cup {"error"} =>
          /\ h.ev.q <= rec.sequence
          /\ builds[h.b].state = "working" /\ h.ev.e # "failed" =>
                /\ h.ev.q >= 2 => rec.report # "none"
                /\ h.ev.q = 3 => rec.plan # "missing"

\* What has to be so for a request to be where it is.
Placed(h) ==
    /\ h.pc = "bind" =>
          /\ h.found \in Live
          /\ h.snap.retries > 0 => builds[h.found].attempt = h.snap.retries
    /\ h.pc = "stopBind" => h.snap.build \in Live
    /\ h.pc = "stopBuild" => h.snap.build \in Builds
    /\ h.pc = "stage" =>
          h.snap.build \in Builds /\ builds[h.snap.build].state = "plan_failed"
    /\ h.pc = "spend" => h.snap.retries <= 2
    /\ h.pc \in {"evidence", "commit"} => h.snap.report # "none"
    /\ h.pc = "commit" => stored = h.snap.report
    /\ h.pc \in {"plan", "noRelease"} => rec.evidence
    /\ h.pc \in ClaimPcs => rec.claimed
    /\ h.pc \in {"claimPublish", "reread", "branch"} \cup PlanPcs => AutoPublish \/ rec.canary
    /\ h.pc \in PlanPcs => rec.plan = "semantic"
    /\ h.pc \in TagPcs => github.tag = "ours"
    /\ h.pc = "released" => github.release = "ours"

Sound(h) == Knows(h) /\ Called(h) /\ Placed(h)

Hands == \A w \in Workers : Sound(hand[w])

\* A build has one call out at a time.
CallsAlone == \A v, w \in Workers :
                Caller(hand[v]) /\ Caller(hand[w]) /\ hand[v].b = hand[w].b => v = w

-----------------------------------------------------------------------------
(* What holds between the record, Cloud Build and the evidence store.      *)

\* What was committed is what is stored, and came from a callback.
Evidence ==
    /\ rec.committed # "none" => rec.committed = stored /\ rec.report # "none"
    /\ rec.evidence => rec.committed = "good"

\* The builds of the execution, the one that is bound and those retired.
Runs ==
    /\ rec.build # NoBuild => rec.build \in Live
    /\ rec.retired \subseteq Live
    /\ \A b \in Live :
          /\ rec.operation = "main_release" => builds[b].image \in Images
          /\ builds[b].attempt <= rec.retries
          /\ builds[b].sent <= rec.sequence
          /\ builds[b].state = "success" => builds[b].sent = LastEvent
          /\ builds[b].state \in {"working", "success"} =>
                /\ builds[b].sent >= 2 => rec.report # "none"
                /\ builds[b].sent = 3 => rec.plan # "missing"
    /\ \A b \in rec.retired : /\ builds[b].attempt < rec.retries
                              /\ builds[b].state = "plan_failed"

\* A failure that was reported ends the build that reported it.
Failing == \/ builds[rec.build].state \notin {"working", "success"}
           \/ \E w \in Workers : /\ hand[w].kind = "event" /\ hand[w].b = rec.build
                                 /\ hand[w].ev.e = "failed"

\* The events of the engine, in the record.
Told ==
    /\ rec.sequence <= LastEvent
    /\ rec.plan # "missing" => rec.sequence = 3
    /\ rec.sequence >= 2 /\ rec.report = "none" => rec.engine = "failed"
    /\ rec.sequence = 3 /\ rec.plan = "missing" => rec.engine = "failed"
    /\ rec.engine = "failed" => rec.build # NoBuild /\ Failing

Publication == ReleasedIsPublished /\ PublicationIsAuthorized

Inv == /\ Typed /\ IInv /\ Hands /\ CallsAlone
       /\ Evidence /\ Runs /\ Told /\ Publication

-----------------------------------------------------------------------------
(* How a request moves.                                                    *)

\* The request goes on, is answered to the build that called, or ends.
Onward(h, g) ==
    /\ h \in HandType
    /\ \/ /\ h.kind = g.kind /\ h.b = g.b /\ h.ev = g.ev /\ h.image = g.image
          /\ h.pc \notin Done
       \/ /\ Caller(g) /\ h.kind = g.kind /\ h.b = g.b /\ h.ev = g.ev
          /\ h.pc \in {"ok", "error"} /\ h.snap = Blank
       \/ ~Caller(g) /\ h = Idle

Others(w) == /\ hand' = [v \in Workers |-> hand'[v]]
             /\ \A v \in Workers \ {w} : hand'[v] = hand[v]

\* What it has read is what it had, perhaps with the build it found for it, or
\* the record before or after the step.
Inner(w) == /\ Others(w) /\ Onward(hand'[w], hand[w])
            /\ \/ hand'[w].snap \in {hand[w].snap, Blank, rec, rec'}
               \/ \E b \in Builds : hand'[w].snap = [hand[w].snap EXCEPT !.build = b]
            /\ hand'[w].pc \notin Early

Calm(w) == Inner(w) /\ hand'[w].pc \notin Special

LEMMA BlankType == Blank \in ExecutionType
  BY HandlerAssumption, CloudBuildAssumption, BoundAssumption
     DEF Blank, Reserved, ExecutionType, Status, Terminal, Providers, EngineStatus, Reports, Plans

\* The kinds of steps do not overlap.
LEMMA EasyPcs ==
  ASSUME NEW p \in Easy
  PROVE  p \in Pcs /\ p \notin Special /\ p \notin Early /\ p \notin Done
  BY DEF Easy, Pcs, Special, Early, Done, ClaimPcs, PlanPcs, TagPcs

LEMMA DonePcs ==
  ASSUME NEW p \in Done
  PROVE  p \in Pcs /\ p \notin Special /\ p \notin Early /\ p \notin Easy
  BY DEF Easy, Pcs, Special, Early, Done, ClaimPcs, PlanPcs, TagPcs

LEMMA IdleType == Idle \in HandType
  BY BlankType DEF Idle, HandType, Pcs, Done, Kinds

\* The request goes on at p, knowing s.
Steps(w, p, s) ==
    /\ Others(w) /\ hand'[w] \in HandType /\ hand'[w].pc = p /\ hand'[w].snap = s
    /\ hand'[w].kind = hand[w].kind /\ hand'[w].b = hand[w].b
    /\ hand'[w].ev = hand[w].ev /\ hand'[w].image = hand[w].image

LEMMA GotoSteps ==
  ASSUME Typed, NEW w \in Workers, NEW p \in Pcs, Goto(w, p)
  PROVE  Steps(w, p, hand[w].snap)
  BY DEF Typed, HandType, Goto, Others, Steps

LEMMA ReadSteps ==
  ASSUME Typed, NEW w \in Workers, NEW p \in Pcs, NEW s \in ExecutionType, Read(w, p, s)
  PROVE  Steps(w, p, s)
  BY DEF Typed, HandType, Read, Others, Steps

LEMMA StepsInner ==
  ASSUME NEW w \in Workers, NEW p, NEW s, s \in {hand[w].snap, Blank, rec, rec'}, Steps(w, p, s),
         p \notin Early, p \notin Done
  PROVE  Inner(w)
  BY DEF Steps, Inner, Onward

LEMMA CalmGoto ==
  ASSUME Typed, NEW w \in Workers, NEW p \in Easy, Goto(w, p)
  PROVE  Calm(w)
  BY GotoSteps, StepsInner, EasyPcs DEF Calm, Steps

LEMMA CalmRead ==
  ASSUME Typed, NEW w \in Workers, NEW p \in Easy, NEW s \in ExecutionType, s \in {rec, rec'},
         Read(w, p, s)
  PROVE  Calm(w)
  BY ReadSteps, StepsInner, EasyPcs DEF Calm, Steps

LEMMA CalmAnswer ==
  ASSUME Typed, NEW w \in Workers, NEW a \in {"ok", "error"}, Answer(w, a)
  PROVE  Calm(w) /\ hand'[w].pc \in {a, "idle"}
  <1>1. hand[w] \in HandType
    BY DEF Typed
  <1>2. CASE Caller(hand[w])
    <2> DEFINE h == [Idle EXCEPT !.pc = a, !.kind = hand[w].kind, !.b = hand[w].b,
                                 !.ev = hand[w].ev]
    <2>1. h \in HandType
      BY <1>1, IdleType DEF HandType, Pcs, Done
    <2>2. hand' = [hand EXCEPT ![w] = h]
      BY <1>2 DEF Answer, Caller
    <2>3. Others(w) /\ hand'[w] = h
      BY <2>2 DEF Others, Typed
    <2>4. h.pc = a /\ h.kind = hand[w].kind /\ h.b = hand[w].b /\ h.ev = hand[w].ev /\ h.snap = Blank
      BY DEF Idle
    <2> HIDE DEF h
    <2> QED
      BY <1>2, <2>1, <2>3, <2>4, DonePcs DEF Calm, Inner, Onward, Done
  <1>3. CASE ~Caller(hand[w])
    <2>1. hand' = [hand EXCEPT ![w] = Idle]
      BY <1>3 DEF Answer, Caller
    <2>2. Others(w) /\ hand'[w] = Idle
      BY <2>1 DEF Others, Typed
    <2>3. Idle.pc = "idle" /\ Idle.snap = Blank
      BY DEF Idle
    <2> QED
      BY <1>3, <2>2, <2>3, IdleType, DonePcs DEF Calm, Inner, Onward, Done
  <1> QED
    BY <1>2, <1>3

LEMMA CalmReturn ==
  ASSUME Typed, NEW w \in Workers, Return(w)
  PROVE  Calm(w)
  BY CalmAnswer DEF Return

LEMMA CalmRaise ==
  ASSUME Typed, NEW w \in Workers, NEW e, Raise(w, e)
  PROVE  Calm(w)
  BY CalmAnswer, CalmReturn, CalmGoto DEF Raise, Easy

LEMMA CalmSubmitted ==
  ASSUME Typed, NEW w \in Workers, NEW s \in ExecutionType, s \in {rec, rec'}, Submitted(w, s)
  PROVE  Calm(w)
  <1>1. hand[w] \in HandType
    BY DEF Typed
  <1>2. CASE hand' = [hand EXCEPT ![w].pc = "readBuild", ![w].via = "none", ![w].snap = s]
    <2>1. "readBuild" \in Easy
      BY DEF Easy
    <2>2. Steps(w, "readBuild", s)
      BY <1>1, <1>2, <2>1, EasyPcs DEF Steps, Others, Typed, HandType
    <2> QED
      BY <2>1, <2>2, StepsInner, EasyPcs DEF Calm, Steps
  <1> QED
    BY <1>2, CalmReturn, CalmRaise DEF Submitted
-----------------------------------------------------------------------------
(* What a step may do to the record: the transactions of the handlers, each *)
(* with what the handler that runs it has made sure of.                     *)

\* accept_event for the callback that w serves.
Accepts(w, f) ==
    /\ hand[w].pc = "accept"
    /\ f => hand[w].ev.e = "failed" /\ rec.operation = "main_release"
    /\ AcceptEvent(hand[w].b, hand[w].ev.q, hand[w].ev.e, hand[w].ev.r, hand[w].ev.p, f)

\* stage_planner_retry for the build that is bound.
Stages(i) == /\ builds[rec.build].state = "plan_failed"
             /\ StagePlannerRetry(rec.build, rec.retries, i, builds[rec.build].image)

Txn ==
    \/ rec' = rec \/ ClaimSubmission
    \/ \E b \in Live : BindBuild(b)
    \/ \E n \in 0..(MaxAttempts - 1) : ReopenSubmission(n)
    \/ \E b \in Builds : ClaimEventToken(b)
    \/ \E w \in Workers, f \in BOOLEAN : Accepts(w, f)
    \/ SaveEngineFailed \/ ClearRetryPending
    \/ CommitQuality(stored) /\ rec.report # "none"
    \/ \E s \in {"failed", "unknown"} : SaveStatus(s)
    \/ SavePlanned \/ SaveNoRelease
    \/ \E i \in Images : Stages(i)
    \/ \E n \in 0..2 : SpendRetry(n)
    \/ ClaimPublish \/ SavePublicationUncertain
    \/ SaveReleased /\ github.tag = "ours" /\ github.release = "ours"
    \/ SaveCanary \/ SaveSuperseded \/ CancelRelease

LEMMA TxnSubmission ==
  ASSUME Inv, NEW w \in Workers, Submission(w) PROVE Txn
  <1>0. Typed /\ Hands
    BY DEF Inv
  <1>1. ASSUME StartChecks(w) PROVE Txn
    BY <1>1 DEF StartChecks, Txn
  <1>2. ASSUME Get(w) PROVE Txn
    BY <1>2 DEF Get, ReadOnly, Txn
  <1>3. ASSUME List(w) PROVE Txn
    BY <1>3 DEF List, ReadOnly, Txn
  <1>4. ASSUME Claim(w) PROVE Txn
    BY <1>4 DEF Claim, Txn
  <1>5. ASSUME Post(w) PROVE Txn
    BY <1>5 DEF Post, Txn
  <1>6. ASSUME MarkUncertain(w) PROVE Txn
    BY <1>6 DEF MarkUncertain, Txn
  <1>7. ASSUME MarkRefused(w) PROVE Txn
    BY <1>7 DEF MarkRefused, Txn
  <1>8. ASSUME Bind(w) PROVE Txn
    <2>1. hand[w].found \in Live
      BY <1>0, <1>8 DEF Bind, At, Hands, Sound, Placed
    <2> QED
      BY <1>0, <1>8, <2>1 DEF Bind, Txn
  <1>9. ASSUME Unsure(w) PROVE Txn
    BY <1>9 DEF Unsure, ReadOnly, Txn
  <1>10. ASSUME Seek(w) PROVE Txn
    BY <1>10 DEF Seek, ReadOnly, Txn
  <1>11. ASSUME Absent(w) PROVE Txn
    BY <1>11 DEF Absent, ReadOnly, Txn
  <1>12. ASSUME Reopen(w) PROVE Txn
    <2>1. hand[w].snap.attempts \in 0..MaxAttempts
      BY <1>0, BoundAssumption DEF Typed, HandType, ExecutionType
    <2>2. CASE ReopenSubmission(hand[w].snap.attempts)
      <3>1. hand[w].snap.attempts \in 0..(MaxAttempts - 1)
        BY <2>1, <2>2, BoundAssumption DEF ReopenSubmission
      <3> QED
        BY <2>2, <3>1 DEF Txn
    <2> QED
      BY <1>0, <1>12, <2>2 DEF Reopen, Txn
  <1> QED
    BY <1>1, <1>2, <1>3, <1>4, <1>5, <1>6, <1>7, <1>8, <1>9, <1>10, <1>11, <1>12 DEF Submission

LEMMA TxnPublishing ==
  ASSUME Inv, NEW w \in Workers, Publishing(w) PROVE Txn
  <1>0. Typed /\ Hands
    BY DEF Inv
  <1>1. ASSUME ClaimRelease(w) PROVE Txn
    BY <1>1 DEF ClaimRelease, Txn
  <1>2. ASSUME Reread(w) PROVE Txn
    BY <1>2 DEF Reread, ReadOnly, Txn
  <1>3. ASSUME CheckBranch(w) PROVE Txn
    BY <1>3 DEF CheckBranch, ReadOnly, Txn
  <1>4. ASSUME LookupTag(w) PROVE Txn
    BY <1>4 DEF LookupTag, Lookup, ReadOnly, Txn
  <1>5. ASSUME CreateTag(w) PROVE Txn
    BY <1>5 DEF CreateTag, Create, Txn
  <1>6. ASSUME LookupRelease(w) PROVE Txn
    BY <1>6 DEF LookupRelease, Lookup, ReadOnly, Txn
  <1>7. ASSUME CreateRelease(w) PROVE Txn
    BY <1>7 DEF CreateRelease, Create, Txn
  <1>8. ASSUME Conflict(w) PROVE Txn
    BY <1>8 DEF Conflict, Saved, Txn
  <1>9. ASSUME Doubt(w) PROVE Txn
    BY <1>9 DEF Doubt, Saved, Txn
  <1>10. ASSUME Released(w) PROVE Txn
    <2>1. github.tag = "ours" /\ github.release = "ours"
      BY <1>0, <1>10 DEF Released, At, Hands, Sound, Placed, TagPcs
    <2> QED
      BY <1>0, <1>10, <2>1 DEF Released, Saved, Txn
  <1> QED
    BY <1>1, <1>2, <1>3, <1>4, <1>5, <1>6, <1>7, <1>8, <1>9, <1>10 DEF Publishing

LEMMA TxnRecovery ==
  ASSUME Inv, NEW w \in Workers, Recovery(w) PROVE Txn
  <1>0. Typed /\ Hands
    BY DEF Inv
  <1>1. ASSUME Inspect(w) PROVE Txn
    BY <1>1 DEF Inspect, ReadOnly, Txn
  <1>2. ASSUME Stage(w) PROVE Txn
    <2> DEFINE h == hand[w]
    <2>1. h.image \in Images /\ builds[h.snap.build].state = "plan_failed"
      BY <1>0, <1>2 DEF Stage, At, Hands, Sound, Placed, Called, Done
    <2>2. CASE StagePlannerRetry(h.snap.build, h.snap.retries, h.image,
                                 builds[h.snap.build].image)
      <3>1. h.snap.build = rec.build /\ h.snap.retries = rec.retries
        BY <2>2 DEF StagePlannerRetry, CanStageRetry
      <3> QED
        BY <2>1, <2>2, <3>1 DEF Txn, Stages
    <2> QED
      BY <1>0, <1>2, <2>2 DEF Stage, Txn
  <1>3. ASSUME Spend(w) PROVE Txn
    <2>1. hand[w].snap.retries \in 0..3 /\ hand[w].snap.retries <= 2
      BY <1>0, <1>3 DEF Spend, At, Hands, Sound, Placed, Typed, HandType, ExecutionType
    <2>2. hand[w].snap.retries \in 0..2
      BY <2>1
    <2> QED
      BY <1>0, <1>3, <2>2 DEF Spend, Txn
  <1>4. ASSUME Recover(w) PROVE Txn
    BY <1>4 DEF Recover, ReadOnly, Txn
  <1>5. ASSUME Recovered(w) PROVE Txn
    BY <1>5 DEF Recovered, Txn
  <1> QED
    BY <1>1, <1>2, <1>3, <1>4, <1>5 DEF Recovery

LEMMA TxnConsolidation ==
  ASSUME Inv, NEW w \in Workers, Consolidation(w) PROVE Txn
  <1>0. Typed /\ Hands
    BY DEF Inv
  <1>1. ASSUME Reconcile(w) PROVE Txn
    BY <1>1 DEF Reconcile, ReadOnly, Txn
  <1>2. ASSUME ReadBuild(w) PROVE Txn
    BY <1>2 DEF ReadBuild, ReadOnly, Txn
  <1>3. ASSUME Clear(w) PROVE Txn
    BY <1>3 DEF Clear, Txn
  <1>4. ASSUME Blame(w) PROVE Txn
    BY <1>4 DEF Blame, Txn
  <1>5. ASSUME BuildFailed(w) PROVE Txn
    BY <1>5 DEF BuildFailed, Saved, Txn
  <1>6. ASSUME Reget(w) PROVE Txn
    BY <1>6 DEF Reget, ReadOnly, Txn
  <1>7. ASSUME StoreEvidence(w) PROVE Txn
    BY <1>7 DEF StoreEvidence, Txn
  <1>8. ASSUME Commit(w) PROVE Txn
    <2>1. hand[w].snap.report = stored /\ rec.report # "none"
      BY <1>0, <1>8 DEF Commit, At, Hands, Sound, Placed, Knows
    <2> QED
      BY <1>0, <1>8, <2>1 DEF Commit, Saved, Txn
  <1>9. ASSUME PlanFailed(w) PROVE Txn
    BY <1>9 DEF PlanFailed, Saved, Txn
  <1>10. ASSUME NoRelease(w) PROVE Txn
    BY <1>10 DEF NoRelease, Saved, Txn
  <1>11. ASSUME NoPlan(w) PROVE Txn
    BY <1>11 DEF NoPlan, Saved, Txn
  <1>12. ASSUME Plan(w) PROVE Txn
    BY <1>12 DEF Plan, Txn
  <1>13. ASSUME RecordUnknown(w) PROVE Txn
    BY <1>13 DEF RecordUnknown, Txn
  <1>14. ASSUME GiveUp(w) PROVE Txn
    BY <1>14 DEF GiveUp, Txn
  <1> QED
    BY <1>1, <1>2, <1>3, <1>4, <1>5, <1>6, <1>7, <1>8, <1>9, <1>10, <1>11, <1>12, <1>13, <1>14
       DEF Consolidation

LEMMA TxnCallback ==
  ASSUME Inv, NEW w \in Workers, Callback(w) PROVE Txn
  <1>0. Typed /\ Hands
    BY DEF Inv
  <1>1. ASSUME Verify(w) PROVE Txn
    BY <1>1 DEF Verify, ReadOnly, Txn
  <1>2. ASSUME BindCaller(w) PROVE Txn
    <2>1. hand[w].b \in Live
      BY <1>0, <1>2 DEF BindCaller, At, Hands, Sound, Called, Early
    <2> QED
      BY <1>0, <1>2, <2>1 DEF BindCaller, Txn
  <1>3. ASSUME IssueToken(w) PROVE Txn
    <2>1. hand[w].b \in Builds
      BY <1>0, <1>3 DEF IssueToken, At, Hands, Sound, Called, Early, Live
    <2> QED
      BY <1>0, <1>3, <2>1 DEF IssueToken, Txn
  <1>4. ASSUME Admit(w) PROVE Txn
    BY <1>4 DEF Admit, ReadOnly, Txn
  <1>5. ASSUME Accept(w) PROVE Txn
    <2> DEFINE f == /\ hand[w].ev.e = "failed" /\ rec.operation = "main_release"
                    /\ hand[w].snap.report # "none"
                    /\ hand[w].snap.engine = "quality_passed"
    <2>1. f \in BOOLEAN /\ (f => hand[w].ev.e = "failed" /\ rec.operation = "main_release")
      OBVIOUS
    <2>2. \/ rec' = rec
          \/ AcceptEvent(hand[w].b, hand[w].ev.q, hand[w].ev.e, hand[w].ev.r,
                         hand[w].ev.p, f)
      BY <1>0, <1>5 DEF Accept
    <2>3. hand[w].pc = "accept"
      BY <1>0, <1>5 DEF Accept, At
    <2> HIDE DEF f
    <2>4. rec' = rec \/ Accepts(w, f)
      BY <2>1, <2>2, <2>3 DEF Accepts
    <2> QED
      BY <2>1, <2>4 DEF Txn
  <1> QED
    BY <1>1, <1>2, <1>3, <1>4, <1>5 DEF Callback

LEMMA TxnDecision ==
  ASSUME Inv, NEW w \in Workers, Decision(w) PROVE Txn
  <1>0. Typed /\ Hands
    BY DEF Inv
  <1>1. ASSUME Approve(w) PROVE Txn
    BY <1>1 DEF Approve, Txn
  <1>2. ASSUME Supersede(w) PROVE Txn
    BY <1>2 DEF Supersede, Txn
  <1>3. ASSUME Cancel(w) PROVE Txn
    BY <1>3 DEF Cancel, Txn
  <1>4. ASSUME FindStopped(w) PROVE Txn
    BY <1>4 DEF FindStopped, ReadOnly, Txn
  <1>5. ASSUME ListStopped(w) PROVE Txn
    BY <1>5 DEF ListStopped, ReadOnly, Txn
  <1>6. ASSUME BindStopped(w) PROVE Txn
    <2>1. hand[w].snap.build \in Live
      BY <1>0, <1>6 DEF BindStopped, At, Hands, Sound, Placed
    <2> QED
      BY <1>0, <1>6, <2>1 DEF BindStopped, Txn
  <1>7. ASSUME StopBuild(w) PROVE Txn
    BY <1>7 DEF StopBuild, Txn
  <1>8. ASSUME SaveStopped(w) PROVE Txn
    BY <1>8 DEF SaveStopped, Txn
  <1> QED
    BY <1>1, <1>2, <1>3, <1>4, <1>5, <1>6, <1>7, <1>8 DEF Decision

LEMMA TxnStep == ASSUME Inv, [SNext]_svars PROVE Txn
  <1>1. ASSUME NEW w \in Workers, Step(w) PROVE Txn
    <2>1. ASSUME Reply(w) PROVE Txn
      BY <2>1 DEF Reply, Txn
    <2> QED
      BY <1>1, <2>1, TxnSubmission, TxnPublishing, TxnRecovery, TxnConsolidation,
         TxnCallback, TxnDecision
         DEF Step
  <1>2. ASSUME NEW w \in Workers, Sweep(w) \/ Request(w) \/ Crash(w) PROVE Txn
    BY <1>2 DEF Sweep, Request, Crash, Redeliver, AskApprove, AskSupersede, AskCancel,
                NewHead, AskToken, SendEvent, Call, Begin, ReadOnly, Txn
  <1>3. ASSUME NEW b \in Builds, EndBuild(b) PROVE Txn
    BY <1>3 DEF EndBuild, Finish, Txn
  <1>4. ASSUME Age \/ RollForward \/ Interfere \/ UNCHANGED svars PROVE Txn
    BY <1>4 DEF Age, RollForward, Interfere, svars, Txn
  <1> QED
    BY <1>1, <1>2, <1>3, <1>4 DEF SNext
-----------------------------------------------------------------------------
(* The record: the handlers implement its specification.                   *)

LEMMA ResultForm ==
  ASSUME NEW e \in Results
  PROVE  /\ e.q \in 1..3 /\ e.e \in EngineStatus \ {"none"} /\ e.r \in Reports /\ e.p \in Plans
         /\ e.r # "none" <=> e.e \in {"quality_passed", "quality_failed"}
         /\ e.p # "missing" <=> e.e \in {"release_planned", "no_release"}
         /\ e.q = 2 => e.e = "failed" \/ e.r # "none"
         /\ e.q = 3 => e.e = "failed" \/ e.p # "missing"
         /\ e.q < 3 => e.p = "missing"
  <1> DEFINE Ev(q, x, r, p) == [q |-> q, e |-> x, r |-> r, p |-> p]
  <1>1. CASE e \in Started
    <2>1. e = Ev(1, "running_quality", "none", "missing")
      BY <1>1 DEF Started, NoEvent
    <2> QED
      BY <2>1 DEF EngineStatus, Reports, Plans
  <1>2. CASE e \in QualityResults
    <2>1. \/ e = Ev(2, "failed", "none", "missing")
          \/ e = Ev(2, "quality_passed", "good", "missing")
          \/ e = Ev(2, "quality_passed", "bad", "missing")
          \/ e = Ev(2, "quality_failed", "bad", "missing")
      <3>1. CASE e = [NoEvent EXCEPT !.q = 2, !.e = "failed"]
        BY <3>1 DEF NoEvent
      <3>2. CASE e # [NoEvent EXCEPT !.q = 2, !.e = "failed"]
        <4>1. PICK x \in {<<"quality_passed", "good">>, <<"quality_passed", "bad">>,
                          <<"quality_failed", "bad">>} :
                 e = [NoEvent EXCEPT !.q = 2, !.e = x[1], !.r = x[2]]
          BY <1>2, <3>2 DEF QualityResults
        <4>2. e = Ev(2, x[1], x[2], "missing")
          BY <4>1 DEF NoEvent
        <4> QED
          BY <4>2
      <3> QED
        BY <3>1, <3>2
    <2> QED
      BY <2>1 DEF EngineStatus, Reports, Plans
  <1>3. CASE e \in PlanResults
    <2>1. \/ e = Ev(3, "release_planned", "none", "semantic")
          \/ e = Ev(3, "no_release", "none", "none")
          \/ e = Ev(3, "failed", "none", "missing")
      <3>1. PICK x \in {<<"release_planned", "semantic">>, <<"no_release", "none">>,
                        <<"failed", "missing">>} :
               e = [NoEvent EXCEPT !.q = 3, !.e = x[1], !.p = x[2]]
        BY <1>3 DEF PlanResults
      <3>2. e = Ev(3, x[1], "none", x[2])
        BY <3>1 DEF NoEvent
      <3> QED
        BY <3>2
    <2> QED
      BY <2>1 DEF EngineStatus, Reports, Plans
  <1> QED
    BY <1>1, <1>2, <1>3 DEF Results

\* The event that is accepted was sent by a build.
LEMMA AcceptsForm ==
  ASSUME Inv, NEW w \in Workers, NEW f, Accepts(w, f)
  PROVE  /\ hand[w].kind = "event" /\ hand[w].ev \in Results /\ hand[w].ev.q <= LastEvent
         /\ hand[w].ev.q = 3 => rec.report # "none"
         /\ hand[w].b \in Live
  BY DEF Inv, Hands, Sound, Called, Accepts, Caller

\* The build that is retired is the one bound, and carries a planner image.
LEMMA StagesForm ==
  ASSUME Inv, NEW i \in Images, Stages(i)
  PROVE  /\ rec.build \in Live /\ rec.retries \in 0..2 /\ rec.engine = "quality_passed"
         /\ builds[rec.build].image \in Images /\ builds[rec.build].state = "plan_failed"
  <1>1. PlannerRetryCandidate(rec)
    BY DEF Stages, StagePlannerRetry, CanStageRetry
  <1>2. rec.build # NoBuild /\ rec.operation = "main_release" /\ rec.engine = "quality_passed"
    BY <1>1 DEF PlannerRetryCandidate
  <1>3. rec.build \in Live /\ builds[rec.build].image \in Images
    BY <1>2 DEF Inv, Runs
  <1>4. rec.retries \in 0..2
    BY <1>1 DEF PlannerRetryCandidate, AttemptAvailable
  <1> QED
    BY <1>2, <1>3, <1>4 DEF Stages

LEMMA StoreStep == ASSUME Inv, Txn PROVE [Next]_vars
  <1> USE DEF Next
  <1>1. ASSUME NEW b \in Live, BindBuild(b) PROVE Next
    BY <1>1 DEF Engine, Live
  <1>2. ASSUME NEW w \in Workers, NEW f \in BOOLEAN, Accepts(w, f) PROVE Next
    <2> DEFINE e == hand[w].ev
    <2>1. e \in Results /\ hand[w].b \in Builds
      BY <1>2, AcceptsForm DEF Live
    <2>2. e.q \in 1..MaxSequence
      BY <2>1, ResultForm, HandlerAssumption, BoundAssumption
    <2>3. AcceptEvent(hand[w].b, e.q, e.e, e.r, e.p, f)
          /\ (f => e.e = "failed" /\ rec.operation = "main_release")
      BY <1>2 DEF Accepts
    <2> HIDE DEF e
    <2> QED
      BY <2>1, <2>2, <2>3, ResultForm DEF Engine
  <1>3. ASSUME NEW i \in Images, Stages(i) PROVE Next
    BY <1>3, StagesForm DEF Engine, Stages, Live
  <1>4. ASSUME NEW b \in Builds, ClaimEventToken(b) PROVE Next
    BY <1>4 DEF Engine
  <1>5. ASSUME CommitQuality(stored) PROVE Next
    <2>1. stored \in Reports
      BY DEF Inv, Typed, STypeOK
    <2> QED
      BY <1>5, <2>1 DEF Handlers
  <1> QED
    BY <1>1, <1>2, <1>3, <1>4, <1>5 DEF Txn, Handlers, vars

LEMMA StoreInv == ASSUME Inv, Txn PROVE IInv'
  <1>1. IInv /\ [Next]_vars
    BY StoreStep DEF Inv
  <1> QED
    BY <1>1, TypeStep, SafeStep DEF IInv, Safe

\* What no transaction takes back.
RecGrows ==
    /\ rec'.operation = rec.operation
    /\ rec.evidence => rec'.evidence
    /\ rec.claimed => rec'.claimed
    /\ rec.canary => rec'.canary
    /\ rec.plan # "missing" => rec'.plan = rec.plan
    /\ rec.report # "none" => rec'.report # "none"
    /\ rec.retries <= rec'.retries /\ rec.sequence <= rec'.sequence
    /\ rec.retired \subseteq rec'.retired
    /\ rec'.eventToken = rec.eventToken \/ rec.eventToken \in {NoBuild} \cup rec.retired

LEMMA RecStep == ASSUME Inv, Txn PROVE RecGrows
  <1>0. rec \in ExecutionType
    BY DEF Inv, Typed, STypeOK, TypeOK
  <1>a. rec.retries <= rec.retries /\ rec.sequence <= rec.sequence
    BY <1>0, BoundAssumption DEF ExecutionType
  <1> USE <1>0, <1>a
  <1>1. ASSUME NEW b \in Live, BindBuild(b) PROVE RecGrows
    BY <1>1 DEF BindBuild, RecGrows, ExecutionType
  <1>2. ASSUME NEW w \in Workers, NEW f \in BOOLEAN, Accepts(w, f) PROVE RecGrows
    <2> DEFINE e == hand[w].ev
    <2>1. e \in Results /\ e.q \in 1..3 /\ e.q <= LastEvent
      BY <1>2, AcceptsForm, ResultForm
    <2>2. AcceptEvent(hand[w].b, e.q, e.e, e.r, e.p, f) /\ e.q > rec.sequence
      BY <1>2 DEF Accepts, AcceptEvent, CanAcceptEvent
    <2>3. rec.plan = "missing" /\ rec.sequence \in Nat
      BY <2>1, <2>2, BoundAssumption DEF Inv, Told, ExecutionType
    <2>4. rec'.report = IF e.r = "none" THEN rec.report ELSE e.r
      BY <2>2 DEF AcceptEvent, ExecutionType
    <2>5. /\ rec'.sequence = e.q /\ rec'.operation = rec.operation
          /\ rec'.evidence = rec.evidence /\ rec'.claimed = rec.claimed
          /\ rec'.canary = rec.canary /\ rec'.retries = rec.retries
          /\ rec'.retired = rec.retired /\ rec'.eventToken = rec.eventToken
      BY <2>2 DEF AcceptEvent, ExecutionType
    <2> HIDE DEF e
    <2> QED
      BY <2>1, <2>2, <2>3, <2>4, <2>5 DEF RecGrows
  <1>3. ASSUME NEW i \in Images, Stages(i) PROVE RecGrows
    <2>1. StagePlannerRetry(rec.build, rec.retries, i, builds[rec.build].image)
          /\ rec.build \in Builds /\ rec.retries \in 0..2 /\ builds[rec.build].image \in Images
      BY <1>3, StagesForm DEF Stages, Live
    <2>2. /\ rec'.operation = rec.operation
          /\ rec'.evidence = rec.evidence /\ rec'.claimed = rec.claimed
          /\ rec'.canary = rec.canary /\ rec'.retries = rec.retries + 1
          /\ rec'.plan = rec.plan /\ rec'.report = rec.report /\ rec'.sequence = rec.sequence
          /\ rec'.retired = rec.retired \cup {rec.build} /\ rec'.eventToken = rec.eventToken
      BY <2>1 DEF StagePlannerRetry, ExecutionType
    <2> QED
      BY <2>1, <2>2 DEF RecGrows
  <1>4. ASSUME NEW b \in Builds, ClaimEventToken(b) PROVE RecGrows
    BY <1>4 DEF ClaimEventToken, CanClaimToken, RecGrows, ExecutionType
  <1>5. ASSUME CommitQuality(stored) PROVE RecGrows
    BY <1>5 DEF CommitQuality, RecGrows, ExecutionType
  <1>6. ASSUME NEW t, rec' = [rec EXCEPT !.status = t] PROVE RecGrows
    BY <1>6 DEF RecGrows, ExecutionType
  <1>7. ASSUME rec' = rec PROVE RecGrows
    BY <1>7 DEF RecGrows
  <1>8. ASSUME NEW n \in 0..(MaxAttempts - 1), ReopenSubmission(n) PROVE RecGrows
    BY <1>8 DEF ReopenSubmission, RecGrows, ExecutionType
  <1>9. ASSUME SaveEngineFailed \/ ClearRetryPending \/ SaveCanary PROVE RecGrows
    BY <1>9 DEF SaveEngineFailed, ClearRetryPending, SaveCanary, RecGrows, ExecutionType
  <1>10. ASSUME NEW n \in 0..2, SpendRetry(n) PROVE RecGrows
    BY <1>10 DEF SpendRetry, RecGrows, ExecutionType
  <1>11. ASSUME ClaimPublish \/ SavePublicationUncertain \/ SaveReleased PROVE RecGrows
    BY ZenonT(30), <1>11 DEF ClaimPublish, SavePublicationUncertain, SaveReleased, RecGrows, ExecutionType
  <1> QED
    BY <1>1, <1>2, <1>3, <1>4, <1>5, <1>6, <1>7, <1>8, <1>9, <1>10, <1>11
       DEF Txn, ClaimSubmission, SaveStatus, SavePlanned, SaveNoRelease, SaveSuperseded,
           CancelRelease

-----------------------------------------------------------------------------
(* The world: Cloud Build, GitHub, evidence, and the stamps of the record. *)

StampsType == [updated : {"recent", "old"}, uncertain : {"none", "recent", "old"},
               refused : BOOLEAN]

Ticks == /\ stamps' \in StampsType
         /\ drift' \in BOOLEAN /\ faults' \in 0..MaxFaults

LEMMA FaultTicks ==
  ASSUME Typed
  PROVE  /\ Fault => faults' \in 0..MaxFaults
         /\ NoFault => faults' \in 0..MaxFaults
  BY HandlerAssumption DEF Typed, STypeOK, Fault, NoFault

LEMMA StampsTick ==
  ASSUME Typed
  PROVE  /\ UNCHANGED <<stamps, drift>> =>
              /\ stamps' \in StampsType
              /\ drift' \in BOOLEAN
         /\ \A d \in BOOLEAN : Stamp(d) =>
              /\ stamps' \in StampsType
              /\ drift' \in BOOLEAN
         /\ drift \in BOOLEAN /\ stamps \in StampsType
  BY DEF Typed, STypeOK, Stamp, StampsType

LEMMA WorldSubmission ==
  ASSUME Typed, NEW w \in Workers, Submission(w)
  PROVE  Ticks /\ (UNCHANGED world \/ Post(w))
  <1> USE FaultTicks, StampsTick DEF Ticks
  <1>1. ASSUME StartChecks(w) PROVE Ticks /\ UNCHANGED world
    BY <1>1 DEF StartChecks
  <1>2. ASSUME Get(w) PROVE Ticks /\ UNCHANGED world
    BY <1>2 DEF Get, Submitted, ReadOnly
  <1>3. ASSUME List(w) PROVE Ticks /\ UNCHANGED world
    BY <1>3 DEF List, ReadOnly
  <1>4. ASSUME Claim(w) PROVE Ticks /\ UNCHANGED world
    BY <1>4 DEF Claim
  <1>5. ASSUME Post(w) PROVE Ticks
    BY <1>5 DEF Post
  <1>6. ASSUME MarkUncertain(w) PROVE Ticks /\ UNCHANGED world
    <2>1. \/ /\ stamps' = [stamps EXCEPT !.updated = "recent", !.uncertain = "recent"]
             /\ drift' = drift
          \/ UNCHANGED <<stamps, drift>>
      BY <1>6 DEF MarkUncertain
    <2> QED
      BY <1>6, <2>1 DEF MarkUncertain, StampsType
  <1>7. ASSUME MarkRefused(w) PROVE Ticks /\ UNCHANGED world
    <2>1. \/ /\ stamps' = [stamps EXCEPT !.updated = "recent", !.refused = TRUE]
             /\ drift' = drift
          \/ UNCHANGED <<stamps, drift>>
      BY <1>7 DEF MarkRefused
    <2> QED
      BY <1>7, <2>1 DEF MarkRefused, StampsType
  <1>8. ASSUME Bind(w) PROVE Ticks /\ UNCHANGED world
    BY <1>8 DEF Bind, Submitted
  <1>9. ASSUME Unsure(w) PROVE Ticks /\ UNCHANGED world
    BY <1>9 DEF Unsure, ReadOnly
  <1>10. ASSUME Seek(w) PROVE Ticks /\ UNCHANGED world
    BY <1>10 DEF Seek, ReadOnly
  <1>11. ASSUME Absent(w) PROVE Ticks /\ UNCHANGED world
    BY <1>11 DEF Absent, ReadOnly
  <1>12. ASSUME Reopen(w) PROVE Ticks /\ UNCHANGED world
    BY <1>12 DEF Reopen
  <1> QED
    BY <1>1, <1>2, <1>3, <1>4, <1>5, <1>6, <1>7, <1>8, <1>9, <1>10, <1>11, <1>12 DEF Submission

LEMMA WorldPublishing ==
  ASSUME Typed, NEW w \in Workers, Publishing(w)
  PROVE  Ticks /\ (UNCHANGED world \/ CreateTag(w) \/ CreateRelease(w))
  <1> USE FaultTicks, StampsTick DEF Ticks
  <1>1. ASSUME ClaimRelease(w) PROVE Ticks /\ UNCHANGED world
    BY <1>1 DEF ClaimRelease
  <1>2. ASSUME Reread(w) PROVE Ticks /\ UNCHANGED world
    BY <1>2 DEF Reread, ReadOnly
  <1>3. ASSUME CheckBranch(w) PROVE Ticks /\ UNCHANGED world
    BY <1>3 DEF CheckBranch, ReadOnly
  <1>4. ASSUME LookupTag(w) PROVE Ticks /\ UNCHANGED world
    BY <1>4 DEF LookupTag, Lookup, ReadOnly
  <1>5. ASSUME CreateTag(w) PROVE Ticks
    BY <1>5 DEF CreateTag, Create
  <1>6. ASSUME LookupRelease(w) PROVE Ticks /\ UNCHANGED world
    BY <1>6 DEF LookupRelease, Lookup, ReadOnly
  <1>7. ASSUME CreateRelease(w) PROVE Ticks
    BY <1>7 DEF CreateRelease, Create
  <1>8. ASSUME Conflict(w) PROVE Ticks /\ UNCHANGED world
    BY <1>8 DEF Conflict, Saved
  <1>9. ASSUME Doubt(w) PROVE Ticks /\ UNCHANGED world
    BY <1>9 DEF Doubt, Saved
  <1>10. ASSUME Released(w) PROVE Ticks /\ UNCHANGED world
    BY <1>10 DEF Released, Saved
  <1> QED
    BY <1>1, <1>2, <1>3, <1>4, <1>5, <1>6, <1>7, <1>8, <1>9, <1>10 DEF Publishing

LEMMA WorldRecovery ==
  ASSUME Typed, NEW w \in Workers, Recovery(w)
  PROVE  Ticks /\ (UNCHANGED world)
  <1> USE FaultTicks, StampsTick DEF Ticks
  <1>1. ASSUME Inspect(w) PROVE Ticks /\ UNCHANGED world
    BY <1>1 DEF Inspect, ReadOnly
  <1>2. ASSUME Stage(w) PROVE Ticks /\ UNCHANGED world
    BY <1>2 DEF Stage
  <1>3. ASSUME Spend(w) PROVE Ticks /\ UNCHANGED world
    BY <1>3 DEF Spend
  <1>4. ASSUME Recover(w) PROVE Ticks /\ UNCHANGED world
    BY <1>4 DEF Recover, ReadOnly
  <1>5. ASSUME Recovered(w) PROVE Ticks /\ UNCHANGED world
    BY <1>5 DEF Recovered
  <1> QED
    BY <1>1, <1>2, <1>3, <1>4, <1>5 DEF Recovery

LEMMA WorldConsolidation ==
  ASSUME Typed, NEW w \in Workers, Consolidation(w)
  PROVE  Ticks /\ (UNCHANGED world \/ StoreEvidence(w))
  <1> USE FaultTicks, StampsTick DEF Ticks
  <1>1. ASSUME Reconcile(w) PROVE Ticks /\ UNCHANGED world
    BY <1>1 DEF Reconcile, ReadOnly
  <1>2. ASSUME ReadBuild(w) PROVE Ticks /\ UNCHANGED world
    BY <1>2 DEF ReadBuild, ReadOnly
  <1>3. ASSUME Clear(w) PROVE Ticks /\ UNCHANGED world
    BY <1>3 DEF Clear
  <1>4. ASSUME Blame(w) PROVE Ticks /\ UNCHANGED world
    BY <1>4 DEF Blame
  <1>5. ASSUME BuildFailed(w) PROVE Ticks /\ UNCHANGED world
    BY <1>5 DEF BuildFailed, Saved
  <1>6. ASSUME Reget(w) PROVE Ticks /\ UNCHANGED world
    BY <1>6 DEF Reget, ReadOnly
  <1>7. ASSUME StoreEvidence(w) PROVE Ticks
    BY <1>7 DEF StoreEvidence
  <1>8. ASSUME Commit(w) PROVE Ticks /\ UNCHANGED world
    BY <1>8 DEF Commit, Saved
  <1>9. ASSUME PlanFailed(w) PROVE Ticks /\ UNCHANGED world
    BY <1>9 DEF PlanFailed, Saved
  <1>10. ASSUME NoRelease(w) PROVE Ticks /\ UNCHANGED world
    BY <1>10 DEF NoRelease, Saved
  <1>11. ASSUME NoPlan(w) PROVE Ticks /\ UNCHANGED world
    BY <1>11 DEF NoPlan, Saved
  <1>12. ASSUME Plan(w) PROVE Ticks /\ UNCHANGED world
    BY <1>12 DEF Plan
  <1>13. ASSUME RecordUnknown(w) PROVE Ticks /\ UNCHANGED world
    <2>1. At(w, "drift") \in BOOLEAN
      BY DEF At
    <2> QED
      BY <1>13, <2>1 DEF RecordUnknown
  <1>14. ASSUME GiveUp(w) PROVE Ticks /\ UNCHANGED world
    BY <1>14 DEF GiveUp
  <1> QED
    BY <1>1, <1>2, <1>3, <1>4, <1>5, <1>6, <1>7, <1>8, <1>9, <1>10, <1>11, <1>12, <1>13, <1>14
       DEF Consolidation

LEMMA WorldCallback ==
  ASSUME Typed, NEW w \in Workers, Callback(w)
  PROVE  Ticks /\ (UNCHANGED world)
  <1> USE FaultTicks, StampsTick DEF Ticks
  <1>1. ASSUME Verify(w) PROVE Ticks /\ UNCHANGED world
    BY <1>1 DEF Verify, ReadOnly
  <1>2. ASSUME BindCaller(w) PROVE Ticks /\ UNCHANGED world
    BY <1>2 DEF BindCaller
  <1>3. ASSUME IssueToken(w) PROVE Ticks /\ UNCHANGED world
    BY <1>3 DEF IssueToken
  <1>4. ASSUME Admit(w) PROVE Ticks /\ UNCHANGED world
    BY <1>4 DEF Admit, ReadOnly
  <1>5. ASSUME Accept(w) PROVE Ticks /\ UNCHANGED world
    BY <1>5 DEF Accept
  <1> QED
    BY <1>1, <1>2, <1>3, <1>4, <1>5 DEF Callback

LEMMA WorldDecision ==
  ASSUME Typed, NEW w \in Workers, Decision(w)
  PROVE  Ticks /\ (UNCHANGED world \/ StopBuild(w))
  <1> USE FaultTicks, StampsTick DEF Ticks
  <1>1. ASSUME Approve(w) PROVE Ticks /\ UNCHANGED world
    BY <1>1 DEF Approve
  <1>2. ASSUME Supersede(w) PROVE Ticks /\ UNCHANGED world
    BY <1>2 DEF Supersede
  <1>3. ASSUME Cancel(w) PROVE Ticks /\ UNCHANGED world
    BY <1>3 DEF Cancel
  <1>4. ASSUME FindStopped(w) PROVE Ticks /\ UNCHANGED world
    BY <1>4 DEF FindStopped, ReadOnly
  <1>5. ASSUME ListStopped(w) PROVE Ticks /\ UNCHANGED world
    BY <1>5 DEF ListStopped, ReadOnly
  <1>6. ASSUME BindStopped(w) PROVE Ticks /\ UNCHANGED world
    BY <1>6 DEF BindStopped
  <1>7. ASSUME StopBuild(w) PROVE Ticks
    BY <1>7 DEF StopBuild
  <1>8. ASSUME SaveStopped(w) PROVE Ticks /\ UNCHANGED world
    BY <1>8 DEF SaveStopped
  <1> QED
    BY <1>1, <1>2, <1>3, <1>4, <1>5, <1>6, <1>7, <1>8 DEF Decision

\* What no step of anybody takes back.
WorldGrows ==
    /\ \A b \in Builds : builds[b].state # "none" =>
          /\ builds'[b].attempt = builds[b].attempt /\ builds'[b].image = builds[b].image
          /\ builds'[b].state # "none"
          /\ builds[b].state # "working" => builds'[b].state = builds[b].state
          /\ builds'[b].state = "success" => builds[b].state = "success" \/ ~Calling(b)
    /\ stored # "none" => stored' = stored
    /\ github.tag = "ours" => github'.tag = "ours"
    /\ github.release = "ours" => github'.release = "ours"

BuildType == [state : {"none", "working", "success", "plan_failed", "failed", "cancelled"},
              attempt : 0..3, image : Images \cup {NoImage}, sent : 0..3, token : BOOLEAN]

WorldType ==
    /\ builds \in [Builds -> BuildType]
    /\ github \in [tag : {"none", "ours", "foreign"},
                   release : {"none", "ours", "foreign"}, moved : BOOLEAN]
    /\ stored \in Reports /\ image \in Images

\* The steps that change the world: builds are made, stopped, answered and end,
\* GitHub and the evidence store are written, and a new image is deployed.
Changes ==
    \/ \E w \in Workers : \/ Post(w) \/ StopBuild(w) \/ Reply(w) \/ StoreEvidence(w)
                          \/ CreateTag(w) \/ CreateRelease(w)
    \/ \E b \in Builds : EndBuild(b)
    \/ RollForward \/ Interfere

LEMMA WorldCases == ASSUME Typed, [SNext]_svars PROVE Ticks /\ (UNCHANGED world \/ Changes)
  <1> USE FaultTicks, StampsTick
  <1>1. ASSUME NEW w \in Workers, Step(w) PROVE Ticks /\ (UNCHANGED world \/ Changes)
    <2>1. ASSUME Reply(w) PROVE Ticks
      BY <2>1 DEF Reply, Ticks
    <2> QED
      BY <1>1, <2>1, WorldSubmission, WorldPublishing, WorldRecovery, WorldConsolidation,
         WorldCallback, WorldDecision
         DEF Step, Changes
  <1>2. ASSUME NEW w \in Workers, Sweep(w) \/ Request(w) \/ Crash(w)
        PROVE  Ticks /\ UNCHANGED world
    BY <1>2 DEF Sweep, Request, Crash, Redeliver, AskApprove, AskSupersede, AskCancel,
                NewHead, AskToken, SendEvent, Call, Begin, ReadOnly, Ticks
  <1>3. ASSUME NEW b \in Builds, EndBuild(b) PROVE Ticks
    BY <1>3 DEF EndBuild, Finish, Ticks
  <1>4. ASSUME Age PROVE Ticks /\ UNCHANGED world
    <2> DEFINE uncertain == IF stamps.uncertain = "none" THEN "none" ELSE "old"
    <2>1. /\ stamps' = [stamps EXCEPT !.updated = "old", !.uncertain = uncertain]
          /\ UNCHANGED <<drift, faults>>
      BY <1>4 DEF Age
    <2>2. uncertain \in {"none", "recent", "old"} /\ stamps \in StampsType
      BY StampsTick
    <2> HIDE DEF uncertain
    <2>3. stamps' \in StampsType
      BY <2>1, <2>2 DEF StampsType
    <2> QED
      BY <1>4, <2>1, <2>3 DEF Age, Ticks, Typed, STypeOK
  <1>5. ASSUME RollForward \/ Interfere PROVE Ticks
    <2>1. UNCHANGED <<stamps, drift>> /\ (Fault \/ faults' = faults)
      BY <1>5 DEF RollForward, Interfere
    <2> QED
      BY <2>1 DEF Ticks, NoFault
  <1>6. ASSUME UNCHANGED svars PROVE Ticks /\ UNCHANGED world
    BY <1>6 DEF svars, world, Ticks, NoFault
  <1> QED
    BY <1>1, <1>2, <1>3, <1>4, <1>5, <1>6 DEF SNext, Changes

LEMMA WorldStep == ASSUME Inv, [SNext]_svars PROVE WorldGrows /\ WorldType'
  <1>0. Typed /\ Hands /\ WorldType
    BY DEF Inv, Typed, STypeOK, WorldType, BuildType
  <1> USE <1>0
  <1>1. ASSUME UNCHANGED world PROVE WorldGrows /\ WorldType'
    BY <1>1 DEF world, WorldGrows, WorldType
  <1>a. ASSUME UNCHANGED <<github, stored, image>>,
               builds' \in [Builds -> BuildType],
               \A b \in Builds : builds'[b] # builds[b] =>
                  \/ builds[b].state = "none"
                  \/ /\ builds'[b].attempt = builds[b].attempt
                     /\ builds'[b].image = builds[b].image
                     /\ builds'[b].state # "none"
                     /\ builds[b].state # "working" => builds'[b].state = builds[b].state
                     /\ builds'[b].state = "success" =>
                           builds[b].state = "success" \/ ~Calling(b)
        PROVE  WorldGrows /\ WorldType'
    BY <1>a DEF WorldGrows, WorldType
  <1>2. ASSUME NEW w \in Workers, Post(w) PROVE WorldGrows /\ WorldType'
    <2>1. CASE UNCHANGED builds
      BY <1>2, <2>1, <1>1 DEF Post, world
    <2>2. CASE Live # Builds
               /\ builds' = [builds EXCEPT ![CHOOSE x \in Builds : x \notin Live] = Created(hand[w])]
      <3> DEFINE b == CHOOSE x \in Builds : x \notin Live
      <3>1. b \in Builds /\ b \notin Live
        <4>1. \E x \in Builds : x \notin Live
          BY <2>2 DEF Live
        <4> QED
          BY <4>1
      <3>2. builds[b].state = "none"
        BY <3>1 DEF Live
      <3>3. Created(hand[w]) \in BuildType
        <4>1. hand[w].snap.retries \in 0..3 /\ hand[w].image \in Images \cup {NoImage}
          BY DEF Typed, HandType, ExecutionType
        <4> QED
          BY <4>1 DEF Created, PlannerImage, BuildType
      <3>4. builds' = [builds EXCEPT ![b] = Created(hand[w])]
        BY <2>2
      <3> HIDE DEF b
      <3>5. builds' \in [Builds -> BuildType] /\ \A c \in Builds : c # b => builds'[c] = builds[c]
        BY <3>1, <3>3, <3>4 DEF WorldType
      <3> QED
        BY <1>2, <1>a, <3>2, <3>5 DEF Post
    <2> QED
      BY <1>2, <2>1, <2>2 DEF Post
  <1>3. ASSUME NEW w \in Workers, StopBuild(w) PROVE WorldGrows /\ WorldType'
    <2> DEFINE b == hand[w].snap.build
    <2>1. b \in Builds
      BY <1>3 DEF StopBuild, At, Hands, Sound, Placed
    <2>2. builds' = [builds EXCEPT ![b].state =
                        IF builds[b].state = "working" THEN "cancelled" ELSE builds[b].state]
      BY <1>3 DEF StopBuild
    <2> HIDE DEF b
    <2>3. /\ builds' \in [Builds -> BuildType] /\ \A c \in Builds : c # b => builds'[c] = builds[c]
          /\ builds'[b].attempt = builds[b].attempt /\ builds'[b].image = builds[b].image
          /\ builds'[b].state =
                IF builds[b].state = "working" THEN "cancelled" ELSE builds[b].state
      BY <2>1, <2>2 DEF WorldType, BuildType
    <2>4. UNCHANGED <<github, stored, image>>
      BY <1>3 DEF StopBuild
    <2> QED
      BY <1>a, <2>1, <2>3, <2>4
  <1>4. ASSUME NEW w \in Workers, Reply(w) PROVE WorldGrows /\ WorldType'
    <2> DEFINE h == hand[w]
               x == Answered(builds[h.b], h)
    <2>1. h.b \in Builds /\ (h.kind = "event" => h.ev \in Results)
      BY <1>4 DEF Reply, Hands, Sound, Called, Live
    <2>2. builds' = [builds EXCEPT ![h.b] = x]
      BY <1>4 DEF Reply
    <2>3. h.kind = "event" => h.ev.q \in 0..3
      BY <2>1, ResultForm
    <2>4. builds[h.b] \in BuildType
      BY <2>1 DEF WorldType
    <2>5. x \in BuildType
      BY <2>3, <2>4 DEF BuildType, Answered
    <2>6. /\ x.attempt = builds[h.b].attempt /\ x.image = builds[h.b].image
          /\ x.state \in {builds[h.b].state, IF builds[h.b].state = "working"
                                             THEN "failed" ELSE builds[h.b].state}
      BY <2>4 DEF BuildType, Answered
    <2> HIDE DEF x
    <2>7. /\ builds' \in [Builds -> BuildType]
          /\ \A c \in Builds : c # h.b => builds'[c] = builds[c]
          /\ builds'[h.b] = x
      BY <2>1, <2>2, <2>5 DEF WorldType
    <2>8. UNCHANGED <<github, stored, image>>
      BY <1>4 DEF Reply
    <2> QED
      BY <1>a, <2>1, <2>6, <2>7, <2>8
  <1>5. ASSUME NEW b \in Builds, EndBuild(b) PROVE WorldGrows /\ WorldType'
    <2>1. PICK t \in {"success", "plan_failed", "failed", "cancelled"} : Finish(b, t)
      BY <1>5 DEF EndBuild
    <2>2. /\ builds' \in [Builds -> BuildType] /\ \A c \in Builds : c # b => builds'[c] = builds[c]
          /\ builds'[b].attempt = builds[b].attempt /\ builds'[b].image = builds[b].image
          /\ builds'[b].state = t /\ builds[b].state = "working" /\ ~Calling(b)
      BY <2>1 DEF Finish, WorldType, BuildType
    <2> QED
      BY <1>a, <2>1, <2>2 DEF Finish
  <1>6. ASSUME NEW w \in Workers, StoreEvidence(w) PROVE WorldGrows /\ WorldType'
    <2>1. hand[w].snap.report \in Reports
      BY DEF Typed, HandType, ExecutionType
    <2>2. UNCHANGED <<builds, github, image>>
          /\ (stored' = stored \/ (stored \in {"none", hand[w].snap.report}
                                   /\ stored' = hand[w].snap.report))
      BY <1>6 DEF StoreEvidence, SaveImmutableReport, CanSaveReport
    <2> QED
      BY <2>1, <2>2 DEF WorldGrows, WorldType
  <1>7. ASSUME NEW w \in Workers,
  CreateTag(w) \/ CreateRelease(w) PROVE WorldGrows /\ WorldType'
    <2>1. UNCHANGED <<builds, stored, image>>
          /\ \/ github' = github
             \/ github.tag = "none" /\ github' = [github EXCEPT !.tag = "ours"]
             \/ github.release = "none" /\ github' = [github EXCEPT !.release = "ours"]
      BY <1>7 DEF CreateTag, CreateRelease, Create
    <2> QED
      BY <2>1 DEF WorldGrows, WorldType
  <1>8. ASSUME Interfere PROVE WorldGrows /\ WorldType'
    <2>1. UNCHANGED <<builds, stored, image>>
          /\ \/ github' = [github EXCEPT !.moved = TRUE]
             \/ github.tag = "none" /\ github' = [github EXCEPT !.tag = "foreign"]
             \/ github.release = "none" /\ github' = [github EXCEPT !.release = "foreign"]
      BY <1>8 DEF Interfere
    <2> QED
      BY <2>1 DEF WorldGrows, WorldType
  <1>9. ASSUME RollForward PROVE WorldGrows /\ WorldType'
    BY <1>9 DEF RollForward, WorldGrows, WorldType
  <1> QED
    BY WorldCases, <1>1, <1>2, <1>3, <1>4, <1>5, <1>6, <1>7, <1>8, <1>9 DEF Changes

-----------------------------------------------------------------------------
(* The requests in progress.                                               *)

\* A step as seen by the requests: nothing they rely on is taken back.
Grows == /\ RecGrows /\ WorldGrows /\ WorldType' /\ rec' \in ExecutionType
         /\ WorldType /\ rec \in ExecutionType /\ Ticks

LEMMA GrowsStep == ASSUME Inv, [SNext]_svars PROVE Grows
  <1>1. Txn
    BY TxnStep
  <1>2. IInv'
    BY <1>1, StoreInv
  <1> QED
    BY <1>1, <1>2, RecStep, WorldStep, WorldCases
       DEF Grows, IInv, TypeOK, Inv, Typed, STypeOK, WorldType, BuildType

LEMMA RecNumbers ==
  ASSUME NEW r \in ExecutionType
  PROVE  /\ r.retries \in 0..3 /\ r.sequence \in Nat /\ r.retries \in Nat
         /\ r.retired \subseteq Builds
  BY BoundAssumption DEF ExecutionType

\* What a request knew, it still knows.
LEMMA KnowsStays ==
  ASSUME Inv, Grows, NEW v \in Workers
  PROVE  /\ hand[v].snap.plan # "missing" => rec'.plan = hand[v].snap.plan
         /\ hand[v].snap.report # "none" => rec'.report # "none"
         /\ hand[v].snap.retries <= rec'.retries /\ hand[v].snap.sequence <= rec'.sequence
         /\ hand[v].snap.eventToken \in {NoBuild, rec'.eventToken} \cup rec'.retired
  <1>1. hand[v].snap \in ExecutionType /\ Knows(hand[v]) /\ RecGrows
        /\ rec \in ExecutionType /\ rec' \in ExecutionType
    BY DEF Inv, Typed, HandType, Hands, Sound, Grows
  <1>2. /\ hand[v].snap.retries \in Nat /\ hand[v].snap.sequence \in Nat
        /\ rec.retries \in Nat /\ rec.sequence \in Nat /\ rec'.retries \in Nat /\ rec'.sequence \in Nat
    BY <1>1, RecNumbers
  <1> QED
    BY <1>1, <1>2 DEF Knows, RecGrows

\* A request that a step leaves alone stays sound.
LEMMA StaysSound ==
  ASSUME Inv, Grows, NEW v \in Workers, hand'[v] = hand[v]
  PROVE  Sound(hand[v])'
  <1> DEFINE h == hand[v]
  <1>1. h \in HandType /\ Sound(h) /\ RecGrows /\ WorldGrows
    BY DEF Inv, Typed, Hands, Grows
  <1>2. Knows(h)'
    BY KnowsStays DEF Knows
  <1>3. Called(h)'
    <2>1. rec.sequence \in Nat /\ rec'.sequence \in Nat /\ rec.sequence <= rec'.sequence
      BY <1>1, RecNumbers DEF Grows, RecGrows
    <2>2. LastEvent' = LastEvent
      BY <1>1 DEF LastEvent, RecGrows
    <2>3. ASSUME Caller(h)
          PROVE  /\ h.b \in Builds /\ builds[h.b].state # "none"
                 /\ builds'[h.b].state # "none" /\ builds'[h.b].state # "success"
                 /\ builds'[h.b].state = "working" => builds[h.b].state = "working"
      <3>1. h.b \in Builds /\ builds[h.b].state # "none" /\ builds[h.b].state # "success"
        BY <1>1, <2>3 DEF Sound, Called, Live
      <3>2. Calling(h.b)
        BY <2>3 DEF Calling, Caller
      <3> QED
        BY <1>1, <3>1, <3>2 DEF WorldGrows
    <2>4. h.kind = "event" =>
             /\ h.ev \in Results /\ h.ev.q <= LastEvent
             /\ h.ev.q = 3 => rec'.report # "none"
      BY <1>1 DEF Sound, Called, RecGrows
    <2>5. h.kind = "event" /\ h.pc \notin Early \cup {"error"} =>
             /\ h.ev.q <= rec'.sequence
             /\ builds'[h.b].state = "working" /\ h.ev.e # "failed" =>
                   /\ h.ev.q >= 2 => rec'.report # "none"
                   /\ h.ev.q = 3 => rec'.plan # "missing"
      <3>1. SUFFICES ASSUME h.kind = "event" /\ h.pc \notin Early \cup {"error"}
                     PROVE  /\ h.ev.q <= rec'.sequence
                            /\ builds'[h.b].state = "working" /\ h.ev.e # "failed" =>
                                  /\ h.ev.q >= 2 => rec'.report # "none"
                                  /\ h.ev.q = 3 => rec'.plan # "missing"
        OBVIOUS
      <3>2. h.ev.q \in Nat /\ h.ev.q <= rec.sequence
        BY <1>1, <2>4, <3>1, ResultForm DEF Sound, Called
      <3>3. Caller(h)
        BY <3>1 DEF Caller
      <3> QED
        BY <1>1, <2>1, <2>3, <3>1, <3>2, <3>3 DEF Sound, Called, RecGrows
    <2> QED
      BY <1>1, <2>2, <2>3, <2>4, <2>5 DEF Sound, Called, Live, Caller
  <1>4. Placed(h)'
    <2>1. \A b \in Live : b \in Live' /\ builds'[b].attempt = builds[b].attempt
      BY <1>1 DEF WorldGrows, Live
    <2>2. h.pc = "stage" => builds'[h.snap.build].state = "plan_failed"
      <3>1. h.snap.build \in Builds => builds'[h.snap.build].state = "plan_failed" \/ h.pc # "stage"
        BY <1>1 DEF Sound, Placed, WorldGrows
      <3>2. h.pc = "stage" => h.snap.build \in Builds
        BY <1>1 DEF Sound, Placed
      <3> QED
        BY <3>1, <3>2
    <2>3. stored \in Reports /\ h.snap.report \in Reports
      BY <1>1 DEF Grows, WorldType, HandType, ExecutionType
    <2>4. /\ h.pc = "commit" => stored' = h.snap.report
      BY <1>1 DEF Sound, Placed, WorldGrows
    <2> QED
      BY <1>1, <2>1, <2>2, <2>4 DEF Sound, Placed, RecGrows, WorldGrows
  <1> QED
    BY <1>2, <1>3, <1>4 DEF Sound

\* The step of a request that is past its callback, if it serves one.
LEMMA InnerSound ==
  ASSUME Inv, Grows, NEW w \in Workers, Inner(w), hand[w].pc \notin Early, hand[w].pc \notin Done,
         Placed(hand[w])'
  PROVE  (Hands /\ CallsAlone /\ hand \in [Workers -> HandType])'
  <1> DEFINE h == hand[w]
             g == hand'[w]
  <1>1. h \in HandType /\ Sound(h) /\ RecGrows /\ WorldGrows /\ g \in HandType
    BY DEF Inv, Typed, Hands, Grows, Inner, Onward
  <1>2. Knows(hand[w])'
    <2>1. CASE g.snap = h.snap
      BY <2>1, KnowsStays DEF Knows
    <2>2. CASE g.snap = Blank
      <3>1. rec'.retries \in Nat /\ rec'.sequence \in Nat
        BY RecNumbers DEF Grows
      <3> QED
        BY <2>2, <3>1 DEF Knows, Blank, Reserved
    <2>3. CASE g.snap = rec
      BY <1>1, <2>3 DEF Knows, RecGrows
    <2>4. CASE g.snap = rec'
      <3>1. rec'.retries \in Nat /\ rec'.sequence \in Nat
        BY RecNumbers DEF Grows
      <3> QED
        BY <2>4, <3>1 DEF Knows
    <2>5. ASSUME NEW b \in Builds, g.snap = [h.snap EXCEPT !.build = b]
          PROVE  Knows(hand[w])'
      <3>1. h.snap \in ExecutionType
        BY <1>1 DEF HandType
      <3>2. /\ g.snap.plan = h.snap.plan /\ g.snap.report = h.snap.report
            /\ g.snap.retries = h.snap.retries /\ g.snap.sequence = h.snap.sequence
            /\ g.snap.eventToken = h.snap.eventToken
        BY <2>5, <3>1 DEF ExecutionType
      <3> QED
        BY <3>2, KnowsStays DEF Knows
    <2> QED
      BY <2>1, <2>2, <2>3, <2>4, <2>5 DEF Inner
  <1>3. Called(hand[w])'
    <2>1. g.pc \notin Early
      BY DEF Inner
    <2>2. CASE ~Caller(h) /\ g = Idle
      BY <2>2 DEF Called, Idle, Caller, Done, Early
    <2>3. CASE g.kind = h.kind /\ g.b = h.b /\ g.ev = h.ev
               /\ (g.pc \notin Done => g.image = h.image)
               /\ (g.pc \in {"ok", "error"} => Caller(h)) /\ g.pc # "idle"
      <3>1. rec.sequence \in Nat /\ rec'.sequence \in Nat /\ rec.sequence <= rec'.sequence
        BY <1>1, RecNumbers DEF Grows, RecGrows
      <3>2. LastEvent' = LastEvent
        BY <1>1 DEF LastEvent, RecGrows
      <3>3. ASSUME Caller(h)
            PROVE  /\ h.b \in Builds /\ builds[h.b].state # "none"
                   /\ builds'[h.b].state # "none" /\ builds'[h.b].state # "success"
                   /\ builds'[h.b].state = "working" => builds[h.b].state = "working"
        <4>1. h.b \in Builds /\ builds[h.b].state # "none" /\ builds[h.b].state # "success"
          BY <1>1, <3>3 DEF Sound, Called, Live
        <4>2. Calling(h.b)
          BY <3>3 DEF Calling, Caller
        <4> QED
          BY <1>1, <4>1, <4>2 DEF WorldGrows
      <3>4. h.kind = "event" =>
               /\ h.ev \in Results /\ h.ev.q <= LastEvent
               /\ h.ev.q = 3 => rec'.report # "none"
        BY <1>1 DEF Sound, Called, RecGrows
      <3>5. h.kind = "event" =>
               /\ h.ev.q <= rec'.sequence
               /\ builds'[h.b].state = "working" /\ h.ev.e # "failed" =>
                     /\ h.ev.q >= 2 => rec'.report # "none"
                     /\ h.ev.q = 3 => rec'.plan # "missing"
        <4>1. SUFFICES ASSUME h.kind = "event"
                       PROVE  /\ h.ev.q <= rec'.sequence
                              /\ builds'[h.b].state = "working" /\ h.ev.e # "failed" =>
                                    /\ h.ev.q >= 2 => rec'.report # "none"
                                    /\ h.ev.q = 3 => rec'.plan # "missing"
          OBVIOUS
        <4>2. h.pc \notin Early \cup {"error"}
          BY DEF Done
        <4>3. h.ev.q \in Nat /\ h.ev.q <= rec.sequence
          BY <1>1, <3>4, <4>1, <4>2, ResultForm DEF Sound, Called
        <4>4. Caller(h)
          BY <4>1 DEF Caller
        <4> QED
          BY <1>1, <3>1, <3>3, <4>1, <4>2, <4>3, <4>4 DEF Sound, Called, RecGrows
      <3>6. g.pc \notin Done => g.image \in Images
        BY <1>1, <2>3 DEF Sound, Called
      <3> QED
        BY <2>1, <2>3, <3>2, <3>3, <3>4, <3>5, <3>6 DEF Called, Live, Caller, Early
    <2> QED
      BY <2>2, <2>3 DEF Inner, Onward, Done
  <1>4. Sound(hand[w])'
    BY <1>2, <1>3 DEF Sound
  <1>5. Hands'
    BY <1>4, StaysSound DEF Hands, Inner, Others
  <1>6. hand' \in [Workers -> HandType]
    BY <1>1 DEF Inner, Others, Inv, Typed
  <1>7. CallsAlone'
    <2>1. Caller(g) => Caller(h) /\ g.b = h.b
      BY DEF Inner, Onward, Caller, Idle
    <2> QED
      BY <2>1 DEF Inner, Others, CallsAlone, Caller, Inv
  <1> QED
    BY <1>5, <1>6, <1>7

-----------------------------------------------------------------------------
(* The steps of the requests, action by action.                            *)

\* A step inside a handler, after which the request is where it may be.
Moves(w) == /\ Inner(w) /\ Placed(hand[w])'
            /\ hand[w].pc \notin Early /\ hand[w].pc \notin Done

LEMMA CalmMoves ==
  ASSUME NEW w \in Workers, Calm(w), hand[w].pc \notin Early, hand[w].pc \notin Done
  PROVE  Moves(w)
  BY DEF Moves, Calm, Placed, Special, ClaimPcs, PlanPcs, TagPcs

LEMMA CalmVia ==
  ASSUME Typed, NEW w \in Workers, NEW v \in {"none", "branch", "uncertain", "retry"},
         hand' = [hand EXCEPT ![w].pc = "get", ![w].via = v]
  PROVE  Calm(w)
  <1>1. "get" \in Easy
    BY DEF Easy
  <1>2. Steps(w, "get", hand[w].snap)
    BY <1>1, EasyPcs DEF Steps, Others, Typed, HandType
  <1> QED
    BY <1>1, <1>2, StepsInner, EasyPcs DEF Calm, Steps

\* A build that was found, or made, is there and is of the attempt asked for.
LEMMA FoundMoves ==
  ASSUME Typed, NEW w \in Workers, NEW b \in Builds,
         NEW v \in {"none", "branch", "uncertain", "retry"},
         hand' = [hand EXCEPT ![w].pc = "bind", ![w].found = b, ![w].via = v],
         builds'[b].state # "none",
         hand[w].snap.retries > 0 => builds'[b].attempt = hand[w].snap.retries,
         hand[w].pc \notin Early, hand[w].pc \notin Done
  PROVE  Moves(w)
  <1>1. Steps(w, "bind", hand[w].snap) /\ hand'[w].found = b
    <2> DEFINE g == [hand[w] EXCEPT !.pc = "bind", !.found = b, !.via = v]
    <2>1. hand[w] \in HandType /\ hand \in [Workers -> HandType]
      BY DEF Typed
    <2>2. hand' = [hand EXCEPT ![w] = g]
      BY <2>1
    <2>3. /\ g.pc = "bind" /\ g.found = b /\ g.snap = hand[w].snap /\ g.kind = hand[w].kind
          /\ g.b = hand[w].b /\ g.ev = hand[w].ev /\ g.image = hand[w].image
      BY <2>1 DEF HandType
    <2>4. g \in HandType
      BY <2>1 DEF HandType, Pcs, Special
    <2> HIDE DEF g
    <2> QED
      BY <2>1, <2>2, <2>3, <2>4 DEF Steps, Others
  <1>2. "bind" \notin Early /\ "bind" \notin Done
    BY DEF Early, Done
  <1>3. Inner(w)
    BY <1>1, <1>2, StepsInner
  <1>4. Placed(hand[w])'
    BY <1>1 DEF Steps, Placed, Live, ClaimPcs, PlanPcs, TagPcs
  <1> QED
    BY <1>3, <1>4 DEF Moves

\* _publish_if_allowed, on the record read or just saved.
LEMMA PublishMoves ==
  ASSUME Inv, Grows, IInv', NEW w \in Workers, NEW s \in {rec, rec'}, Publish(w, s),
         hand[w].pc \notin Early, hand[w].pc \notin Done
  PROVE  Moves(w)
  <1>0. Typed /\ IInv /\ rec \in ExecutionType /\ rec' \in ExecutionType /\ RecGrows
    BY DEF Inv, Grows
  <1>1. /\ s.canary => rec'.canary
        /\ s.status = "publish_pending" \/ s.pubUncertain => rec'.claimed
    BY <1>0 DEF IInv, PublicationRequiresEvidence, RecGrows
  <1>2. {"claimPublish", "branch"} \subseteq Pcs
    BY DEF Pcs, Special, ClaimPcs
  <1>3. "claimPublish" \notin Early \cup Done /\ "branch" \notin Early \cup Done
    BY DEF Early, Done
  <1>4. CASE (AutoPublish \/ s.canary) /\ Read(w, "claimPublish", s)
    <2>1. Steps(w, "claimPublish", s)
      BY <1>0, <1>2, <1>4, ReadSteps
    <2> QED
      BY <1>1, <1>3, <1>4, <2>1, StepsInner
         DEF Moves, Steps, Placed, ClaimPcs, PlanPcs, TagPcs
  <1>5. CASE (AutoPublish \/ s.canary) /\ Read(w, "branch", s)
             /\ (s.status = "publish_pending" \/ s.pubUncertain)
    <2>1. Steps(w, "branch", s)
      BY <1>0, <1>2, <1>5, ReadSteps
    <2> QED
      BY <1>1, <1>3, <1>5, <2>1, StepsInner
         DEF Moves, Steps, Placed, ClaimPcs, PlanPcs, TagPcs
  <1>6. CASE Return(w)
    BY <1>0, <1>6, CalmReturn, CalmMoves
  <1> QED
    BY <1>4, <1>5, <1>6 DEF Publish

\* What follows the evidence is done only with evidence in the record.
LEMMA DecideMoves ==
  ASSUME Inv, Grows, NEW w \in Workers, NEW s \in {rec, rec'}, Decide(w, s),
         s.status \in {"quality_passed", "running_quality"} => rec'.evidence,
         hand[w].pc \notin Early, hand[w].pc \notin Done
  PROVE  Moves(w)
  <1>0. Typed /\ s \in ExecutionType
    BY DEF Inv, Grows
  <1>1. CASE Return(w)
    BY <1>0, <1>1, CalmReturn, CalmMoves
  <1>2. ASSUME NEW p \in {"planFailed", "noPlan"}, Read(w, p, s) PROVE Moves(w)
    <2>1. p \in Easy
      BY DEF Easy
    <2> QED
      BY <1>0, <1>2, <2>1, CalmRead, CalmMoves
  <1>3. ASSUME NEW p \in {"noRelease", "plan"}, Read(w, p, s), rec'.evidence PROVE Moves(w)
    <2>1. p \in Pcs /\ p \notin Early /\ p \notin Done
      BY DEF Pcs, Special, Early, Done
    <2>2. Steps(w, p, s)
      BY <1>0, <1>3, <2>1, ReadSteps
    <2> QED
      BY <1>3, <2>1, <2>2, StepsInner DEF Moves, Steps, Placed, ClaimPcs, PlanPcs, TagPcs
  <1> QED
    BY <1>1, <1>2, <1>3 DEF Decide

LEMMA MovesSubmission ==
  ASSUME Inv, Grows, NEW w \in Workers, Submission(w)
  PROVE  Moves(w)
  <1>0. Typed /\ rec \in ExecutionType /\ rec' \in ExecutionType /\ WorldType /\ hand[w] \in HandType
    BY DEF Inv, Grows, Typed
  <1> USE <1>0, CalmRaise, CalmReturn, CalmMoves
  <1>e. {"get", "list", "claim", "post", "uncertain", "refused", "readBuild", "absent",
  "reopen",
         "seek", "seekOld"} \subseteq Easy
    BY DEF Easy
  <1>1. ASSUME StartChecks(w) PROVE Moves(w)
    BY <1>1, <1>e, CalmGoto DEF StartChecks, At, Early, Done
  <1>2. ASSUME Get(w) PROVE Moves(w)
    BY <1>2, <1>e, CalmRead, CalmSubmitted DEF Get, At, Early, Done
  <1>3. ASSUME List(w) PROVE Moves(w)
    <2>1. ASSUME NEW b \in Matching(hand[w]),
                 hand' = [hand EXCEPT ![w].pc = "bind", ![w].found = b]
          PROVE  Moves(w)
      <3>1. b \in Builds /\ builds[b].state # "none"
            /\ (hand[w].snap.retries > 0 => builds[b].attempt = hand[w].snap.retries)
        BY DEF Matching, Carries
      <3>2. builds' = builds /\ hand[w].pc \notin Early /\ hand[w].pc \notin Done
        BY <1>3 DEF List, ReadOnly, world, At, Early, Done
      <3>3. hand' = [hand EXCEPT ![w].pc = "bind", ![w].found = b, ![w].via = hand[w].via]
        BY <2>1 DEF Typed, HandType
      <3> QED
        BY <3>1, <3>2, <3>3, FoundMoves DEF HandType
    <2> QED
      BY <1>3, <1>e, <2>1, CalmGoto DEF List, At, Early, Done
  <1>4. ASSUME Claim(w) PROVE Moves(w)
    BY <1>4, <1>e, CalmGoto DEF Claim, At, Early, Done
  <1>5. ASSUME Post(w) PROVE Moves(w)
    <2> DEFINE b == CHOOSE x \in Builds : x \notin Live
    <2>1. ASSUME Live # Builds, builds' = [builds EXCEPT ![b] = Created(hand[w])],
                 hand' = [hand EXCEPT ![w].pc = "bind", ![w].found = b]
          PROVE  Moves(w)
      <3>1. b \in Builds
        <4>1. \E x \in Builds : x \notin Live
          BY <2>1 DEF Live
        <4> QED
          BY <4>1
      <3> HIDE DEF b
      <3>2. builds'[b].state # "none" /\ builds'[b].attempt = hand[w].snap.retries
        BY <2>1, <3>1 DEF WorldType, Created
      <3>3. hand[w].pc \notin Early /\ hand[w].pc \notin Done
        BY <1>5 DEF Post, At, Early, Done
      <3>4. hand' = [hand EXCEPT ![w].pc = "bind", ![w].found = b, ![w].via = hand[w].via]
        BY <2>1 DEF Typed, HandType
      <3> QED
        BY <3>1, <3>2, <3>3, <3>4, FoundMoves DEF HandType
    <2>2. ASSUME Doubtful(w) PROVE Moves(w)
      <3>1. PICK pc \in {"uncertain", "refused"} : Goto(w, pc)
        BY <2>2 DEF Doubtful
      <3> QED
        BY <1>5, <1>e, <3>1, CalmGoto DEF Post, At, Early, Done
    <2> QED
      BY <1>5, <2>1, <2>2 DEF Post
  <1>6. ASSUME MarkUncertain(w) PROVE Moves(w)
    BY <1>6 DEF MarkUncertain, At, Early, Done
  <1>7. ASSUME MarkRefused(w) PROVE Moves(w)
    BY <1>7 DEF MarkRefused, At, Early, Done
  <1>8. ASSUME Bind(w) PROVE Moves(w)
    BY <1>8, CalmSubmitted DEF Bind, At, Early, Done
  <1>9. ASSUME Unsure(w) PROVE Moves(w)
    BY <1>9, <1>e, CalmRead DEF Unsure, At, Early, Done
  <1>10. ASSUME Seek(w) PROVE Moves(w)
    <2>1. ASSUME NEW b \in Matching(hand[w]),
                 hand' = [hand EXCEPT ![w].pc = "bind", ![w].found = b, ![w].via = "uncertain"]
          PROVE  Moves(w)
      <3>1. b \in Builds /\ builds[b].state # "none"
            /\ (hand[w].snap.retries > 0 => builds[b].attempt = hand[w].snap.retries)
        BY DEF Matching, Carries
      <3>2. builds' = builds /\ hand[w].pc \notin Early /\ hand[w].pc \notin Done
        BY <1>10 DEF Seek, ReadOnly, world, At, Early, Done
      <3> QED
        BY <2>1, <3>1, <3>2, FoundMoves
    <2> QED
      BY <1>10, <1>e, <2>1, CalmGoto DEF Seek, At, Early, Done
  <1>11. ASSUME Absent(w) PROVE Moves(w)
    BY <1>11, <1>e, CalmRead DEF Absent, At, Early, Done
  <1>12. ASSUME Reopen(w) PROVE Moves(w)
    BY <1>12, CalmVia DEF Reopen, At, Early, Done
  <1> QED
    BY <1>1, <1>2, <1>3, <1>4, <1>5, <1>6, <1>7, <1>8, <1>9, <1>10, <1>11, <1>12 DEF Submission

LEMMA MovesPublishing ==
  ASSUME Inv, Grows, IInv', NEW w \in Workers, Publishing(w)
  PROVE  Moves(w)
  <1>0. /\ Typed /\ rec \in ExecutionType /\ rec' \in ExecutionType /\ WorldType
        /\ Sound(hand[w]) /\ RecGrows /\ WorldGrows
    BY DEF Inv, Grows, Hands
  <1> USE <1>0, CalmRaise, CalmReturn, CalmMoves
  <1>p. ClaimPcs \subseteq Pcs
    BY DEF Pcs, Special
  <1>g. ASSUME NEW p \in ClaimPcs, Goto(w, p), hand[w].pc \notin Early, hand[w].pc \notin Done,
               rec'.claimed,
               p \in {"reread", "branch"} \cup PlanPcs => AutoPublish \/ rec'.canary,
               p \in PlanPcs => rec'.plan = "semantic",
               p \in TagPcs => github'.tag = "ours",
               p = "released" => github'.release = "ours"
        PROVE  Moves(w)
    <2>1. Steps(w, p, hand[w].snap)
      BY <1>p, <1>g, GotoSteps
    <2>2. p \notin Early /\ p \notin Done
      BY DEF ClaimPcs, PlanPcs, TagPcs, Early, Done
    <2>3. Inner(w)
      BY <2>1, <2>2, StepsInner
    <2>4. Placed(hand[w])'
      BY <1>g, <2>1 DEF Steps, Placed, ClaimPcs, PlanPcs, TagPcs
    <2> QED
      BY <1>g, <2>3, <2>4 DEF Moves
  <1>h. ASSUME hand[w].pc \in ClaimPcs
        PROVE  /\ rec.claimed /\ rec'.claimed /\ hand[w].pc \notin Early /\ hand[w].pc \notin Done
               /\ hand[w].pc \in {"reread", "branch"} \cup PlanPcs => AutoPublish \/ rec'.canary
               /\ hand[w].pc \in PlanPcs => rec'.plan = "semantic"
               /\ hand[w].pc \in TagPcs => github'.tag = "ours"
    BY <1>h DEF Sound, Placed, RecGrows, WorldGrows, ClaimPcs, PlanPcs, TagPcs, Early, Done
  <1>d. "doubt" \in ClaimPcs /\ "conflict" \in ClaimPcs
        /\ "doubt" \notin {"reread", "branch"} \cup PlanPcs
        /\ "conflict" \notin {"reread", "branch"} \cup PlanPcs
    BY DEF ClaimPcs, PlanPcs, TagPcs
  <1>dm. ASSUME hand[w].pc \in ClaimPcs, Goto(w, "doubt") \/ Goto(w, "conflict") PROVE Moves(w)
    BY <1>d, <1>g, <1>h, <1>dm DEF PlanPcs, TagPcs
  <1>1. ASSUME ClaimRelease(w) PROVE Moves(w)
    <2>1. hand[w].pc = "claimPublish" /\ hand[w].pc \notin Early /\ hand[w].pc \notin Done
      BY <1>1 DEF ClaimRelease, At, Early, Done
    <2>2. CASE ClaimPublish /\ Goto(w, "reread")
      <3>1. rec'.claimed
        BY <2>2 DEF ClaimPublish, ExecutionType
      <3>2. AutoPublish \/ rec'.canary
        BY <2>1 DEF Sound, Placed, RecGrows
      <3> QED
        BY <1>g, <2>1, <2>2, <3>1, <3>2 DEF ClaimPcs, PlanPcs, TagPcs
    <2> QED
      BY <1>1, <2>1, <2>2 DEF ClaimRelease
  <1>2. ASSUME Reread(w) PROVE Moves(w)
    <2>1. hand[w].pc = "reread" /\ hand[w].pc \in ClaimPcs /\ rec' = rec
      BY <1>2 DEF Reread, At, ClaimPcs, ReadOnly
    <2>2. CASE Read(w, "branch", rec)
      <3>1. Steps(w, "branch", rec)
        BY <1>p, <2>2, ReadSteps DEF ClaimPcs
      <3> QED
        BY <1>h, <2>1, <3>1, StepsInner
           DEF Moves, Steps, Placed, ClaimPcs, PlanPcs, TagPcs, Early, Done
    <2> QED
      BY <1>2, <1>h, <2>1, <2>2 DEF Reread
  <1>3. ASSUME CheckBranch(w) PROVE Moves(w)
    <2>1. hand[w].pc = "branch" /\ hand[w].pc \in ClaimPcs /\ rec' = rec
      BY <1>3 DEF CheckBranch, At, ClaimPcs, ReadOnly
    <2>2. CASE hand[w].snap.plan = "semantic" /\ Goto(w, "tag")
      <3>1. rec'.plan = "semantic"
        BY <2>1, <2>2 DEF Sound, Knows
      <3>2. "tag" \in ClaimPcs /\ "tag" \notin TagPcs
        BY DEF ClaimPcs, PlanPcs, TagPcs
      <3> QED
        BY <1>g, <1>h, <2>1, <2>2, <3>1, <3>2
    <2> QED
      BY <1>3, <1>dm, <2>1, <2>2 DEF CheckBranch
  <1>4. ASSUME LookupTag(w) PROVE Moves(w)
    <2>1. hand[w].pc = "tag" /\ hand[w].pc \in ClaimPcs /\ hand[w].pc \in PlanPcs /\ github' = github
      BY <1>4 DEF LookupTag, Lookup, At, ClaimPcs, PlanPcs, ReadOnly, world
    <2>2. ASSUME Goto(w, "createTag") PROVE Moves(w)
      <3>1. "createTag" \in ClaimPcs /\ "createTag" \notin TagPcs
        BY DEF ClaimPcs, PlanPcs, TagPcs
      <3> QED
        BY <1>g, <1>h, <2>1, <2>2, <3>1
    <2>3. ASSUME Goto(w, "release"), github.tag = "ours" PROVE Moves(w)
      <3>1. "release" \in ClaimPcs
        BY DEF ClaimPcs, PlanPcs, TagPcs
      <3> QED
        BY <1>g, <1>h, <2>1, <2>3, <3>1
    <2> QED
      BY <1>4, <1>dm, <2>1, <2>2, <2>3 DEF LookupTag, Lookup
  <1>5. ASSUME CreateTag(w) PROVE Moves(w)
    <2>1. hand[w].pc = "createTag" /\ hand[w].pc \in ClaimPcs /\ hand[w].pc \in PlanPcs
      BY <1>5 DEF CreateTag, Create, At, ClaimPcs, PlanPcs
    <2>2. ASSUME Goto(w, "release"), github' = [github EXCEPT !.tag = "ours"] PROVE Moves(w)
      <3>1. "release" \in ClaimPcs
        BY DEF ClaimPcs, PlanPcs, TagPcs
      <3>2. github'.tag = "ours"
        BY <2>2 DEF WorldType
      <3> QED
        BY <1>g, <1>h, <2>1, <2>2, <3>1, <3>2
    <2> QED
      BY <1>5, <1>dm, <2>1, <2>2 DEF CreateTag, Create
  <1>6. ASSUME LookupRelease(w) PROVE Moves(w)
    <2>1. /\ hand[w].pc = "release" /\ hand[w].pc \in ClaimPcs /\ hand[w].pc \in PlanPcs
          /\ hand[w].pc \in TagPcs /\ github' = github
      BY <1>6 DEF LookupRelease, Lookup, At, ClaimPcs, PlanPcs, TagPcs, ReadOnly, world
    <2>2. ASSUME Goto(w, "createRelease") PROVE Moves(w)
      <3>1. "createRelease" \in ClaimPcs
        BY DEF ClaimPcs, PlanPcs, TagPcs
      <3> QED
        BY <1>g, <1>h, <2>1, <2>2, <3>1
    <2>3. ASSUME Goto(w, "released"), github.release = "ours" PROVE Moves(w)
      <3>1. "released" \in ClaimPcs
        BY DEF ClaimPcs, PlanPcs, TagPcs
      <3> QED
        BY <1>g, <1>h, <2>1, <2>3, <3>1
    <2> QED
      BY <1>6, <1>dm, <2>1, <2>2, <2>3 DEF LookupRelease, Lookup
  <1>7. ASSUME CreateRelease(w) PROVE Moves(w)
    <2>1. /\ hand[w].pc = "createRelease" /\ hand[w].pc \in ClaimPcs /\ hand[w].pc \in PlanPcs
          /\ hand[w].pc \in TagPcs
      BY <1>7 DEF CreateRelease, Create, At, ClaimPcs, PlanPcs, TagPcs
    <2>2. ASSUME Goto(w, "released"), github' = [github EXCEPT !.release = "ours"] PROVE Moves(w)
      <3>1. "released" \in ClaimPcs
        BY DEF ClaimPcs, PlanPcs, TagPcs
      <3>2. github'.release = "ours"
        BY <2>2 DEF WorldType
      <3> QED
        BY <1>g, <1>h, <2>1, <2>2, <3>1, <3>2
    <2> QED
      BY <1>7, <1>dm, <2>1, <2>2 DEF CreateRelease, Create
  <1>8. ASSUME Conflict(w) PROVE Moves(w)
    BY <1>8 DEF Conflict, Saved, At, Early, Done
  <1>9. ASSUME Doubt(w) PROVE Moves(w)
    BY <1>9 DEF Doubt, Saved, At, Early, Done
  <1>10. ASSUME Released(w) PROVE Moves(w)
    BY <1>10 DEF Released, Saved, At, Early, Done
  <1> QED
    BY <1>1, <1>2, <1>3, <1>4, <1>5, <1>6, <1>7, <1>8, <1>9, <1>10 DEF Publishing

LEMMA MovesRecovery ==
  ASSUME Inv, Grows, NEW w \in Workers, Recovery(w)
  PROVE  Moves(w)
  <1>0. /\ Typed /\ rec \in ExecutionType /\ rec' \in ExecutionType /\ hand[w] \in HandType
        /\ hand[w].snap \in ExecutionType
    BY DEF Inv, Grows, Typed, HandType
  <1> USE <1>0, CalmRaise, CalmReturn, CalmMoves
  <1>1. ASSUME Inspect(w) PROVE Moves(w)
    <2>1. hand[w].pc \notin Early /\ hand[w].pc \notin Done /\ builds' = builds
      BY <1>1 DEF Inspect, At, Early, Done, ReadOnly, world
    <2>2. ASSUME PlannerRetryCandidate(hand[w].snap)
          PROVE  hand[w].snap.build \in Builds /\ hand[w].snap.retries <= 2
      BY <2>2 DEF PlannerRetryCandidate, AttemptAvailable, ExecutionType
    <2>3. {"stage", "spend"} \subseteq Pcs /\ {"stage", "spend"} \cap (Early \cup Done) = {}
      BY DEF Pcs, Special, Early, Done
    <2>4. ASSUME NEW p \in {"stage", "spend"}, Goto(w, p), PlannerRetryCandidate(hand[w].snap),
                 p = "stage" => builds[hand[w].snap.build].state = "plan_failed"
          PROVE  Moves(w)
      <3>1. Steps(w, p, hand[w].snap)
        BY <2>3, <2>4, GotoSteps
      <3> QED
        BY <2>1, <2>2, <2>3, <2>4, <3>1, StepsInner
           DEF Moves, Steps, Placed, ClaimPcs, PlanPcs, TagPcs
    <2> QED
      BY <1>1, <2>1, <2>4 DEF Inspect
  <1>2. ASSUME Stage(w) PROVE Moves(w)
    BY <1>2, CalmVia DEF Stage, At, Early, Done
  <1>3. ASSUME Spend(w) PROVE Moves(w)
    BY <1>3 DEF Spend, At, Early, Done
  <1>4. ASSUME Recover(w) PROVE Moves(w)
    BY <1>4, CalmGoto DEF Recover, At, Early, Done, Easy
  <1>5. ASSUME Recovered(w) PROVE Moves(w)
    BY <1>5, CalmRead DEF Recovered, At, Early, Done, Easy
  <1> QED
    BY <1>1, <1>2, <1>3, <1>4, <1>5 DEF Recovery

LEMMA MovesConsolidation ==
  ASSUME Inv, Grows, IInv', NEW w \in Workers, Consolidation(w)
  PROVE  Moves(w)
  <1>0. /\ Typed /\ rec \in ExecutionType /\ rec' \in ExecutionType /\ hand[w] \in HandType
        /\ hand[w].snap \in ExecutionType
    BY DEF Inv, Grows, Typed, HandType
  <1> USE <1>0, CalmRaise, CalmReturn, CalmMoves
  <1>e. {"inspect", "recover", "unsure", "readBuild", "clear", "reget", "blame", "buildFailed"}
            \subseteq Easy
    BY DEF Easy
  <1>1. ASSUME Reconcile(w) PROVE Moves(w)
    <2>1. hand[w].pc \notin Early /\ hand[w].pc \notin Done
      BY <1>1 DEF Reconcile, At, Early, Done
    <2> QED
      BY <1>1, <1>e, <2>1, CalmRead, CalmVia, PublishMoves DEF Reconcile
  <1>2. ASSUME ReadBuild(w) PROVE Moves(w)
    BY <1>2, <1>e, CalmGoto DEF ReadBuild, At, Early, Done
  <1>3. ASSUME Clear(w) PROVE Moves(w)
    BY <1>3, <1>e, CalmGoto DEF Clear, At, Early, Done
  <1>4. ASSUME Blame(w) PROVE Moves(w)
    BY <1>4, <1>e, CalmGoto DEF Blame, At, Early, Done
  <1>5. ASSUME BuildFailed(w) PROVE Moves(w)
    BY <1>5 DEF BuildFailed, Saved, At, Early, Done
  <1>6. ASSUME Reget(w) PROVE Moves(w)
    <2>1. hand[w].pc \notin Early /\ hand[w].pc \notin Done /\ rec' = rec
      BY <1>6 DEF Reget, At, Early, Done, ReadOnly
    <2>2. ASSUME rec.report # "none", Read(w, "evidence", rec) PROVE Moves(w)
      <3>1. "evidence" \in Pcs /\ "evidence" \notin Early /\ "evidence" \notin Done
        BY DEF Pcs, Special, Early, Done
      <3>2. Steps(w, "evidence", rec)
        BY <2>2, <3>1, ReadSteps
      <3> QED
        BY <2>1, <2>2, <3>1, <3>2, StepsInner
           DEF Moves, Steps, Placed, ClaimPcs, PlanPcs, TagPcs
    <2> QED
      BY <1>6, <2>1, <2>2, DecideMoves DEF Reget
  <1>7. ASSUME StoreEvidence(w) PROVE Moves(w)
    <2>1. hand[w].pc \notin Early /\ hand[w].pc \notin Done
      BY <1>7 DEF StoreEvidence, At, Early, Done
    <2>2. ASSUME Goto(w, "commit"), stored' = hand[w].snap.report PROVE Moves(w)
      <3>1. "commit" \in Pcs /\ "commit" \notin Early /\ "commit" \notin Done
        BY DEF Pcs, Special, Early, Done
      <3>2. Steps(w, "commit", hand[w].snap)
        BY <2>2, <3>1, GotoSteps
      <3>3. hand[w].snap.report # "none"
        BY <1>7 DEF StoreEvidence, At, Inv, Hands, Sound, Placed
      <3> QED
        BY <2>1, <2>2, <3>1, <3>2, <3>3, StepsInner
           DEF Moves, Steps, Placed, ClaimPcs, PlanPcs, TagPcs
    <2> QED
      BY <1>7, <2>1, <2>2 DEF StoreEvidence, SaveImmutableReport
  <1>8. ASSUME Commit(w) PROVE Moves(w)
    <2>1. hand[w].pc \notin Early /\ hand[w].pc \notin Done
      BY <1>8 DEF Commit, At, Early, Done
    <2>2. ASSUME CommitQuality(hand[w].snap.report), Decide(w, rec') PROVE Moves(w)
      <3>1. rec'.status \in {"quality_passed", "running_quality"} => rec'.evidence
        BY <2>2 DEF CommitQuality, ExecutionType
      <3> QED
        BY <2>1, <2>2, <3>1, DecideMoves
    <2> QED
      BY <1>8, <2>1, <2>2 DEF Commit, Saved
  <1>9. ASSUME PlanFailed(w) PROVE Moves(w)
    BY <1>9, <1>e, CalmRead DEF PlanFailed, Saved, At, Early, Done
  <1>10. ASSUME NoRelease(w) PROVE Moves(w)
    BY <1>10 DEF NoRelease, Saved, At, Early, Done
  <1>11. ASSUME NoPlan(w) PROVE Moves(w)
    BY <1>11 DEF NoPlan, Saved, At, Early, Done
  <1>12. ASSUME Plan(w) PROVE Moves(w)
    <2>1. hand[w].pc \notin Early /\ hand[w].pc \notin Done
      BY <1>12 DEF Plan, At, Early, Done
    <2> QED
      BY <1>12, <2>1, PublishMoves DEF Plan
  <1>13. ASSUME RecordUnknown(w) PROVE Moves(w)
    BY <1>13, CalmAnswer DEF RecordUnknown, At, Early, Done
  <1>14. ASSUME GiveUp(w) PROVE Moves(w)
    BY <1>14 DEF GiveUp, At, Early, Done
  <1> QED
    BY <1>1, <1>2, <1>3, <1>4, <1>5, <1>6, <1>7, <1>8, <1>9, <1>10, <1>11, <1>12, <1>13, <1>14
       DEF Consolidation

LEMMA MovesDecision ==
  ASSUME Inv, Grows, NEW w \in Workers, Decision(w)
  PROVE  Moves(w)
  <1>0. /\ Typed /\ rec \in ExecutionType /\ rec' \in ExecutionType /\ hand[w] \in HandType
        /\ hand[w].snap \in ExecutionType
    BY DEF Inv, Grows, Typed, HandType
  <1> USE <1>0, CalmReturn, CalmMoves
  <1>e. {"reconcile", "stop", "stopList", "stopSave"} \subseteq Easy
    BY DEF Easy
  <1>p. {"stopBind", "stopBuild"} \subseteq Pcs /\ {"stopBind",
  "stopBuild"} \cap (Early \cup Done) = {}
    BY DEF Pcs, Special, Early, Done
  <1>1. ASSUME Approve(w) PROVE Moves(w)
    BY <1>1, <1>e, CalmGoto DEF Approve, At, Early, Done
  <1>2. ASSUME Supersede(w) PROVE Moves(w)
    BY <1>2 DEF Supersede, At, Early, Done
  <1>3. ASSUME Cancel(w) PROVE Moves(w)
    BY <1>3, <1>e, CalmGoto DEF Cancel, At, Early, Done
  <1>4. ASSUME FindStopped(w) PROVE Moves(w)
    <2>1. hand[w].pc \notin Early /\ hand[w].pc \notin Done
      BY <1>4 DEF FindStopped, At, Early, Done
    <2>2. ASSUME rec.build # NoBuild, Read(w, "stopBuild", rec) PROVE Moves(w)
      <3>1. rec.build \in Builds
        BY <2>2 DEF ExecutionType
      <3>2. Steps(w, "stopBuild", rec)
        BY <1>p, <2>2, ReadSteps
      <3> QED
        BY <1>p, <2>1, <3>1, <3>2, StepsInner
           DEF Moves, Steps, Placed, ClaimPcs, PlanPcs, TagPcs
    <2> QED
      BY <1>4, <1>e, <2>1, <2>2, CalmRead DEF FindStopped
  <1>5. ASSUME ListStopped(w) PROVE Moves(w)
    <2>1. hand[w].pc \notin Early /\ hand[w].pc \notin Done /\ builds' = builds
      BY <1>5 DEF ListStopped, At, Early, Done, ReadOnly, world
    <2>2. ASSUME NEW b \in Matching(hand[w]),
                 hand' = [hand EXCEPT ![w].pc = "stopBind", ![w].snap.build = b]
          PROVE  Moves(w)
      <3> DEFINE s == [hand[w].snap EXCEPT !.build = b]
                 g == [hand[w] EXCEPT !.pc = "stopBind", !.snap = s]
      <3>1. b \in Builds /\ builds[b].state # "none"
        BY DEF Matching, Carries
      <3>2. s \in ExecutionType /\ s.build = b
        BY <3>1 DEF ExecutionType
      <3>3. hand' = [hand EXCEPT ![w] = g]
        BY <2>2 DEF Typed
      <3> HIDE DEF s
      <3>4. /\ g.pc = "stopBind" /\ g.snap = s /\ g.kind = hand[w].kind
            /\ g.b = hand[w].b /\ g.ev = hand[w].ev /\ g.image = hand[w].image
        BY DEF HandType
      <3>5. g \in HandType
        BY <1>p, <3>2 DEF HandType
      <3> HIDE DEF g
      <3>6. Steps(w, "stopBind", s)
        BY <3>3, <3>4, <3>5 DEF Steps, Others, Typed
      <3>7. Inner(w)
        BY <1>p, <3>1, <3>6 DEF Steps, Inner, Onward, s
      <3>8. Placed(hand[w])'
        BY <2>1, <3>1, <3>2, <3>6 DEF Steps, Placed, Live, ClaimPcs, PlanPcs, TagPcs
      <3> QED
        BY <2>1, <3>7, <3>8 DEF Moves
    <2> QED
      BY <1>5, <2>1, <2>2 DEF ListStopped
  <1>6. ASSUME BindStopped(w) PROVE Moves(w)
    <2>1. hand[w].pc \notin Early /\ hand[w].pc \notin Done /\ hand[w].snap.build \in Builds
      BY <1>6 DEF BindStopped, At, Early, Done, Inv, Hands, Sound, Placed, Live
    <2>2. ASSUME Goto(w, "stopBuild") PROVE Moves(w)
      <3>1. Steps(w, "stopBuild", hand[w].snap)
        BY <1>p, <2>2, GotoSteps
      <3> QED
        BY <1>p, <2>1, <3>1, StepsInner DEF Moves, Steps, Placed, ClaimPcs, PlanPcs, TagPcs
    <2> QED
      BY <1>6, <2>1, <2>2 DEF BindStopped
  <1>7. ASSUME StopBuild(w) PROVE Moves(w)
    BY <1>7, <1>e, CalmGoto DEF StopBuild, At, Early, Done
  <1>8. ASSUME SaveStopped(w) PROVE Moves(w)
    BY <1>8 DEF SaveStopped, At, Early, Done
  <1> QED
    BY <1>1, <1>2, <1>3, <1>4, <1>5, <1>6, <1>7, <1>8 DEF Decision

-----------------------------------------------------------------------------
(* The callbacks, and the requests that begin.                             *)

HandsOK == Hands /\ CallsAlone /\ hand \in [Workers -> HandType]

\* One request moves; if a build waits for it, it waited for it before.
LEMMA MovedOK ==
  ASSUME Inv, Grows, NEW w \in Workers, Others(w), hand'[w] \in HandType, Sound(hand[w])',
         Caller(hand'[w]) => Caller(hand[w]) /\ hand'[w].b = hand[w].b
  PROVE  HandsOK'
  <1>1. Hands'
    BY StaysSound DEF Hands, Others
  <1>2. hand' \in [Workers -> HandType]
    BY DEF Others, Inv, Typed
  <1>3. CallsAlone'
    BY DEF Others, CallsAlone, Caller, Inv
  <1> QED
    BY <1>1, <1>2, <1>3 DEF HandsOK

\* A build that waits for an answer goes on waiting until it has got it.
Persists == \A v \in Workers : Caller(hand[v]) =>
                \/ Reply(v)
                \/ /\ hand'[v].kind = hand[v].kind /\ hand'[v].b = hand[v].b
                   /\ hand'[v].ev = hand[v].ev

Kept == HandsOK' /\ Persists

\* What the event carried is in the record, or its build is told of a failure.
Delivered(h) ==
    /\ h.ev.q <= rec.sequence
    /\ builds[h.b].state = "working" /\ h.ev.e # "failed" =>
          /\ h.ev.q >= 2 => rec.report # "none"
          /\ h.ev.q = 3 => rec.plan # "missing"

\* A build that waits for an answer does not end, and its event stays due.
LEMMA CallerKeeps ==
  ASSUME Inv, Grows, NEW w \in Workers, Caller(hand[w])
  PROVE  /\ hand[w].b \in Live' /\ builds'[hand[w].b].state # "success"
         /\ builds'[hand[w].b].state = "working" => builds[hand[w].b].state = "working"
         /\ hand[w].kind = "event" =>
               /\ hand[w].ev \in Results /\ hand[w].ev.q <= LastEvent'
               /\ hand[w].ev.q = 3 => rec'.report # "none"
  <1> DEFINE h == hand[w]
  <1>1. Called(h) /\ RecGrows /\ WorldGrows
    BY DEF Inv, Hands, Sound, Grows
  <1>2. h.b \in Builds /\ builds[h.b].state # "none" /\ builds[h.b].state # "success"
    BY <1>1 DEF Called, Live
  <1>3. Calling(h.b)
    BY DEF Calling, Caller
  <1>4. LastEvent' = LastEvent
    BY <1>1 DEF LastEvent, RecGrows
  <1> QED
    BY <1>1, <1>2, <1>3, <1>4 DEF WorldGrows, Called, Live, RecGrows

\* The steps of a callback up to the record.
LEMMA EarlyOK ==
  ASSUME Inv, Grows, NEW w \in Workers, hand[w].pc \in Early,
         Others(w), hand'[w] \in HandType,
         hand'[w].kind = hand[w].kind, hand'[w].b = hand[w].b, hand'[w].ev = hand[w].ev,
         hand'[w].pc \notin Done => hand'[w].image = hand[w].image,
         hand'[w].snap \in {hand[w].snap, Blank, rec},
         hand'[w].pc \notin Special, hand'[w].pc # "idle",
         hand'[w].pc \in {"admit", "accept"} => hand[w].kind = "event",
         hand'[w].pc = "issue" => hand[w].kind = "token",
         hand[w].kind = "event" /\ hand'[w].pc \notin Early \cup {"error"} => Delivered(hand[w])'
  PROVE  Kept
  <1> DEFINE h == hand[w]
             g == hand'[w]
  <1>1. h \in HandType /\ Sound(h) /\ RecGrows /\ Caller(h) /\ h.pc \notin Done
    BY DEF Inv, Typed, Hands, Grows, Sound, Called, Early, Done
  <1>2. Knows(hand[w])'
    <2>1. rec'.retries \in Nat /\ rec'.sequence \in Nat
      BY RecNumbers DEF Grows
    <2>2. CASE g.snap = h.snap
      BY <2>2, KnowsStays DEF Knows
    <2>3. CASE g.snap = Blank
      BY <2>1, <2>3 DEF Knows, Blank, Reserved
    <2>4. CASE g.snap = rec
      BY <1>1, <2>4 DEF Knows, RecGrows
    <2> QED
      BY <2>2, <2>3, <2>4
  <1>3. Called(hand[w])'
    <2>1. h.image \in Images
      BY <1>1 DEF Sound, Called
    <2>2. /\ h.b \in Live' /\ builds'[h.b].state # "success"
          /\ h.kind = "event" =>
                /\ h.ev \in Results /\ h.ev.q <= LastEvent'
                /\ h.ev.q = 3 => rec'.report # "none"
      BY <1>1, CallerKeeps
    <2>3. h.kind = "event" /\ g.pc \notin Early \cup {"error"} =>
             /\ h.ev.q <= rec'.sequence
             /\ builds'[h.b].state = "working" /\ h.ev.e # "failed" =>
                   /\ h.ev.q >= 2 => rec'.report # "none"
                   /\ h.ev.q = 3 => rec'.plan # "missing"
      BY <2>2 DEF Delivered
    <2> QED
      BY <1>1, <2>1, <2>2, <2>3 DEF Called, Caller
  <1>4. Placed(hand[w])'
    BY DEF Placed, Special, ClaimPcs, PlanPcs, TagPcs
  <1>5. HandsOK'
    BY <1>1, <1>2, <1>3, <1>4, MovedOK DEF Sound
  <1>6. Persists
    BY DEF Persists, Others
  <1> QED
    BY <1>5, <1>6 DEF Kept

LEMMA EarlyGoto ==
  ASSUME Inv, Grows, NEW w \in Workers, hand[w].pc \in Early, NEW p \in Early, Goto(w, p),
         p \in {"admit", "accept"} => hand[w].kind = "event",
         p = "issue" => hand[w].kind = "token"
  PROVE  Kept
  <1>1. p \in Pcs /\ p \notin Special /\ p \notin Done /\ p # "error" /\ p # "idle"
    BY DEF Early, Pcs, Special, Done, ClaimPcs, PlanPcs, TagPcs
  <1>2. Steps(w, p, hand[w].snap)
    BY <1>1, GotoSteps DEF Inv
  <1> QED
    BY <1>1, <1>2, EarlyOK DEF Steps

LEMMA EarlyAnswer ==
  ASSUME Inv, Grows, NEW w \in Workers, hand[w].pc \in Early, NEW a \in {"ok", "error"},
         Answer(w, a), hand[w].kind = "event" /\ a = "ok" => Delivered(hand[w])'
  PROVE  Kept
  <1>1. Caller(hand[w]) /\ Typed
    BY DEF Inv, Hands, Sound, Called
  <1>2. Calm(w) /\ hand'[w].pc \in {a, "idle"}
    BY <1>1, CalmAnswer
  <1>3. hand'[w].pc = a
    BY <1>1, <1>2 DEF Answer, Caller, Typed, Idle
  <1>4. a \in Done /\ a \notin Special /\ a \notin Early
    BY DEF Done, Special, Early, ClaimPcs, PlanPcs, TagPcs
  <1>5. Others(w) /\ hand'[w] \in HandType /\ hand'[w].snap = Blank
        /\ hand'[w].kind = hand[w].kind /\ hand'[w].b = hand[w].b /\ hand'[w].ev = hand[w].ev
    BY <1>1, <1>2, <1>3, <1>4 DEF Calm, Inner, Onward
  <1>6. hand[w].kind = "event" /\ hand'[w].pc \notin Early \cup {"error"} => Delivered(hand[w])'
    BY <1>3, <1>4 DEF Delivered
  <1> QED
    BY <1>3, <1>4, <1>5, <1>6, EarlyOK DEF Early

\* An event that is repeated is in the record, or its build failed: a failure
\* that is recorded was reported by this build, which has one call out, or
\* has ended the build.
LEMMA RepeatedIsDelivered ==
  ASSUME Inv, NEW w \in Workers, hand[w].kind = "event", hand[w].ev.q <= rec.sequence,
         hand[w].b = rec.eventToken \/ hand[w].b \in rec.retired
  PROVE  Delivered(hand[w])
  <1> DEFINE h == hand[w]
  <1>1. h.ev \in Results /\ h.ev.q \in 1..3 /\ h.b \in Builds /\ Caller(h)
    BY ResultForm DEF Inv, Hands, Sound, Called, Caller, Live
  <1>2. SUFFICES ASSUME builds[h.b].state = "working", h.ev.e # "failed"
                 PROVE  /\ h.ev.q >= 2 => rec.report # "none"
                        /\ h.ev.q = 3 => rec.plan # "missing"
    BY DEF Delivered
  <1>3. h.b \notin rec.retired
    BY <1>2 DEF Inv, Runs
  <1>4. rec \in ExecutionType /\ rec.selection.provider = "cloud_build"
    BY CloudBuildAssumption DEF Inv, Typed, STypeOK, TypeOK, ExecutionType
  <1>5. h.b = rec.build
    BY <1>1, <1>3, <1>4, NoBuildAssumption DEF Inv, IInv, TokensBelongToRuns, RunIsBuild
  <1>6. ~Failing
    <2>1. SUFFICES ASSUME NEW v \in Workers, hand[v].kind = "event", hand[v].b = rec.build,
                          hand[v].ev.e = "failed"
                   PROVE  FALSE
      BY <1>2, <1>5 DEF Failing
    <2>2. v = w
      BY <1>1, <1>5, <2>1 DEF Inv, CallsAlone, Caller
    <2> QED
      BY <1>2, <2>1, <2>2
  <1>7. rec.engine # "failed"
    BY <1>6 DEF Inv, Told
  <1>8. rec.sequence \in Nat /\ rec.sequence <= 3
    BY <1>4, BoundAssumption DEF ExecutionType, Inv, Told, LastEvent
  <1> QED
    BY <1>1, <1>7, <1>8 DEF Inv, Told

LEMMA CallbackOK ==
  ASSUME Inv, Grows, NEW w \in Workers, Callback(w)
  PROVE  Kept
  <1> DEFINE h == hand[w]
  <1>0. /\ Typed /\ Sound(h) /\ h \in HandType /\ rec \in ExecutionType /\ rec' \in ExecutionType
        /\ RecGrows
    BY DEF Inv, Typed, Hands, Grows
  <1>a. h.pc \in Early /\ Caller(h)
    <2>1. h.pc \in Early
      BY DEF Callback, Verify, BindCaller, IssueToken, Admit, Accept, At, Early
    <2> QED
      BY <1>0, <2>1 DEF Sound, Called
  <1>b. Early = {"verify", "bindCaller", "issue", "admit", "accept"}
    BY DEF Early
  <1>c. ASSUME Answer(w, "error") PROVE Kept
    BY <1>a, <1>c, EarlyAnswer
  <1>d. ASSUME Goto(w, IF h.kind = "token" THEN "issue" ELSE "admit") PROVE Kept
    BY <1>a, <1>b, <1>d, EarlyGoto DEF Caller
  <1>e. ASSUME Goto(w, "bindCaller") PROVE Kept
    BY <1>a, <1>b, <1>e, EarlyGoto
  <1>1. ASSUME Verify(w) PROVE Kept
    BY <1>1, <1>c, <1>d, <1>e DEF Verify
  <1>2. ASSUME BindCaller(w) PROVE Kept
    BY <1>2, <1>c, <1>d DEF BindCaller
  <1>3. ASSUME IssueToken(w) PROVE Kept
    <2>1. h.kind = "token"
      BY <1>0, <1>3 DEF IssueToken, At, Sound, Called
    <2> QED
      BY <1>3, <1>a, <1>c, <2>1, EarlyAnswer DEF IssueToken, Return
  <1>4. ASSUME Admit(w) PROVE Kept
    <2>1. h.kind = "event" /\ rec' = rec /\ builds' = builds
      BY <1>0, <1>4 DEF Admit, At, Sound, Called, ReadOnly, world
    <2>2. CASE h.snap.eventToken = h.b /\ h.ev.q <= h.snap.sequence /\ Return(w)
      <3>1. h.b \in Builds /\ h.ev \in Results
        BY <1>0, <1>a, <2>1 DEF Sound, Called, Live
      <3>2. h.ev.q \in Nat /\ h.snap.sequence \in Nat /\ rec.sequence \in Nat
        BY <1>0, <3>1, ResultForm, RecNumbers DEF HandType
      <3>3. h.ev.q <= rec.sequence
        BY <1>0, <2>2, <3>2 DEF Sound, Knows
      <3>4. h.b = rec.eventToken \/ h.b \in rec.retired
        BY <1>0, <2>2, <3>1, NoBuildAssumption DEF Sound, Knows
      <3>5. Delivered(h)
        BY <2>1, <3>3, <3>4, RepeatedIsDelivered
      <3>6. Answer(w, "ok")
        BY <2>2 DEF Return
      <3>7. hand[w].kind = "event" /\ "ok" = "ok" => Delivered(hand[w])'
        <4>1. hand'[w].ev = h.ev /\ hand'[w].b = h.b
          BY <1>0, <1>a, <3>6 DEF Answer, Caller, Typed, Idle
        <4> QED
          BY <2>1, <3>5, <4>1 DEF Delivered
      <3> QED
        BY <1>a, <3>6, <3>7, EarlyAnswer
    <2>3. CASE Read(w, "accept", rec)
      <3>1. "accept" \in Pcs /\ "accept" \notin Special /\ "accept" \notin Done /\ "accept" \in Early
        BY DEF Early, Pcs, Special, Done, ClaimPcs, PlanPcs, TagPcs
      <3>2. Steps(w, "accept", rec)
        BY <1>0, <2>3, <3>1, ReadSteps
      <3> QED
        BY <1>a, <2>1, <3>1, <3>2, EarlyOK DEF Steps
    <2> QED
      BY <1>4, <1>c, <2>2, <2>3 DEF Admit
  <1>5. ASSUME Accept(w) PROVE Kept
    <2>1. h.kind = "event" /\ builds' = builds /\ h.ev \in Results /\ h.pc = "accept" /\ h.ev.q \in 1..3
      BY <1>0, <1>5, ResultForm DEF Accept, At, Sound, Called, world
    <2>2. ASSUME NEW f \in BOOLEAN, AcceptEvent(h.b, h.ev.q, h.ev.e, h.ev.r, h.ev.p, f)
          PROVE  /\ h.ev.q <= rec'.sequence
                 /\ h.ev.e # "failed" => /\ h.ev.q >= 2 => rec'.report # "none"
                                         /\ h.ev.q = 3 => rec'.plan # "missing"
      <3> DEFINE e == h.ev
      <3>1. /\ rec'.sequence = e.q
            /\ rec'.report = IF e.r = "none" THEN rec.report ELSE e.r
            /\ rec'.plan = IF e.p = "missing" THEN rec.plan ELSE e.p
        <4>1. rec'.sequence = e.q
          BY ZenonT(30), <1>0, <2>2 DEF AcceptEvent, ExecutionType
        <4>2. rec'.report = IF e.r = "none" THEN rec.report ELSE e.r
          BY ZenonT(30), <1>0, <2>2 DEF AcceptEvent, ExecutionType
        <4>3. rec'.plan = IF e.p = "missing" THEN rec.plan ELSE e.p
          BY ZenonT(30), <1>0, <2>2 DEF AcceptEvent, ExecutionType
        <4> QED
          BY <4>1, <4>2, <4>3
      <3>2. e.q = 3 => rec.report # "none"
        BY <1>0, <2>1 DEF Sound, Called
      <3>3. /\ e.q = 2 => e.e = "failed" \/ e.r # "none"
            /\ e.q = 3 => e.e = "failed" \/ e.p # "missing"
        BY <2>1, ResultForm
      <3> HIDE DEF e
      <3>4. e.q \in 1..3
        BY <2>1 DEF e
      <3>5. /\ e.q <= rec'.sequence
            /\ e.e # "failed" => /\ e.q >= 2 => rec'.report # "none"
                                 /\ e.q = 3 => rec'.plan # "missing"
        BY <3>1, <3>2, <3>3, <3>4
      <3> QED
        BY <3>5 DEF e
    <2>3. ASSUME NEW f \in BOOLEAN, AcceptEvent(h.b, h.ev.q, h.ev.e, h.ev.r, h.ev.p, f),
                 Return(w) \/ Goto(w, "reconcile")
          PROVE  Kept
      <3>1. hand'[w].ev = h.ev /\ hand'[w].b = h.b
        BY ZenonT(30), <1>0, <1>a, <2>3 DEF Return, Answer, Caller, Typed, Idle, Goto, HandType
      <3>2. Delivered(hand[w])'
        BY <2>2, <2>3, <3>1 DEF Delivered
      <3>3. CASE Return(w)
        BY <1>a, <3>2, <3>3, EarlyAnswer DEF Return
      <3>4. CASE Goto(w, "reconcile")
        <4>1. "reconcile" \in Pcs /\ "reconcile" \notin Special /\ "reconcile" \notin Done
          BY DEF Easy, Pcs, Special, Done, ClaimPcs, PlanPcs, TagPcs
        <4>2. Steps(w, "reconcile", h.snap)
          BY <1>0, <3>4, <4>1, GotoSteps
        <4> QED
          BY <1>a, <3>2, <4>1, <4>2, EarlyOK DEF Steps
      <3> QED
        BY <2>3, <3>3, <3>4
    <2>4. ASSUME rec' = rec, Answer(w, "ok"), EventIdentity(h.b), h.ev.q <= rec.sequence
          PROVE  Kept
      <3>1. Delivered(h)
        BY <2>1, <2>4, RepeatedIsDelivered DEF EventIdentity
      <3>2. hand'[w].ev = h.ev /\ hand'[w].b = h.b
        BY <1>0, <1>a, <2>4 DEF Answer, Caller, Typed, Idle
      <3>3. Delivered(hand[w])'
        BY <2>1, <2>4, <3>1, <3>2 DEF Delivered
      <3> QED
        BY <1>a, <2>4, <3>3, EarlyAnswer
    <2> DEFINE f == /\ h.ev.e = "failed" /\ rec.operation = "main_release"
                    /\ h.snap.report # "none" /\ h.snap.engine = "quality_passed"
    <2>5. f \in BOOLEAN
      OBVIOUS
    <2>6. \/ /\ AcceptEvent(h.b, h.ev.q, h.ev.e, h.ev.r, h.ev.p, f)
             /\ Return(w) \/ Goto(w, "reconcile")
          \/ /\ rec' = rec
             /\ \/ Answer(w, "ok") /\ EventIdentity(h.b) /\ h.ev.q <= rec.sequence
                \/ Answer(w, "error")
      BY <1>5 DEF Accept
    <2> HIDE DEF f
    <2> QED
      BY <1>c, <2>3, <2>4, <2>5, <2>6
  <1> QED
    BY <1>1, <1>2, <1>3, <1>4, <1>5 DEF Callback

\* A new request that is not a callback.
LEMMA BeginOK ==
  ASSUME Inv, Grows, NEW w \in Workers, NEW k \in Kinds \ {"none", "token", "event"},
         NEW p \in Easy, Begin(w, k, p, Blank)
  PROVE  Kept
  <1> DEFINE g == [Idle EXCEPT !.pc = p, !.kind = k, !.image = image, !.snap = Blank]
  <1>1. /\ g.pc = p /\ g.kind = k /\ g.image = image /\ g.snap = Blank
    BY DEF Idle
  <1>2. image \in Images
    BY DEF Inv, Typed, STypeOK
  <1>3. g \in HandType
    BY <1>2, IdleType, EasyPcs, BlankType DEF HandType
  <1>4. hand' = [hand EXCEPT ![w] = g] /\ hand[w].pc = "idle"
    BY DEF Begin, At
  <1> HIDE DEF g
  <1>5. Others(w) /\ hand'[w] = g
    BY <1>4 DEF Others, Inv, Typed
  <1>6. k # "token" /\ k # "event"
    OBVIOUS
  <1>7. Sound(hand[w])'
    <2>1. rec'.retries \in Nat /\ rec'.sequence \in Nat
      BY RecNumbers DEF Grows
    <2>2. Knows(hand[w])'
      BY <1>1, <1>5, <2>1 DEF Knows, Blank, Reserved
    <2>3. Called(hand[w])'
      BY <1>1, <1>2, <1>5, <1>6, EasyPcs DEF Called, Caller, Done, Early
    <2>4. Placed(hand[w])'
      BY <1>1, <1>5, EasyPcs DEF Placed, Special, ClaimPcs, PlanPcs, TagPcs
    <2> QED
      BY <2>2, <2>3, <2>4 DEF Sound
  <1>8. ~Caller(hand'[w]) /\ ~Caller(hand[w])
    BY <1>1, <1>4, <1>5, <1>6 DEF Caller, Inv, Hands, Sound, Called
  <1>9. HandsOK'
    BY <1>3, <1>5, <1>7, <1>8, MovedOK
  <1> QED
    BY <1>5, <1>8, <1>9 DEF Kept, Persists, Others

\* A callback comes in: the build had no other call out.
LEMMA CallOK ==
  ASSUME Inv, Grows, NEW w \in Workers, NEW b \in Builds, NEW k \in {"token", "event"},
         NEW e \in Results \cup {NoEvent}, Call(w, b, k, e),
         k = "event" => e \in Results /\ e.q <= LastEvent /\ (e.q = 3 => rec.report # "none")
  PROVE  Kept
  <1> DEFINE g == [Idle EXCEPT !.pc = "verify", !.kind = k, !.b = b,
                               !.image = image, !.snap = rec, !.ev = e]
  <1>1. /\ g.pc = "verify" /\ g.kind = k /\ g.image = image /\ g.snap = rec /\ g.b = b /\ g.ev = e
    BY DEF Idle
  <1>2. image \in Images /\ rec \in ExecutionType
    BY DEF Inv, Typed, STypeOK, TypeOK
  <1>3. g \in HandType
    BY <1>2, IdleType DEF HandType, Pcs, Early, Kinds
  <1>4. /\ hand' = [hand EXCEPT ![w] = g] /\ hand[w].pc = "idle" /\ builds' = builds /\ rec' = rec
        /\ builds[b].state = "working" /\ ~Calling(b)
    BY DEF Call, At, ReadOnly, world
  <1> HIDE DEF g
  <1>5. Others(w) /\ hand'[w] = g
    BY <1>4 DEF Others, Inv, Typed
  <1>7. Sound(hand[w])'
    <2>1. rec.retries \in Nat /\ rec.sequence \in Nat
      BY <1>2, RecNumbers
    <2>2. Knows(hand[w])'
      BY <1>1, <1>4, <1>5, <2>1 DEF Knows
    <2>3. Called(hand[w])'
      BY <1>1, <1>2, <1>4, <1>5 DEF Called, Caller, Done, Early, Live, LastEvent
    <2>4. Placed(hand[w])'
      BY <1>1, <1>5 DEF Placed, ClaimPcs, PlanPcs, TagPcs
    <2> QED
      BY <2>2, <2>3, <2>4 DEF Sound
  <1>8. ~Caller(hand[w])
    BY <1>4 DEF Inv, Hands, Sound, Called
  <1>9. Hands'
    BY <1>5, <1>7, StaysSound DEF Hands, Others
  <1>10. hand' \in [Workers -> HandType]
    BY <1>3, <1>5 DEF Others, Inv, Typed
  <1>11. CallsAlone'
    <2>1. \A v \in Workers \ {w} : hand'[v] = hand[v] /\ (Caller(hand[v]) => hand[v].b # b)
      BY <1>4, <1>5 DEF Others, Calling, Caller
    <2> QED
      BY <1>1, <1>5, <2>1 DEF CallsAlone, Caller, Inv
  <1> QED
    BY <1>5, <1>8, <1>9, <1>10, <1>11 DEF Kept, HandsOK, Persists, Others

\* The last event of a build of a planner recovery follows its first; the
\* report is in the record since the first build of the execution.
LEMMA SendOK ==
  ASSUME Inv, Grows, NEW w \in Workers, NEW b \in Builds, SendEvent(w, b)
  PROVE  Kept
  <1>1. PICK e \in Events(Upcoming(b)) : Call(w, b, "event", e)
    BY DEF SendEvent
  <1>2. e \in Results /\ e.q = Upcoming(b)
    BY DEF Events, Results
  <1>3. builds[b].state = "working" /\ b \in Live /\ builds[b].sent < LastEvent
    BY <1>1 DEF SendEvent, Call, Live
  <1>4. /\ builds[b].attempt \in 0..3 /\ builds[b].sent \in 0..3 /\ builds[b].attempt <= rec.retries
        /\ builds[b].sent >= 2 => rec.report # "none"
        /\ rec.retries \in 0..3
    <2>1. builds[b] \in BuildType /\ rec \in ExecutionType
      BY DEF Inv, Typed, STypeOK, TypeOK, BuildType
    <2> QED
      BY <1>3, <2>1, RecNumbers DEF Inv, Runs, BuildType
  <1>5. builds[b].attempt > 0 => rec.operation = "main_release" /\ rec.report # "none"
    <2>1. SUFFICES ASSUME builds[b].attempt > 0
                   PROVE  rec.operation = "main_release" /\ rec.report # "none"
      OBVIOUS
    <2>2. rec.retries > 0
      BY <1>4, <2>1
    <2>3. rec.operation = "main_release" /\ rec.evidence
      BY <2>2 DEF Inv, IInv, RecoveryKeepsEvidence
    <2> QED
      BY <2>3 DEF Inv, Evidence
  <1>6. LastEvent \in 2..3 /\ (rec.operation = "main_release" => LastEvent = 3)
    BY DEF LastEvent
  <1>7. e.q <= LastEvent /\ (e.q = 3 => rec.report # "none")
    BY <1>2, <1>3, <1>4, <1>5, <1>6 DEF Upcoming
  <1> QED
    BY <1>1, <1>2, <1>7, CallOK

LEMMA ReplyOK ==
  ASSUME Inv, Grows, NEW w \in Workers, Reply(w)
  PROVE  Kept
  <1>1. Others(w) /\ hand'[w] = Idle
    BY DEF Reply, Others, Inv, Typed
  <1>2. Sound(hand[w])'
    <2>1. rec'.retries \in Nat /\ rec'.sequence \in Nat
      BY RecNumbers DEF Grows
    <2>2. Knows(hand[w])'
      BY <1>1, <2>1 DEF Knows, Idle, Blank, Reserved
    <2>3. Called(hand[w])'
      BY <1>1 DEF Called, Caller, Done, Early, Idle
    <2>4. Placed(hand[w])'
      BY <1>1 DEF Placed, ClaimPcs, PlanPcs, TagPcs, Idle
    <2> QED
      BY <2>2, <2>3, <2>4 DEF Sound
  <1>3. ~Caller(hand'[w])
    BY <1>1 DEF Caller, Idle
  <1>4. HandsOK'
    BY <1>1, <1>2, <1>3, IdleType, MovedOK
  <1> QED
    BY <1>1, <1>4 DEF Kept, Persists, Others

LEMMA MovesOK ==
  ASSUME Inv, Grows, NEW w \in Workers, Moves(w)
  PROVE  Kept
  <1>1. HandsOK'
    BY InnerSound DEF Moves, HandsOK
  <1>2. Persists
    BY DEF Persists, Moves, Inner, Onward, Others
  <1> QED
    BY <1>1, <1>2 DEF Kept

LEMMA StillOK == ASSUME Inv, Grows, hand' = hand PROVE Kept
  <1>1. Hands'
    BY StaysSound DEF Hands
  <1>2. CallsAlone' /\ hand' \in [Workers -> HandType]
    BY DEF CallsAlone, Caller, Inv, Typed
  <1> QED
    BY <1>1, <1>2 DEF Kept, HandsOK, Persists

LEMMA CrashOK ==
  ASSUME Inv, Grows, NEW w \in Workers, Crash(w)
  PROVE  Kept
  <1>1. hand[w].pc \notin Done /\ Answer(w, "error") /\ Typed
    BY DEF Crash, Done, Inv
  <1>2. CASE hand[w].pc \in Early
    BY <1>1, <1>2, EarlyAnswer
  <1>3. CASE hand[w].pc \notin Early
    BY <1>1, <1>3, CalmAnswer, CalmMoves, MovesOK
  <1> QED
    BY <1>2, <1>3

LEMMA HandsStep == ASSUME Inv, [SNext]_svars PROVE Kept
  <1>0. Grows /\ IInv'
    BY GrowsStep, TxnStep, StoreInv
  <1> USE <1>0
  <1>1. ASSUME NEW w \in Workers, Step(w) PROVE Kept
    BY <1>1, MovesSubmission, MovesPublishing, MovesRecovery, MovesConsolidation, MovesDecision,
       MovesOK, CallbackOK, ReplyOK
       DEF Step
  <1>2. ASSUME NEW w \in Workers, Sweep(w) \/ Request(w) PROVE Kept
    <2>1. {"checks", "reconcile", "approve", "supersede", "cancel", "stop"} \subseteq Easy
          /\ {"hook", "sweep", "approve", "supersede", "cancel", "newHead"}
                \subseteq Kinds \ {"none", "token", "event"}
      BY DEF Easy, Kinds
    <2>2. ASSUME NEW b \in Builds, AskToken(w, b) PROVE Kept
      BY <2>2, CallOK DEF AskToken
    <2>3. ASSUME NEW b \in Builds, SendEvent(w, b) PROVE Kept
      BY <2>3, SendOK
    <2> QED
      BY <1>2, <2>1, <2>2, <2>3, BeginOK
         DEF Sweep, Request, Redeliver, AskApprove, AskSupersede, AskCancel, NewHead
  <1>3. ASSUME NEW w \in Workers, Crash(w) PROVE Kept
    BY <1>3, CrashOK
  <1>4. ASSUME hand' = hand PROVE Kept
    BY <1>4, StillOK
  <1>5. ASSUME NEW b \in Builds, EndBuild(b) PROVE hand' = hand
    BY <1>5 DEF EndBuild, Finish
  <1>6. ASSUME Age \/ RollForward \/ Interfere \/ UNCHANGED svars PROVE hand' = hand
    BY <1>6 DEF Age, RollForward, Interfere, svars
  <1> QED
    BY <1>1, <1>2, <1>3, <1>4, <1>5, <1>6 DEF SNext

-----------------------------------------------------------------------------
(* The record against Cloud Build and the evidence store.                  *)

Verdicts == <<rec.committed, rec.evidence>>
Binding == <<rec.build, rec.retired>>
Reported == <<rec.sequence, rec.engine, rec.report, rec.plan>>

Commits == /\ stored # "none" /\ rec.report # "none" /\ rec'.committed = stored
           /\ rec'.evidence = (rec.evidence \/ stored = "good")
Binds == rec.build = NoBuild /\ rec'.build \in Live /\ rec'.retired = rec.retired
Retires == /\ rec.build \in Live /\ builds[rec.build].state = "plan_failed"
           /\ rec.engine = "quality_passed" /\ rec'.build = NoBuild
           /\ rec'.retired = rec.retired \cup {rec.build} /\ rec'.retries = rec.retries + 1
Tells(w) ==
    LET e == hand[w].ev
    IN /\ hand[w].kind = "event" /\ hand[w].pc = "accept" /\ hand[w].b = rec.build
       /\ hand[w].b \in Live
       /\ e \in Results /\ e.q <= LastEvent /\ e.q > rec.sequence
       /\ e.q = 3 => rec.report # "none"
       /\ rec'.sequence = e.q /\ rec'.engine = e.e
       /\ rec'.report = IF e.r = "none" THEN rec.report ELSE e.r
       /\ rec'.plan = IF e.p = "missing" THEN rec.plan ELSE e.p

\* Each group of fields has one way to change.
RecFrame ==
    /\ UNCHANGED Verdicts \/ (Commits /\ UNCHANGED Binding /\ UNCHANGED Reported)
    /\ UNCHANGED Binding \/ ((Binds \/ Retires) /\ UNCHANGED Reported)
    /\ UNCHANGED Reported \/ ((\E w \in Workers : Tells(w)) /\ UNCHANGED Binding)
    /\ rec'.status = "released" =>
          rec.status = "released" \/ (github.tag = "ours" /\ github.release = "ours")

LEMMA FrameStep == ASSUME Inv, Txn PROVE RecFrame
  <1>0. rec \in ExecutionType
    BY DEF Inv, Typed, STypeOK, TypeOK
  <1> USE <1>0 DEF Verdicts, Binding, Reported
  <1>1. ASSUME NEW b \in Live, BindBuild(b) PROVE RecFrame
    <2>1. CASE rec' = rec
      BY <2>1 DEF RecFrame
    <2>2. CASE rec' # rec
      <3>1. rec.build = NoBuild /\ rec' = [rec EXCEPT !.build = b, !.run = b,
                                                      !.status = "submission_pending"]
        BY <1>1, <2>2 DEF BindBuild, CanBind
      <3>2. /\ rec'.build = b /\ rec'.retired = rec.retired /\ rec'.status = "submission_pending"
            /\ UNCHANGED Verdicts /\ UNCHANGED Reported
        BY <3>1 DEF ExecutionType
      <3> QED
        BY <3>1, <3>2 DEF RecFrame, Binds
    <2> QED
      BY <2>1, <2>2
  <1>2. ASSUME NEW w \in Workers, NEW f \in BOOLEAN, Accepts(w, f) PROVE RecFrame
    <2> DEFINE e == hand[w].ev
    <2>1. /\ hand[w].kind = "event" /\ e \in Results /\ e.q <= LastEvent
          /\ e.q = 3 => rec.report # "none"
          /\ hand[w].b \in Live
      BY <1>2, AcceptsForm
    <2>2. AcceptEvent(hand[w].b, e.q, e.e, e.r, e.p, f) /\ e.q > rec.sequence /\ hand[w].pc = "accept"
      BY <1>2 DEF Accepts, AcceptEvent, CanAcceptEvent
    <2>3. hand[w].b = rec.build
      <3>1. rec.selection.provider = "cloud_build" /\ rec.run = hand[w].b
        BY <2>2, CloudBuildAssumption
           DEF AcceptEvent, CanAcceptEvent, EventIdentity, ExecutionType
      <3> QED
        BY <3>1 DEF Inv, IInv, RunIsBuild
    <2>4. rec'.report = IF e.r = "none" THEN rec.report ELSE e.r
      BY <2>2 DEF AcceptEvent, ExecutionType
    <2>5. rec'.plan = IF e.p = "missing" THEN rec.plan ELSE e.p
      BY <2>2 DEF AcceptEvent, ExecutionType
    <2>6. rec'.sequence = e.q /\ rec'.engine = e.e
      BY <2>2 DEF AcceptEvent, ExecutionType
    <2>7. UNCHANGED Verdicts /\ UNCHANGED Binding
      BY <2>2 DEF AcceptEvent, ExecutionType
    <2>8. rec'.status # "released"
      BY <2>2 DEF AcceptEvent, EventStatus, ExecutionType
    <2>9. Tells(w)
      BY <2>1, <2>2, <2>3, <2>4, <2>5, <2>6 DEF Tells
    <2> QED
      BY <2>7, <2>8, <2>9 DEF RecFrame
  <1>3. ASSUME NEW i \in Images, Stages(i) PROVE RecFrame
    <2>1. StagePlannerRetry(rec.build, rec.retries, i, builds[rec.build].image)
          /\ rec.build \in Live /\ rec.retries \in 0..2 /\ builds[rec.build].image \in Images
          /\ rec.engine = "quality_passed" /\ builds[rec.build].state = "plan_failed"
      BY <1>3, StagesForm DEF Stages
    <2>2. /\ UNCHANGED Verdicts /\ UNCHANGED Reported /\ rec'.build = NoBuild
          /\ rec'.retries = rec.retries + 1 /\ rec'.retired = rec.retired \cup {rec.build}
          /\ rec'.status = "submission_pending"
      BY <2>1 DEF StagePlannerRetry, ExecutionType
    <2> QED
      BY <2>1, <2>2 DEF RecFrame, Retires
  <1>4. ASSUME NEW b \in Builds, ClaimEventToken(b) PROVE RecFrame
    BY <1>4 DEF ClaimEventToken, RecFrame, ExecutionType
  <1>5. ASSUME CommitQuality(stored), rec.report # "none" PROVE RecFrame
    <2>1. /\ rec'.committed = stored /\ stored # "none"
          /\ rec'.evidence = (rec.evidence \/ stored = "good")
          /\ rec'.status \in {"quality_passed", "quality_failed"}
      BY <1>5 DEF CommitQuality, ExecutionType
    <2>2. UNCHANGED Binding /\ UNCHANGED Reported
      BY <1>5 DEF CommitQuality, ExecutionType
    <2> QED
      BY <1>5, <2>1, <2>2 DEF RecFrame, Commits
  <1>6. ASSUME NEW t, rec' = [rec EXCEPT !.status = t], t # "released" PROVE RecFrame
    BY <1>6 DEF RecFrame, ExecutionType
  <1>7. ASSUME rec' = rec PROVE RecFrame
    BY <1>7 DEF RecFrame
  <1>8. ASSUME NEW n \in 0..(MaxAttempts - 1), ReopenSubmission(n) PROVE RecFrame
    BY <1>8 DEF ReopenSubmission, RecFrame, ExecutionType
  <1>9. ASSUME SaveEngineFailed \/ ClearRetryPending \/ SaveCanary PROVE RecFrame
    BY <1>9 DEF SaveEngineFailed, ClearRetryPending, SaveCanary, RecFrame, ExecutionType
  <1>10. ASSUME NEW n \in 0..2, SpendRetry(n) PROVE RecFrame
    BY <1>10 DEF SpendRetry, RecFrame, ExecutionType
  <1>11. ASSUME \/ ClaimPublish \/ SavePublicationUncertain
                \/ SaveReleased /\ github.tag = "ours" /\ github.release = "ours"
         PROVE  RecFrame
    <2>1. UNCHANGED Verdicts /\ UNCHANGED Binding /\ UNCHANGED Reported
      <3>1. CASE ClaimPublish
        BY <3>1 DEF ClaimPublish, ExecutionType
      <3>2. CASE SavePublicationUncertain
        BY <3>2 DEF SavePublicationUncertain, ExecutionType
      <3>3. CASE SaveReleased
        BY <3>3 DEF SaveReleased, ExecutionType
      <3> QED
        BY <1>11, <3>1, <3>2, <3>3
    <2>2. rec'.status = "released" => github.tag = "ours" /\ github.release = "ours"
      BY <1>11 DEF ClaimPublish, SavePublicationUncertain, ExecutionType
    <2> QED
      BY <2>1, <2>2 DEF RecFrame
  <1> QED
    BY <1>1, <1>2, <1>3, <1>4, <1>5, <1>6, <1>7, <1>8, <1>9, <1>10, <1>11
       DEF Txn, ClaimSubmission, SaveStatus, SavePlanned, SaveNoRelease, SaveSuperseded,
           CancelRelease

LEMMA EvidenceStep == ASSUME Inv, RecFrame, Grows PROVE Evidence'
  <1>1. Evidence /\ RecGrows /\ WorldGrows
    BY DEF Inv, Grows
  <1>2. CASE UNCHANGED Verdicts
    BY <1>1, <1>2 DEF Verdicts, Evidence, RecGrows, WorldGrows
  <1>3. CASE Commits
    BY <1>1, <1>3 DEF Commits, Evidence, RecGrows, WorldGrows
  <1> QED
    BY <1>2, <1>3 DEF RecFrame

\* What is so of a build, given the record.
Fine(x) ==
    /\ rec.operation = "main_release" => x.image \in Images
    /\ x.attempt <= rec.retries /\ x.sent <= rec.sequence
    /\ x.state = "success" => x.sent = LastEvent
    /\ x.state \in {"working", "success"} =>
          /\ x.sent >= 2 => rec.report # "none"
          /\ x.sent = 3 => rec.plan # "missing"

LEMMA BuildsFine ==
  ASSUME Inv, [SNext]_svars, NEW b \in Builds, builds'[b].state # "none"
  PROVE  Fine(builds'[b])
  <1>0. /\ Typed /\ Hands /\ WorldType /\ Runs /\ rec \in ExecutionType
    BY DEF Inv, Typed, STypeOK, WorldType, BuildType, TypeOK
  <1>1. ASSUME builds'[b] = builds[b] PROVE Fine(builds'[b])
    BY <1>0, <1>1 DEF Runs, Fine, Live
  <1>2. ASSUME UNCHANGED world PROVE Fine(builds'[b])
    BY <1>1, <1>2 DEF world
  <1>3. ASSUME NEW w \in Workers, Post(w) PROVE Fine(builds'[b])
    <2> DEFINE c == CHOOSE x \in Builds : x \notin Live
    <2>1. CASE builds' = [builds EXCEPT ![c] = Created(hand[w])] /\ b = c
      <3>1. builds'[b] = Created(hand[w])
        BY <1>0, <2>1 DEF WorldType
      <3>2. hand[w].snap.retries \in Nat /\ rec.retries \in Nat /\ rec.sequence \in Nat
            /\ hand[w].snap.retries <= rec.retries
        <4>1. hand[w].snap \in ExecutionType
          BY <1>0 DEF Typed, HandType
        <4> QED
          BY <1>0, <4>1, RecNumbers DEF Hands, Sound, Knows
      <3>3. hand[w].image \in Images
        BY <1>0, <1>3 DEF Post, At, Hands, Sound, Called, Done
      <3> QED
        BY <3>1, <3>2, <3>3 DEF Fine, Created, PlannerImage
    <2>2. CASE builds' = [builds EXCEPT ![c] = Created(hand[w])] /\ b # c
      <3> HIDE DEF c
      <3>1. builds'[b] = builds[b]
        BY <1>0, <2>2 DEF WorldType
      <3> QED
        BY <1>1, <3>1
    <2> QED
      BY <1>1, <1>3, <2>1, <2>2 DEF Post
  <1>4. ASSUME NEW w \in Workers, StopBuild(w) PROVE Fine(builds'[b])
    <2> DEFINE c == hand[w].snap.build
    <2>1. c \in Builds
      BY <1>0, <1>4 DEF StopBuild, At, Hands, Sound, Placed
    <2>2. builds' = [builds EXCEPT ![c].state =
                        IF builds[c].state = "working" THEN "cancelled" ELSE builds[c].state]
      BY <1>4 DEF StopBuild
    <2> HIDE DEF c
    <2>3. CASE b = c
      <3>1. /\ builds'[b].attempt = builds[b].attempt /\ builds'[b].image = builds[b].image
            /\ builds'[b].sent = builds[b].sent
            /\ builds'[b].state =
                  IF builds[b].state = "working" THEN "cancelled" ELSE builds[b].state
        BY <1>0, <2>1, <2>2, <2>3 DEF WorldType, BuildType
      <3> QED
        BY <1>0, <3>1 DEF Runs, Fine, Live
    <2>4. CASE b # c
      BY <1>0, <1>1, <2>1, <2>2, <2>4 DEF WorldType
    <2> QED
      BY <2>3, <2>4
  <1>5. ASSUME NEW w \in Workers, Reply(w) PROVE Fine(builds'[b])
    <2> DEFINE h == hand[w]
               x == Answered(builds[h.b], h)
    <2>1. /\ h.b \in Live /\ builds[h.b].state # "success" /\ Called(h)
          /\ h.pc \in {"ok", "error"}
      BY <1>0, <1>5 DEF Reply, Hands, Sound, Called
    <2>2. builds' = [builds EXCEPT ![h.b] = x] /\ builds[h.b] \in BuildType
      BY <1>0, <1>5, <2>1 DEF Reply, WorldType, Live
    <2>3. /\ x.attempt = builds[h.b].attempt /\ x.image = builds[h.b].image
          /\ x.sent = IF h.pc = "ok" /\ h.kind = "event" THEN h.ev.q ELSE builds[h.b].sent
      BY <2>2 DEF BuildType, Answered
    <2>4. x.state = IF (h.pc = "error" \/ h.ev.e \in {"quality_failed", "failed"})
                       /\ builds[h.b].state = "working"
                    THEN "failed" ELSE builds[h.b].state
      BY <2>2 DEF BuildType, Answered
    <2>5. Fine(builds[h.b])
      BY <1>0, <2>1 DEF Runs, Fine
    <2> HIDE DEF x
    <2>6. CASE b = h.b
      <3>1. builds'[b] = x
        BY <1>0, <2>2, <2>6 DEF WorldType
      <3>2. CASE h.pc = "ok" /\ h.kind = "event"
        <4>1. /\ h.ev.q <= rec.sequence
              /\ builds[h.b].state = "working" /\ h.ev.e # "failed" =>
                    /\ h.ev.q >= 2 => rec.report # "none"
                    /\ h.ev.q = 3 => rec.plan # "missing"
          BY <2>1, <3>2 DEF Called, Early
        <4> QED
          BY <2>1, <2>3, <2>4, <2>5, <3>1, <3>2, <4>1 DEF Fine
      <3>3. CASE ~(h.pc = "ok" /\ h.kind = "event")
        BY <2>1, <2>3, <2>4, <2>5, <3>1, <3>3 DEF Fine
      <3> QED
        BY <3>2, <3>3
    <2>7. CASE b # h.b
      BY <1>0, <1>1, <2>2, <2>7 DEF WorldType
    <2> QED
      BY <2>6, <2>7
  <1>6. ASSUME NEW c \in Builds, EndBuild(c) PROVE Fine(builds'[b])
    <2>1. PICK t \in {"success", "plan_failed", "failed", "cancelled"} : Finish(c, t)
      BY <1>6 DEF EndBuild
    <2>2. CASE b = c
      <3>1. /\ builds'[b].attempt = builds[b].attempt /\ builds'[b].image = builds[b].image
            /\ builds'[b].sent = builds[b].sent /\ builds'[b].state = t
            /\ builds[b].state = "working" /\ (t = "success" => builds[b].sent = LastEvent)
        BY <1>0, <2>1, <2>2 DEF Finish, WorldType, BuildType
      <3> QED
        BY <1>0, <3>1 DEF Runs, Fine, Live
    <2>3. CASE b # c
      BY <1>0, <1>1, <2>1, <2>3 DEF Finish, WorldType
    <2> QED
      BY <2>2, <2>3
  <1>7. ASSUME \/ \E w \in Workers : StoreEvidence(w) \/ CreateTag(w) \/ CreateRelease(w)
               \/ RollForward \/ Interfere
        PROVE  Fine(builds'[b])
    <2>1. builds' = builds
      BY <1>7 DEF StoreEvidence, CreateTag, CreateRelease, Create, RollForward, Interfere
    <2> QED
      BY <1>1, <2>1
  <1> QED
    BY <1>0, <1>2, <1>3, <1>4, <1>5, <1>6, <1>7, WorldCases DEF Changes

LEMMA RunsStep == ASSUME Inv, [SNext]_svars, RecFrame, Grows PROVE Runs'
  <1>0. /\ Runs /\ RecGrows /\ WorldGrows /\ rec \in ExecutionType /\ rec' \in ExecutionType
        /\ WorldType'
    BY DEF Inv, Grows
  <1>n. /\ rec.retries \in Nat /\ rec'.retries \in Nat /\ rec.sequence \in Nat
        /\ rec'.sequence \in Nat /\ rec.retries <= rec'.retries /\ rec.sequence <= rec'.sequence
    BY <1>0, RecNumbers DEF RecGrows
  <1>m. \A b \in Builds : builds'[b].attempt \in Nat /\ builds'[b].sent \in Nat
    BY <1>0 DEF WorldType, BuildType
  <1>1. Live \subseteq Live'
    BY <1>0 DEF WorldGrows, Live
  <1>2. (rec'.build # NoBuild => rec'.build \in Live') /\ rec'.retired \subseteq Live'
    BY <1>0, <1>1 DEF RecFrame, Binding, Binds, Retires, Runs
  <1>3. ASSUME NEW b \in Live' PROVE Fine(builds[b])'
    <2>1. Fine(builds'[b]) /\ b \in Builds
      BY BuildsFine DEF Live
    <2>2. LastEvent' = LastEvent
      BY <1>0 DEF LastEvent, RecGrows
    <2> QED
      BY <1>0, <1>n, <1>m, <2>1, <2>2 DEF Fine, RecGrows
  <1>4. ASSUME NEW b \in rec'.retired
        PROVE  builds'[b].attempt < rec'.retries /\ builds'[b].state = "plan_failed"
    <2>1. CASE b \in rec.retired
      <3>1. b \in Live /\ builds[b].attempt < rec.retries /\ builds[b].state = "plan_failed"
        BY <1>0, <2>1 DEF Runs
      <3>2. builds'[b].attempt = builds[b].attempt /\ builds'[b].state = "plan_failed" /\ b \in Builds
        BY <1>0, <3>1 DEF WorldGrows, Live
      <3> QED
        BY <1>n, <1>m, <3>1, <3>2
    <2>2. CASE b \notin rec.retired
      <3>1. Retires /\ b = rec.build
        BY <2>2 DEF RecFrame, Binding, Binds, Retires
      <3>2. b \in Live /\ builds[b].attempt <= rec.retries /\ builds[b].state = "plan_failed"
            /\ rec'.retries = rec.retries + 1
        BY <1>0, <3>1 DEF Runs, Retires
      <3>3. builds'[b].attempt = builds[b].attempt /\ builds'[b].state = "plan_failed" /\ b \in Builds
        BY <1>0, <3>2 DEF WorldGrows, Live
      <3> QED
        BY <1>n, <1>m, <3>2, <3>3
    <2> QED
      BY <2>1, <2>2
  <1> QED
    BY <1>2, <1>3, <1>4 DEF Runs, Fine

LEMMA ToldStep == ASSUME Inv, [SNext]_svars, RecFrame, Grows, Kept PROVE Told'
  <1>0. /\ Told /\ Runs /\ RecGrows /\ WorldGrows /\ rec \in ExecutionType /\ WorldType /\ Hands
    BY DEF Inv, Grows
  <1>n. rec.sequence \in Nat
    BY <1>0, RecNumbers
  <1>l. LastEvent' = LastEvent /\ LastEvent \in 2..3
    BY <1>0 DEF LastEvent, RecGrows
  <1>1. ASSUME rec'.build = rec.build, rec.build \in Live,
               builds[rec.build].state \notin {"working", "success"}
        PROVE  Failing'
    BY <1>0, <1>1 DEF Failing, WorldGrows, Live
  <1>2. ASSUME NEW w \in Workers, hand[w].kind = "event", hand[w].b = rec.build,
               hand[w].ev.e = "failed", rec'.build = rec.build
        PROVE  Failing'
    <2>1. CASE Reply(w)
      <3> DEFINE b == rec.build
                 x == Answered(builds[b], hand[w])
      <3>1. b \in Builds /\ builds[b].state # "success" /\ builds[b].state # "none"
        BY <1>0, <1>2 DEF Hands, Sound, Called, Caller, Live
      <3>2. builds[b] \in BuildType
        BY <1>0, <3>1 DEF WorldType
      <3>3. builds' = [builds EXCEPT ![b] = x]
        BY <1>2, <2>1 DEF Reply
      <3>4. x.state = IF builds[b].state = "working" THEN "failed" ELSE builds[b].state
        BY <1>2, <3>2 DEF BuildType, Answered
      <3> HIDE DEF x, b
      <3>5. builds'[b].state \notin {"working", "success"}
        BY <1>0, <3>1, <3>3, <3>4 DEF WorldType
      <3> QED
        BY <1>2, <3>5 DEF Failing, b
    <2>2. CASE ~Reply(w)
      <3>1. hand'[w].kind = "event" /\ hand'[w].b = rec.build /\ hand'[w].ev = hand[w].ev
        BY <1>2, <2>2 DEF Kept, Persists, Caller
      <3> QED
        BY <1>2, <3>1 DEF Failing
    <2> QED
      BY <2>1, <2>2
  <1>3. CASE UNCHANGED Reported
    <2>1. /\ rec'.sequence = rec.sequence /\ rec'.engine = rec.engine
          /\ rec'.report = rec.report /\ rec'.plan = rec.plan
      BY <1>3 DEF Reported
    <2>2. ASSUME rec.engine = "failed" PROVE rec'.build # NoBuild /\ Failing'
      <3>1. rec.build # NoBuild /\ Failing /\ rec.build \in Live
        BY <1>0, <2>2 DEF Told, Runs
      <3>2. rec'.build = rec.build
        BY <2>2, <3>1 DEF RecFrame, Binding, Binds, Retires
      <3> QED
        BY <1>1, <1>2, <3>1, <3>2 DEF Failing
    <2> QED
      BY <1>0, <1>l, <2>1, <2>2 DEF Told
  <1>4. ASSUME NEW w \in Workers, Tells(w), UNCHANGED Binding PROVE Told'
    <2> DEFINE e == hand[w].ev
    <2>1. /\ hand[w].kind = "event" /\ hand[w].b = rec.build /\ hand[w].b \in Live
          /\ e \in Results /\ e.q <= LastEvent /\ e.q > rec.sequence
          /\ e.q = 3 => rec.report # "none"
          /\ rec'.sequence = e.q /\ rec'.engine = e.e
          /\ rec'.report = IF e.r = "none" THEN rec.report ELSE e.r
          /\ rec'.plan = IF e.p = "missing" THEN rec.plan ELSE e.p
      BY <1>4 DEF Tells
    <2>2. /\ e.q \in 1..3
          /\ e.q = 2 => e.e = "failed" \/ e.r # "none"
          /\ e.q = 3 => e.e = "failed" \/ e.p # "missing"
          /\ e.q < 3 => e.p = "missing"
      BY <2>1, ResultForm
    <2>3. rec'.build = rec.build /\ rec.build \in Builds
      BY <1>4, <2>1 DEF Binding, Live
    <2>4. e.e = "failed" => rec'.build # NoBuild /\ Failing'
      BY <1>2, <2>1, <2>3, NoBuildAssumption
    <2> HIDE DEF e
    <2>5. rec.plan = "missing"
      BY <1>0, <1>n, <2>1, <2>2 DEF Told
    <2> QED
      BY <1>n, <1>l, <2>1, <2>2, <2>4, <2>5 DEF Told
  <1> QED
    BY <1>3, <1>4 DEF RecFrame

LEMMA PublicationStep == ASSUME Inv, [SNext]_svars, RecFrame, Grows PROVE Publication'
  <1>0. /\ Publication /\ Hands /\ RecGrows /\ WorldGrows /\ WorldType /\ Typed
    BY DEF Inv, Grows
  <1>1. /\ github'.tag = "ours" => github.tag = "ours" \/ \E w \in Workers : CreateTag(w)
        /\ github'.release = "ours" =>
              github.release = "ours" \/ \E w \in Workers : CreateRelease(w)
    <2>1. ASSUME github' = github PROVE <1>1!:
      BY <2>1
    <2>2. ASSUME NEW w \in Workers, CreateTag(w), github' = [github EXCEPT !.tag = "ours"]
          PROVE  <1>1!:
      BY <1>0, <2>2 DEF WorldType
    <2>3. ASSUME NEW w \in Workers, CreateRelease(w),
                 github' = [github EXCEPT !.release = "ours"]
          PROVE  <1>1!:
      BY <1>0, <2>3 DEF WorldType
    <2>4. ASSUME Interfere PROVE <1>1!:
      <3>1. \/ github' = [github EXCEPT !.moved = TRUE]
            \/ github' = [github EXCEPT !.tag = "foreign"]
            \/ github' = [github EXCEPT !.release = "foreign"]
        BY <2>4 DEF Interfere
      <3> QED
        BY <1>0, <3>1 DEF WorldType
    <2>5. ASSUME NEW w \in Workers, Post(w) \/ StopBuild(w) \/ Reply(w) \/ StoreEvidence(w)
          PROVE  github' = github
      BY <2>5 DEF Post, StopBuild, Reply, StoreEvidence
    <2>6. ASSUME NEW b \in Builds, EndBuild(b) PROVE github' = github
      BY <2>6 DEF EndBuild, Finish
    <2>7. ASSUME NEW w \in Workers, CreateTag(w) PROVE <1>1!:
      BY <2>1, <2>2, <2>7 DEF CreateTag, Create
    <2>8. ASSUME NEW w \in Workers, CreateRelease(w) PROVE <1>1!:
      BY <2>1, <2>3, <2>8 DEF CreateRelease, Create
    <2> QED
      BY <1>0, <2>1, <2>4, <2>5, <2>6, <2>7, <2>8, WorldCases DEF Changes, world, RollForward
  <1>a. ASSUME NEW w \in Workers, CreateTag(w) \/ CreateRelease(w)
        PROVE  /\ rec.claimed /\ rec.plan = "semantic" /\ (AutoPublish \/ rec.canary)
               /\ CreateRelease(w) => github.tag = "ours"
    <2>1. hand[w].pc = "createTag" \/ hand[w].pc = "createRelease"
      BY <1>a DEF CreateTag, CreateRelease, Create, At
    <2>2. CreateRelease(w) => hand[w].pc = "createRelease"
      BY DEF CreateRelease, Create, At
    <2> QED
      BY <1>0, <2>1, <2>2 DEF Hands, Sound, Placed, ClaimPcs, PlanPcs, TagPcs
  <1>2. ReleasedIsPublished'
    BY <1>0, <1>1, <1>a DEF Publication, ReleasedIsPublished, WorldGrows, RecFrame
  <1>3. PublicationIsAuthorized'
    <2>1. rec.claimed => rec.evidence /\ stored = "good"
      BY DEF Inv, IInv, PublicationRequiresEvidence, Evidence
    <2>2. SUFFICES ASSUME "ours" \in {github'.tag, github'.release}
                   PROVE  /\ rec'.claimed /\ rec'.evidence /\ stored' = "good"
                          /\ rec'.plan = "semantic" /\ (AutoPublish \/ rec'.canary)
      BY DEF PublicationIsAuthorized
    <2>3. /\ rec.claimed /\ rec.evidence /\ stored = "good"
          /\ rec.plan = "semantic" /\ (AutoPublish \/ rec.canary)
      BY <1>0, <1>1, <1>a, <2>1, <2>2 DEF Publication, PublicationIsAuthorized
    <2> QED
      BY <1>0, <2>3 DEF RecGrows, WorldGrows
  <1> QED
    BY <1>2, <1>3 DEF Publication

-----------------------------------------------------------------------------
(* The theorems.                                                           *)

LEMMA InvInit == SInit => Inv
  <1> SUFFICES ASSUME SInit PROVE Inv
    OBVIOUS
  <1>1. IInv
    BY InitSafe DEF SInit
  <1>2. PICK o \in Operations, s \in Selections : rec = Reserved(o, s)
    BY DEF SInit, Init
  <1>3. /\ rec.build = NoBuild /\ rec.retired = {} /\ rec.sequence = 0 /\ rec.engine = "none"
        /\ rec.report = "none" /\ rec.plan = "missing" /\ rec.committed = "none"
        /\ rec.evidence = FALSE /\ rec.retries = 0 /\ rec.claimed = FALSE
        /\ rec.status \in {"waiting_github", "submission_pending"}
        /\ rec.operation \in Operations
    BY <1>2 DEF Reserved
  <1> DEFINE k == IF rec.operation = "pr_quality" THEN "hook" ELSE Origin
             g == Opening
  <1>4. k \in {"hook", "start"}
    BY WorkersAssumption
  <1>5. hand = [w \in Workers |-> IF w = First THEN g ELSE Idle]
    BY DEF SInit
  <1>6. g = [Idle EXCEPT !.pc = "checks", !.image = FirstImage, !.kind = k]
    BY DEF Opening
  <1> HIDE DEF k, g
  <1>7. /\ g.pc = "checks" /\ g.kind = k /\ g.image = FirstImage /\ g.snap = Blank
    BY <1>6 DEF Idle
  <1>8. g \in HandType
    BY ZenonT(30), <1>4, <1>6, IdleType, ImageAssumption DEF HandType, Pcs, Easy, Kinds
  <1> HIDE DEF g
  <1>9. hand \in [Workers -> HandType] /\ \A w \in Workers : hand[w] = Idle \/ hand[w] = g
    BY <1>5, <1>8, IdleType
  <1>10. \A b \in Builds : builds[b].state = "none"
    BY DEF SInit
  <1>11. github.tag = "none" /\ github.release = "none" /\ stored = "none"
    BY DEF SInit
  <1>12. Typed
    <2>1. builds \in [Builds -> BuildType]
      BY DEF SInit, BuildType
    <2>2. \A w \in Workers : hand[w].snap \in ExecutionType
      BY <1>9 DEF HandType
    <2>3. faults \in 0..MaxFaults
      BY HandlerAssumption DEF SInit
    <2>4. stamps \in StampsType
      BY DEF SInit, StampsType
    <2>5. github \in [tag : {"none", "ours", "foreign"},
                      release : {"none", "ours", "foreign"}, moved : BOOLEAN]
      BY DEF SInit
    <2>6. stored \in Reports /\ image \in Images /\ drift \in BOOLEAN
      BY ImageAssumption DEF SInit, Reports
    <2> QED
      BY <1>1, <1>9, <2>1, <2>2, <2>3, <2>4, <2>5, <2>6 DEF Typed, STypeOK, IInv, BuildType, StampsType
  <1>13. Hands
    <2>1. Knows(Idle)
      BY <1>3 DEF Knows, Idle, Blank, Reserved
    <2>2. Called(Idle) /\ Placed(Idle)
      BY DEF Called, Placed, Caller, Idle, Done, Early, ClaimPcs, PlanPcs, TagPcs
    <2>3. Knows(g)
      BY <1>3, <1>7 DEF Knows, Blank, Reserved
    <2>4. Called(g)
      BY <1>4, <1>7, ImageAssumption DEF Called, Caller, Done, Early
    <2>5. Placed(g)
      BY <1>7 DEF Placed, ClaimPcs, PlanPcs, TagPcs
    <2> QED
      BY <1>9, <2>1, <2>2, <2>3, <2>4, <2>5 DEF Hands, Sound
  <1>14. CallsAlone
    BY <1>4, <1>7, <1>9 DEF CallsAlone, Caller, Idle
  <1>15. Evidence /\ Runs /\ Told
    BY <1>3, <1>10 DEF Evidence, Runs, Told, Live, LastEvent
  <1>16. Publication
    BY <1>3, <1>11 DEF Publication, ReleasedIsPublished, PublicationIsAuthorized
  <1> QED
    BY <1>1, <1>12, <1>13, <1>14, <1>15, <1>16 DEF Inv

LEMMA InvStep == Inv /\ [SNext]_svars => Inv'
  <1> SUFFICES ASSUME Inv, [SNext]_svars PROVE Inv'
    OBVIOUS
  <1>1. Txn /\ Grows /\ Kept /\ IInv'
    BY TxnStep, GrowsStep, HandsStep, StoreInv
  <1>2. RecFrame
    BY <1>1, FrameStep
  <1>3. Evidence' /\ Runs' /\ Told' /\ Publication'
    BY <1>1, <1>2, EvidenceStep, RunsStep, ToldStep, PublicationStep
  <1>4. Typed'
    <2>1. hand' \in [Workers -> HandType]
      BY <1>1 DEF Kept, HandsOK
    <2>2. \A w \in Workers : hand'[w].snap \in ExecutionType
      BY <2>1 DEF HandType
    <2> QED
      BY <1>1, <2>1, <2>2 DEF Typed, STypeOK, Grows, WorldType, BuildType, Ticks, StampsType, IInv
  <1> QED
    BY <1>1, <1>3, <1>4 DEF Inv, Kept, HandsOK

\* The inductive invariant of the handlers: where every request is, what it
\* still knows, and how the record, Cloud Build, GitHub and the evidence store
\* agree (all handlers of release_reconciler, release_cloud_build and the
\* callback router).
THEOREM HandlersAreSound == SSpec => []Inv
  <1>1. SInit => Inv
    BY InvInit
  <1>2. Inv /\ [SNext]_svars => Inv'
    BY InvStep
  <1> QED
    BY <1>1, <1>2, PTL DEF SSpec

\* The handlers implement the specification of the record: whatever a stale
\* handler does, it reaches the document only through a transaction that the
\* store allows (_mutate, save, claim_*, bind_build, accept_event).
THEOREM StoreIsImplemented == SSpec => ImplementsStore
  <1>1. SInit => Init
    BY DEF SInit
  <1>2. Inv /\ [SNext]_svars => [Next]_vars
    BY TxnStep, StoreStep
  <1> QED
    BY <1>1, <1>2, HandlersAreSound, PTL DEF SSpec, Spec, ImplementsStore

\* What the record tells is so on GitHub, in the evidence store and on Cloud
\* Build, for any number of concurrent requests, builds and faults.
THEOREM RecordTellsTheTruth == SSpec => []RecordIsTrue
  <1>1. Inv => RecordIsTrue
    <2> SUFFICES ASSUME Inv PROVE RecordIsTrue
      OBVIOUS
    <2>1. STypeOK /\ ReleasedIsPublished
      BY DEF Inv, Typed, Publication
    <2>2. RecordMatchesEvidence
      BY DEF Inv, Evidence, RecordMatchesEvidence
    <2>3. SuccessIsReported
      <3> SUFFICES ASSUME rec.build # NoBuild, builds[rec.build].state = "success"
                   PROVE  /\ rec.sequence = LastEvent /\ rec.report # "none"
                          /\ rec.operation = "main_release" => rec.plan # "missing"
        BY DEF SuccessIsReported
      <3> DEFINE b == rec.build
      <3>1. b \in Live /\ builds[b].state = "success"
        BY DEF Inv, Runs
      <3>2. /\ builds[b].sent = LastEvent /\ builds[b].sent <= rec.sequence
            /\ builds[b].sent >= 2 => rec.report # "none"
            /\ builds[b].sent = 3 => rec.plan # "missing"
        BY <3>1 DEF Inv, Runs
      <3>3. rec.sequence <= LastEvent /\ rec.sequence \in Nat
        BY RecNumbers DEF Inv, Told, Typed, STypeOK, TypeOK
      <3> QED
        BY <3>2, <3>3 DEF LastEvent
    <2> QED
      BY <2>1, <2>2, <2>3 DEF RecordIsTrue
  <1> QED
    BY <1>1, HandlersAreSound, PTL

\* Nothing of ours is on GitHub without a claim, good evidence, a semantic
\* plan and the approval (claim_publish, _commit_quality, approve_canary).
THEOREM EvidenceIsTheGate == SSpec => []EvidenceGoverns
  <1>1. Inv => EvidenceGoverns
    BY DEF Inv, Evidence, Publication, EvidenceGoverns, RecordMatchesEvidence
  <1> QED
    BY <1>1, HandlersAreSound, PTL

\* Committed evidence is never replaced, however late a stale handler commits:
\* the evidence store is write-once (save_immutable_report) and the record
\* repeats what is in it.
THEOREM EvidenceStaysFrozen == SSpec => EvidenceIsFrozen
  <1>1. Inv /\ [SNext]_svars => (rec.evidence => rec'.committed = rec.committed)
    <2> SUFFICES ASSUME Inv, [SNext]_svars, rec.evidence PROVE rec'.committed = rec.committed
      OBVIOUS
    <2>1. RecFrame
      BY TxnStep, FrameStep
    <2> QED
      BY <2>1 DEF RecFrame, Verdicts, Commits, Inv, Evidence
  <1> QED
    BY <1>1, HandlersAreSound, PTL DEF SSpec, EvidenceIsFrozen

\* A submitter that knows of a planner recovery does not take a build that the
\* recovery retired for its own, whatever the number of requests at once: the
\* attempt a build carries is compared (_matching_build).
THEOREM RetiredBuildsAreToldApart == SSpec => []RetiredIsNotRecognised
  <1>1. Inv => RetiredIsNotRecognised
    <2> SUFFICES ASSUME Inv, NEW w \in Workers, At(w, "bind"),
                        hand[w].snap.retries = rec.retries, hand[w].found \in rec.retired
                 PROVE  FALSE
      BY DEF RetiredIsNotRecognised
    <2> DEFINE b == hand[w].found
    <2>1. b \in Live /\ (rec.retries > 0 => builds[b].attempt = rec.retries)
      BY DEF Inv, Hands, Sound, Placed, At
    <2>2. builds[b].attempt < rec.retries
      BY DEF Inv, Runs
    <2>3. builds[b].attempt \in 0..3 /\ rec.retries \in 0..3
      BY <2>1 DEF Inv, Typed, STypeOK, TypeOK, ExecutionType, Live
    <2> QED
      BY <2>1, <2>2, <2>3
  <1> QED
    BY <1>1, HandlersAreSound, PTL
=============================================================================
