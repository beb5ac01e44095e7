----------------------- MODULE ReleaseExecutionsProofs -----------------------
(* Machine-checked proofs about the record of a release execution.         *)
EXTENDS ReleaseExecutions, TLAPS

\* The transition table has no way out of a terminal status.
LEMMA TerminalHasNoExit ==
  ASSUME NEW t, CanMove(t), rec.status \in Terminal
  PROVE  t = rec.status
  BY DEF CanMove, Terminal, Transitions

\* The values that conditional updates write are of the field's type.
LEMMA ProviderSuccessUpdate ==
  ASSUME TypeOK, NEW b \in Builds, NEW f \in BOOLEAN, SaveProviderSuccess(b, f)
  PROVE  \E v \in BOOLEAN :
           rec' = [rec EXCEPT !.succeeded = TRUE, !.engineFailed = v]
  BY DEF SaveProviderSuccess, TypeOK, ExecutionType

\* What an accepted event of sequence q and status e may write.
EventWrite(q, e) ==
    \E s \in {"failed", "running_quality"}, v \in BOOLEAN,
       u \in Reports, w \in Plans :
       /\ CanMove(s)
       /\ rec' = [rec EXCEPT !.sequence = q, !.engine = e, !.status = s,
                             !.report = u, !.plan = w, !.engineFailed = v]

LEMMA EventUpdate ==
  ASSUME TypeOK, NEW b \in Builds, NEW q \in 1..MaxSequence,
         NEW e \in EngineStatus \ {"none"}, NEW r \in Reports,
         NEW p \in Plans, NEW f \in BOOLEAN, AcceptEvent(b, q, e, r, p, f)
  PROVE  EventWrite(q, e)
<1> DEFINE s == EventStatus(e, f)
           v == IF f THEN TRUE ELSE rec.engineFailed
           u == IF r = "none" THEN rec.report ELSE r
           w == IF p = "missing" THEN rec.plan ELSE p
<1>1. s \in {"failed", "running_quality"} /\ CanMove(s)
  BY DEF AcceptEvent, CanAcceptEvent, EventStatus
<1>2. v \in BOOLEAN /\ u \in Reports /\ w \in Plans
  BY DEF TypeOK, ExecutionType
<1>3. rec' = [rec EXCEPT !.sequence = q, !.engine = e, !.status = s,
                         !.report = u, !.plan = w, !.engineFailed = v]
  BY DEF AcceptEvent
<1> HIDE DEF s, v, u, w
<1> QED
  BY <1>1, <1>2, <1>3 DEF EventWrite

LEMMA CommitUpdate ==
  ASSUME TypeOK, NEW r \in Reports, CommitQuality(r)
  PROVE  \/ /\ r = "good"
            /\ rec' = [rec EXCEPT !.status = "quality_passed",
                                  !.committed = r, !.evidence = TRUE]
         \/ /\ r = "bad" /\ CanMove("quality_failed")
            /\ rec' = [rec EXCEPT !.status = "quality_failed",
                                  !.committed = r, !.evidence = rec.evidence]
<1>1. CASE r = "good"
  BY <1>1 DEF CommitQuality
<1>2. CASE r = "bad"
  BY <1>2 DEF CommitQuality
<1> QED
  BY <1>1, <1>2 DEF CommitQuality, Reports

LEMMA StageUpdate ==
  ASSUME TypeOK, NEW b \in Builds, NEW n \in 0..2, NEW i \in Images,
         NEW j \in Images, StagePlannerRetry(b, n, i, j)
  PROVE  \E u, w \in Images \cup {NoImage} :
           rec' = [rec EXCEPT
                     !.status = "submission_pending",
                     !.build = NoBuild, !.run = NoBuild,
                     !.retired = rec.retired \cup {b}, !.retries = n + 1,
                     !.retryPending = TRUE, !.checked = rec.checked \cup {0, n},
                     !.retryImage = u, !.remediationImage = w,
                     !.engineFailed = FALSE]
<1> DEFINE u == IF n = 0 THEN i
                ELSE IF n = 1 THEN j ELSE rec.retryImage
           w == IF n = 1 THEN i ELSE rec.remediationImage
<1>1. u \in Images \cup {NoImage} /\ w \in Images \cup {NoImage}
  BY DEF TypeOK, ExecutionType
<1>2. rec' = [rec EXCEPT
                 !.status = "submission_pending",
                 !.build = NoBuild, !.run = NoBuild,
                 !.retired = rec.retired \cup {b}, !.retries = n + 1,
                 !.retryPending = TRUE, !.checked = rec.checked \cup {0, n},
                 !.retryImage = u, !.remediationImage = w,
                 !.engineFailed = FALSE]
  BY DEF StagePlannerRetry
<1> HIDE DEF u, w
<1> QED
  BY <1>1, <1>2

-----------------------------------------------------------------------------

\* Every transaction writes values of the right type.
LEMMA TypeStep == TypeOK /\ [Next]_vars => TypeOK'
<1> USE BoundAssumption DEF TypeOK, ExecutionType
<1> SUFFICES ASSUME TypeOK, [Next]_vars PROVE TypeOK'
  OBVIOUS
<1>1. ASSUME NEW b \in Builds, BindBuild(b) PROVE TypeOK'
  <2>1. CASE rec' = rec
    BY <2>1
  <2>2. CASE rec' = [rec EXCEPT !.build = b, !.run = b,
                                !.status = "submission_pending"]
    BY <2>2 DEF Status
  <2> QED
    BY <1>1, <2>1, <2>2 DEF BindBuild
<1>2. ASSUME NEW b \in Builds, AdmitGithubRun(b) PROVE TypeOK'
  BY <1>2 DEF AdmitGithubRun
<1>3. ASSUME NEW b \in Builds, ClaimEventToken(b) PROVE TypeOK'
  BY <1>3 DEF ClaimEventToken
<1>4. ASSUME NEW b \in Builds, ClaimSourceToken(b) PROVE TypeOK'
  BY <1>4 DEF ClaimSourceToken
<1>5. ASSUME NEW b \in Builds, NEW f \in BOOLEAN, SaveProviderSuccess(b, f)
      PROVE  TypeOK'
  <2>1. PICK v \in BOOLEAN :
          rec' = [rec EXCEPT !.succeeded = TRUE, !.engineFailed = v]
    BY ONLY TypeOK, <1>5, ProviderSuccessUpdate
  <2> QED
    BY <2>1
<1>6. ASSUME NEW b \in Builds, NEW q \in 1..MaxSequence,
             NEW e \in EngineStatus \ {"none"}, NEW r \in Reports,
             NEW p \in Plans, NEW f \in BOOLEAN, AcceptEvent(b, q, e, r, p, f)
      PROVE  TypeOK'
  <2>0. EventWrite(q, e)
    BY ONLY TypeOK, <1>6, EventUpdate
  <2>1. PICK s \in {"failed", "running_quality"}, v \in BOOLEAN,
             u \in Reports, w \in Plans :
          /\ CanMove(s)
          /\ rec' = [rec EXCEPT !.sequence = q, !.engine = e, !.status = s,
                                !.report = u, !.plan = w, !.engineFailed = v]
    BY ONLY <2>0 DEF EventWrite
  <2>2. s \in Status /\ e \in EngineStatus /\ q \in 0..MaxSequence
    BY <1>6, <2>1 DEF Status, Terminal
  <2> QED
    BY <2>1, <2>2
<1>7. ASSUME NEW b \in Builds, NEW n \in 0..2, NEW i \in Images,
             NEW j \in Images, StagePlannerRetry(b, n, i, j)
      PROVE  TypeOK'
  <2>1. PICK u, w \in Images \cup {NoImage} :
          rec' = [rec EXCEPT
                    !.status = "submission_pending",
                    !.build = NoBuild, !.run = NoBuild,
                    !.retired = rec.retired \cup {b}, !.retries = n + 1,
                    !.retryPending = TRUE, !.checked = rec.checked \cup {0, n},
                    !.retryImage = u, !.remediationImage = w,
                    !.engineFailed = FALSE]
    BY ONLY ZenonT(30), TypeOK, <1>7, StageUpdate
  <2>2. /\ rec.retired \cup {b} \in SUBSET Builds
        /\ rec.checked \cup {0, n} \in SUBSET (0..2)
        /\ n + 1 \in 0..3 /\ "submission_pending" \in Status
    BY <1>7 DEF Status
  <2> QED
    BY <2>1, <2>2
<1>8. CASE TransitionToCloudBuild
  BY <1>8 DEF TransitionToCloudBuild, Status, Providers
<1>9. CASE ClaimSubmission
  BY <1>9 DEF ClaimSubmission, Status
<1>10. ASSUME NEW n \in 0..(MaxAttempts - 1), ReopenSubmission(n)
       PROVE  TypeOK'
  <2>1. n + 1 \in 0..MaxAttempts
    BY <1>10
  <2> QED
    BY <1>10, <2>1 DEF ReopenSubmission, Status
<1>11. CASE SaveEngineFailed
  BY <1>11 DEF SaveEngineFailed
<1>12. CASE ClearRetryPending
  BY <1>12 DEF ClearRetryPending
<1>13. ASSUME NEW r \in Reports, CommitQuality(r) PROVE TypeOK'
  <2>1. CASE rec' = [rec EXCEPT !.status = "quality_passed",
                                !.committed = r, !.evidence = TRUE]
    BY <2>1 DEF Status
  <2>2. CASE rec' = [rec EXCEPT !.status = "quality_failed",
                                !.committed = r, !.evidence = rec.evidence]
    BY <2>2 DEF Status, Terminal
  <2> QED
    BY ONLY TypeOK, <1>13, <2>1, <2>2, CommitUpdate
<1>14. ASSUME NEW s \in {"failed", "unknown"}, SaveStatus(s) PROVE TypeOK'
  BY <1>14 DEF SaveStatus, Status, Terminal
<1>15. CASE SavePlanned
  BY <1>15 DEF SavePlanned, Status
<1>16. CASE SaveNoRelease
  BY <1>16 DEF SaveNoRelease, Status, Terminal
<1>17. ASSUME NEW n \in 0..2, SpendRetry(n) PROVE TypeOK'
  BY <1>17 DEF SpendRetry
<1>18. CASE ClaimPublish
  BY <1>18 DEF ClaimPublish, Status
<1>19. CASE SavePublicationUncertain
  BY <1>19 DEF SavePublicationUncertain, Status
<1>20. CASE SaveReleased
  BY ZenonT(30), <1>20 DEF SaveReleased, Status, Terminal
<1>21. CASE SaveCanary
  BY <1>21 DEF SaveCanary
<1>22. CASE SaveSuperseded
  BY <1>22 DEF SaveSuperseded, Status, Terminal
<1>23. CASE CancelRelease
  BY <1>23 DEF CancelRelease, Status, Terminal
<1>24. CASE UNCHANGED vars
  BY <1>24 DEF vars
<1> HIDE DEF TypeOK
<1>25. CASE Engine
  BY <1>1, <1>2, <1>3, <1>4, <1>5, <1>6, <1>7, <1>25 DEF Engine
<1>26. CASE Handlers
  BY <1>8, <1>9, <1>10, <1>11, <1>12, <1>13, <1>14, <1>15, <1>16, <1>17,
     <1>18, <1>19, <1>20, <1>21, <1>22, <1>23, <1>26 DEF Handlers
<1> QED
  BY <1>24, <1>25, <1>26 DEF Next

-----------------------------------------------------------------------------

\* The part of the inductive invariant that is not about types.
Safe == /\ PublicationRequiresEvidence /\ RecoveryKeepsEvidence
        /\ TokensBelongToRuns
        /\ EvidenceIsGood /\ WaitingIsFresh /\ RunIsBuild

\* No transaction breaks the inductive invariant.
LEMMA SafeStep == IInv /\ [Next]_vars => Safe'
<1> SUFFICES ASSUME IInv, [Next]_vars PROVE Safe'
  OBVIOUS
<1>t. TypeOK /\ Safe
  BY DEF IInv, Safe
<1>b. rec \in ExecutionType
  BY <1>t DEF TypeOK
<1> USE <1>t, <1>b, NoBuildAssumption, OperationAssumption, SelectionAssumption,
        BoundAssumption
    DEF ExecutionType, Safe, PublicationRequiresEvidence,
        RecoveryKeepsEvidence, TokensBelongToRuns, EvidenceIsGood,
        WaitingIsFresh, RunIsBuild
<1>1. ASSUME NEW b \in Builds, BindBuild(b) PROVE Safe'
  <2>1. CASE rec' = rec
    BY <2>1
  <2>2. CASE rec.build # b
    <3>1. rec.build = NoBuild /\ CanMove("submission_pending")
          /\ rec.provider = "cloud_build"
      BY ONLY <1>1, <2>2 DEF BindBuild, CanBind
    <3>2. rec.status # "quality_failed"
      BY ONLY <3>1, TerminalHasNoExit DEF Terminal
    <3>3. rec' = [rec EXCEPT !.build = b, !.run = b,
                             !.status = "submission_pending"]
      BY ONLY <1>1, <2>2, <1>b DEF BindBuild
    <3> QED
      BY <3>1, <3>2, <3>3
  <2> QED
    BY <1>1, <2>1, <2>2 DEF BindBuild
<1>2. ASSUME NEW b \in Builds, AdmitGithubRun(b) PROVE Safe'
  BY <1>2 DEF AdmitGithubRun, CanAdmitRun
<1>3. ASSUME NEW b \in Builds, ClaimEventToken(b) PROVE Safe'
  BY <1>3 DEF ClaimEventToken, CanClaimToken
<1>4. ASSUME NEW b \in Builds, ClaimSourceToken(b) PROVE Safe'
  BY <1>4 DEF ClaimSourceToken, CanClaimToken
<1>5. ASSUME NEW b \in Builds, NEW f \in BOOLEAN, SaveProviderSuccess(b, f)
      PROVE  Safe'
  <2>1. PICK v \in BOOLEAN :
          rec' = [rec EXCEPT !.succeeded = TRUE, !.engineFailed = v]
    BY ONLY <1>t, <1>5, ProviderSuccessUpdate
  <2> QED
    BY <2>1
<1>6. ASSUME NEW b \in Builds, NEW q \in 1..MaxSequence,
             NEW e \in EngineStatus \ {"none"}, NEW r \in Reports,
             NEW p \in Plans, NEW f \in BOOLEAN, AcceptEvent(b, q, e, r, p, f)
      PROVE  Safe'
  <2>0. TypeOK
    BY <1>t
  <2>1. EventWrite(q, e)
    BY ONLY <2>0, <1>6, EventUpdate
  <2>2. PICK s \in {"failed", "running_quality"}, v \in BOOLEAN,
             u \in Reports, w \in Plans :
          /\ CanMove(s)
          /\ rec' = [rec EXCEPT !.sequence = q, !.engine = e, !.status = s,
                                !.report = u, !.plan = w, !.engineFailed = v]
    BY ONLY <2>1 DEF EventWrite
  <2>3. rec.status # "quality_failed"
    BY ONLY <2>2, TerminalHasNoExit DEF Terminal
  <2> QED
    BY <2>2, <2>3
<1>7. ASSUME NEW b \in Builds, NEW n \in 0..2, NEW i \in Images,
             NEW j \in Images, StagePlannerRetry(b, n, i, j)
      PROVE  Safe'
  <2>0. TypeOK
    BY <1>t
  <2>1. PICK u, w \in Images \cup {NoImage} :
          rec' = [rec EXCEPT
                    !.status = "submission_pending",
                    !.build = NoBuild, !.run = NoBuild,
                    !.retired = rec.retired \cup {b}, !.retries = n + 1,
                    !.retryPending = TRUE, !.checked = rec.checked \cup {0, n},
                    !.retryImage = u, !.remediationImage = w,
                    !.engineFailed = FALSE]
    BY ONLY <2>0, <1>7, StageUpdate
  <2>2. /\ rec.status = "failed" /\ rec.provider = "cloud_build"
        /\ rec.operation = "main_release" /\ rec.evidence
        /\ rec.build = b /\ rec.retries = n
    BY ONLY <1>7 DEF StagePlannerRetry, CanStageRetry, PlannerRetryCandidate
  <2>3. rec.run = b
    BY <2>2
  <2>4. 0..n \subseteq rec.checked \cup {0, n}
    BY <2>2
  <2>5. rec.retired \cup {b} # {}
    OBVIOUS
  <2> QED
    BY <2>1, <2>2, <2>3, <2>4, <2>5
<1>10. ASSUME NEW n \in 0..(MaxAttempts - 1), ReopenSubmission(n)
       PROVE  Safe'
  <2>1. rec.status # "quality_failed"
    BY ONLY <1>10, TerminalHasNoExit DEF ReopenSubmission, Terminal
  <2> QED
    BY <1>10, <2>1 DEF ReopenSubmission
<1>13. ASSUME NEW r \in Reports, CommitQuality(r) PROVE Safe'
  <2>0. TypeOK
    BY <1>t
  <2>1. CASE /\ r = "good"
             /\ rec' = [rec EXCEPT !.status = "quality_passed",
                                   !.committed = r, !.evidence = TRUE]
    BY <2>1
  <2>2. CASE /\ r = "bad" /\ CanMove("quality_failed")
             /\ rec' = [rec EXCEPT !.status = "quality_failed",
                                   !.committed = r, !.evidence = rec.evidence]
    BY <2>2
  <2> QED
    BY ONLY <2>0, <1>13, <2>1, <2>2, CommitUpdate
<1>14. ASSUME NEW s \in {"failed", "unknown"}, SaveStatus(s) PROVE Safe'
  <2>1. rec.status # "quality_failed"
    BY ONLY <1>14, TerminalHasNoExit DEF SaveStatus, Terminal
  <2> QED
    BY <1>14, <2>1 DEF SaveStatus
<1>17. ASSUME NEW n \in 0..2, SpendRetry(n) PROVE Safe'
  BY <1>17 DEF SpendRetry
<1>30. CASE TransitionToCloudBuild
  BY <1>30, SelectionAssumption DEF TransitionToCloudBuild
<1>31. CASE ClaimSubmission
  BY <1>31 DEF ClaimSubmission, CanClaimSubmission
<1>32. CASE SaveEngineFailed
  BY <1>32 DEF SaveEngineFailed
<1>33. CASE ClearRetryPending
  BY <1>33 DEF ClearRetryPending
<1>34. CASE SavePlanned
  <2>1. rec.status # "quality_failed"
    BY ONLY <1>34, TerminalHasNoExit DEF SavePlanned, Terminal
  <2> QED
    BY <1>34, <2>1 DEF SavePlanned
<1>35. CASE SaveNoRelease
  <2>1. rec.status # "quality_failed"
    BY ONLY <1>35, TerminalHasNoExit DEF SaveNoRelease, Terminal
  <2> QED
    BY <1>35, <2>1 DEF SaveNoRelease
<1>36. CASE ClaimPublish
  BY <1>36 DEF ClaimPublish, CanClaimPublish
<1>37. CASE SavePublicationUncertain
  <2>1. rec.status # "quality_failed"
    BY ONLY <1>37, TerminalHasNoExit DEF SavePublicationUncertain, Terminal
  <2> QED
    BY <1>37, <2>1 DEF SavePublicationUncertain
<1>38. CASE SaveReleased
  <2>1. rec.status # "quality_failed"
    BY ONLY <1>38, TerminalHasNoExit DEF SaveReleased, Terminal
  <2> QED
    BY <1>38, <2>1 DEF SaveReleased
<1>39. CASE SaveCanary
  BY <1>39 DEF SaveCanary
<1>40. CASE SaveSuperseded
  <2>1. rec.status # "quality_failed"
    BY ONLY <1>40, TerminalHasNoExit DEF SaveSuperseded, Terminal
  <2> QED
    BY <1>40, <2>1 DEF SaveSuperseded
<1>41. CASE CancelRelease
  BY <1>41 DEF CancelRelease, CanCancel, OrchestratorTerminal, Terminal
<1>50. CASE UNCHANGED vars
  BY <1>50 DEF vars
<1>51. CASE Engine
  BY ONLY <1>1, <1>2, <1>3, <1>4, <1>5, <1>6, <1>7, <1>51 DEF Engine
<1>52. CASE Handlers
  BY ONLY <1>10, <1>13, <1>14, <1>17, <1>30, <1>31, <1>32, <1>33, <1>34, <1>35, <1>36, <1>37, <1>38, <1>39, <1>40, <1>41, <1>52
  DEF Handlers
<1> QED
  BY <1>50, <1>51, <1>52 DEF Next

\* A reserved record satisfies the invariant.
LEMMA InitSafe == Init => IInv
<1> SUFFICES ASSUME NEW o \in Operations, NEW s \in Selections,
                    rec = Reserved(o, s)
             PROVE  IInv
  BY DEF Init
<1> USE BoundAssumption, NoBuildAssumption, SelectionAssumption
    DEF Reserved
<1>1. TypeOK
  BY DEF TypeOK, ExecutionType, Status, Providers, EngineStatus, Reports, Plans
<1>2. Safe
  BY DEF Safe, PublicationRequiresEvidence, RecoveryKeepsEvidence,
         TokensBelongToRuns, EvidenceIsGood, WaitingIsFresh, RunIsBuild
<1> QED
  BY <1>1, <1>2 DEF IInv, Safe

\* The inductive invariant holds of every reachable record, for any number of
\* builds and images, either provider and any bounds.
THEOREM InvariantHolds == Spec => []IInv
<1>1. IInv /\ [Next]_vars => IInv'
  BY TypeStep, SafeStep DEF IInv, Safe
<1> QED
  BY <1>1, InitSafe, PTL DEF Spec

\* Every field of the record keeps its type.
THEOREM TypeCorrect == Spec => []TypeOK
<1>1. IInv => TypeOK
  BY DEF IInv
<1> QED
  BY <1>1, InvariantHolds, PTL

\* No release is planned, claimed or published without committed evidence that
\* satisfied the policy, whatever transactions stale handlers run.
THEOREM EvidenceGuardsPublication == Spec => []PublicationRequiresEvidence
<1>1. IInv => PublicationRequiresEvidence
  BY DEF IInv
<1> QED
  BY <1>1, InvariantHolds, PTL

\* A planner recovery rests on committed evidence and on spent attempts.
THEOREM RecoveryIsGuarded == Spec => []RecoveryKeepsEvidence
<1>1. IInv => RecoveryKeepsEvidence
  BY DEF IInv
<1> QED
  BY <1>1, InvariantHolds, PTL

\* Event and source tokens belong to the bound run or to a retired build.
THEOREM TokensAreBound == Spec => []TokensBelongToRuns
<1>1. IInv => TokensBelongToRuns
  BY DEF IInv
<1> QED
  BY <1>1, InvariantHolds, PTL

-----------------------------------------------------------------------------

\* Moves through the transition table leave a finished record's status.
LEMMA TableKeepsFinished ==
  ASSUME NEW t, CanMove(t), rec'.status = t
  PROVE  Settled
  BY TerminalHasNoExit DEF Settled

LEMMA SettledStep == TypeOK /\ [Next]_vars => Settled
<1> SUFFICES ASSUME TypeOK, [Next]_vars PROVE Settled
  OBVIOUS
<1>b. rec \in ExecutionType
  BY DEF TypeOK
<1> USE <1>b DEF ExecutionType
<1>1. ASSUME NEW b \in Builds, BindBuild(b) PROVE Settled
  <2>1. CASE rec' = rec
    BY <2>1 DEF Settled
  <2>2. CASE rec.build # b
    <3>1. CanMove("submission_pending")
      BY ONLY <1>1, <2>2 DEF BindBuild, CanBind
    <3>2. rec' = [rec EXCEPT !.build = b, !.run = b,
                             !.status = "submission_pending"]
      BY ONLY <1>1, <2>2, <1>b DEF BindBuild
    <3>3. rec'.status = "submission_pending"
      BY <3>2
    <3> QED
      BY ONLY <3>1, <3>3, TableKeepsFinished
  <2> QED
    BY <1>1, <2>1, <2>2 DEF BindBuild
<1>2. ASSUME NEW b \in Builds, AdmitGithubRun(b) PROVE Settled
  BY <1>2 DEF AdmitGithubRun, Settled
<1>3. ASSUME NEW b \in Builds, ClaimEventToken(b) PROVE Settled
  BY <1>3 DEF ClaimEventToken, Settled
<1>4. ASSUME NEW b \in Builds, ClaimSourceToken(b) PROVE Settled
  BY <1>4 DEF ClaimSourceToken, Settled
<1>5. ASSUME NEW b \in Builds, NEW f \in BOOLEAN, SaveProviderSuccess(b, f)
      PROVE  Settled
  <2>1. PICK v \in BOOLEAN :
          rec' = [rec EXCEPT !.succeeded = TRUE, !.engineFailed = v]
    BY ONLY TypeOK, <1>5, ProviderSuccessUpdate
  <2> QED
    BY <2>1 DEF Settled
<1>6. ASSUME NEW b \in Builds, NEW q \in 1..MaxSequence,
             NEW e \in EngineStatus \ {"none"}, NEW r \in Reports,
             NEW p \in Plans, NEW f \in BOOLEAN, AcceptEvent(b, q, e, r, p, f)
      PROVE  Settled
  <2>1. EventWrite(q, e)
    BY ONLY TypeOK, <1>6, EventUpdate
  <2>2. PICK s \in {"failed", "running_quality"}, v \in BOOLEAN,
             u \in Reports, w \in Plans :
          /\ CanMove(s)
          /\ rec' = [rec EXCEPT !.sequence = q, !.engine = e, !.status = s,
                                !.report = u, !.plan = w, !.engineFailed = v]
    BY ONLY <2>1 DEF EventWrite
  <2>3. rec'.status = s
    BY <2>2
  <2> QED
    BY ONLY <2>2, <2>3, TableKeepsFinished
<1>7. ASSUME NEW b \in Builds, NEW n \in 0..2, NEW i \in Images,
             NEW j \in Images, StagePlannerRetry(b, n, i, j)
      PROVE  Settled
  <2>1. PICK u, w \in Images \cup {NoImage} :
          rec' = [rec EXCEPT
                    !.status = "submission_pending",
                    !.build = NoBuild, !.run = NoBuild,
                    !.retired = rec.retired \cup {b}, !.retries = n + 1,
                    !.retryPending = TRUE, !.checked = rec.checked \cup {0, n},
                    !.retryImage = u, !.remediationImage = w,
                    !.engineFailed = FALSE]
    BY ONLY TypeOK, <1>7, StageUpdate
  <2>2. /\ rec.status = "failed" /\ rec.evidence
        /\ rec.build = b /\ rec.retries = n
    BY ONLY <1>7 DEF StagePlannerRetry, CanStageRetry, PlannerRetryCandidate
  <2> QED
    BY <2>1, <2>2 DEF Settled
<1>10. ASSUME NEW n \in 0..(MaxAttempts - 1), ReopenSubmission(n)
       PROVE  Settled
  <2>1. CanMove("submission_pending")
    BY ONLY <1>10 DEF ReopenSubmission
  <2>2. rec'.status = "submission_pending"
    BY <1>10 DEF ReopenSubmission
  <2> QED
    BY ONLY <2>1, <2>2, TableKeepsFinished
<1>13. ASSUME NEW r \in Reports, CommitQuality(r) PROVE Settled
  <2>1. PICK t \in {"quality_passed", "quality_failed"} :
          CanMove(t) /\ rec'.status = t
    BY <1>13 DEF CommitQuality
  <2> QED
    BY ONLY <2>1, TableKeepsFinished
<1>14. ASSUME NEW s \in {"failed", "unknown"}, SaveStatus(s) PROVE Settled
  <2>1. CanMove(s)
    BY ONLY <1>14 DEF SaveStatus
  <2>2. rec'.status = s
    BY <1>14 DEF SaveStatus
  <2> QED
    BY ONLY <2>1, <2>2, TableKeepsFinished
<1>17. ASSUME NEW n \in 0..2, SpendRetry(n) PROVE Settled
  BY <1>17 DEF SpendRetry, Settled
<1>30. CASE TransitionToCloudBuild
  BY <1>30 DEF TransitionToCloudBuild, Settled, Terminal
<1>31. CASE ClaimSubmission
  BY <1>31 DEF ClaimSubmission, CanClaimSubmission, Settled, Terminal
<1>32. CASE ClaimPublish
  BY <1>32 DEF ClaimPublish, CanClaimPublish, Settled, Terminal
<1>33. CASE SaveEngineFailed
  BY <1>33 DEF SaveEngineFailed, Settled
<1>34. CASE ClearRetryPending
  BY <1>34 DEF ClearRetryPending, Settled
<1>35. CASE SaveCanary
  BY <1>35 DEF SaveCanary, Settled
<1>36. CASE SavePlanned
  <2>1. CanMove("release_planned")
    BY ONLY <1>36 DEF SavePlanned
  <2>2. rec'.status = "release_planned"
    BY <1>36 DEF SavePlanned
  <2> QED
    BY ONLY <2>1, <2>2, TableKeepsFinished
<1>37. CASE SaveNoRelease
  <2>1. CanMove("no_release")
    BY ONLY <1>37 DEF SaveNoRelease
  <2>2. rec'.status = "no_release"
    BY <1>37 DEF SaveNoRelease
  <2> QED
    BY ONLY <2>1, <2>2, TableKeepsFinished
<1>38. CASE SavePublicationUncertain
  <2>1. CanMove("unknown")
    BY ONLY <1>38 DEF SavePublicationUncertain
  <2>2. rec'.status = "unknown"
    BY <1>38 DEF SavePublicationUncertain
  <2> QED
    BY ONLY <2>1, <2>2, TableKeepsFinished
<1>39. CASE SaveReleased
  <2>1. CanMove("released")
    BY ONLY <1>39 DEF SaveReleased
  <2>2. rec'.status = "released"
    BY <1>39 DEF SaveReleased
  <2> QED
    BY ONLY <2>1, <2>2, TableKeepsFinished
<1>40. CASE SaveSuperseded
  <2>1. CanMove("superseded")
    BY ONLY <1>40 DEF SaveSuperseded
  <2>2. rec'.status = "superseded"
    BY <1>40 DEF SaveSuperseded
  <2> QED
    BY ONLY <2>1, <2>2, TableKeepsFinished
<1>41. CASE CancelRelease
  BY <1>41 DEF CancelRelease, CanCancel, OrchestratorTerminal, Settled,
                Terminal
<1>50. CASE UNCHANGED vars
  BY <1>50 DEF vars, Settled
<1>51. CASE Engine
  BY ONLY <1>1, <1>2, <1>3, <1>4, <1>5, <1>6, <1>7, <1>51 DEF Engine
<1>52. CASE Handlers
  BY ONLY <1>10, <1>13, <1>14, <1>17, <1>30, <1>31, <1>32, <1>33, <1>34, <1>35, <1>36, <1>37, <1>38, <1>39, <1>40, <1>41, <1>52
  DEF Handlers
<1> QED
  BY <1>50, <1>51, <1>52 DEF Next

\* A finished execution stays finished: only a planner recovery reopens a
\* failed one, and only cancel_release rewrites a superseded one.
THEOREM FinishedIsFinal == Spec => FinishedStaysFinished
<1>1. TypeOK /\ [Next]_vars => [Settled]_vars
  BY SettledStep
<1> QED
  BY <1>1, TypeCorrect, PTL DEF Spec, FinishedStaysFinished

-----------------------------------------------------------------------------
(* Bound builds and the provider handoff, one transaction at a time.       *)

BindingStep == rec.build # NoBuild /\ rec'.build # rec.build =>
                   /\ rec'.build = NoBuild /\ rec'.run = NoBuild
                   /\ rec.build \in rec'.retired

HandoffStep == rec'.provider # rec.provider =>
                   /\ rec'.provider = "cloud_build"
                   /\ rec.sequence = 0 /\ rec.report = "none"

\* Only bind_build, stage_planner_retry and transition_to_cloud_build touch
\* the build or the provider of a record.
Frame == rec'.build = rec.build /\ rec'.provider = rec.provider

\* Leaving both alone satisfies both step properties.
LEMMA FrameSuffices == Frame => BindingStep /\ HandoffStep
  BY DEF Frame, BindingStep, HandoffStep

\* No transaction swaps a bound build, or hands a record over late.
LEMMA IdentityStep == IInv /\ [Next]_vars => BindingStep /\ HandoffStep
<1> SUFFICES ASSUME TypeOK, WaitingIsFresh, [Next]_vars
             PROVE  BindingStep /\ HandoffStep
  BY DEF IInv
<1> USE DEF TypeOK, ExecutionType
<1>1. ASSUME NEW b \in Builds, BindBuild(b) PROVE BindingStep /\ HandoffStep
  BY <1>1 DEF BindBuild, CanBind, BindingStep, HandoffStep
<1>2. ASSUME NEW b \in Builds, AdmitGithubRun(b) PROVE Frame
  BY <1>2 DEF AdmitGithubRun, Frame
<1>3. ASSUME NEW b \in Builds, ClaimEventToken(b) PROVE Frame
  BY <1>3 DEF ClaimEventToken, Frame
<1>4. ASSUME NEW b \in Builds, ClaimSourceToken(b) PROVE Frame
  BY <1>4 DEF ClaimSourceToken, Frame
<1>5. ASSUME NEW b \in Builds, NEW f \in BOOLEAN, SaveProviderSuccess(b, f)
      PROVE  Frame
  BY <1>5 DEF SaveProviderSuccess, Frame
<1>6. ASSUME NEW b, NEW q, NEW e, NEW r, NEW p, NEW f,
             AcceptEvent(b, q, e, r, p, f)
      PROVE  Frame
  BY <1>6 DEF AcceptEvent, Frame
<1>7. ASSUME NEW b \in Builds, NEW n \in 0..2, NEW i \in Images,
             NEW j \in Images, StagePlannerRetry(b, n, i, j)
      PROVE  BindingStep /\ HandoffStep
  <2>1. rec.build = b
    BY <1>7 DEF StagePlannerRetry, CanStageRetry
  <2>2. /\ rec'.build = NoBuild /\ rec'.run = NoBuild
        /\ rec'.retired = rec.retired \cup {b} /\ rec'.provider = rec.provider
    BY <1>7 DEF StagePlannerRetry
  <2> QED
    BY <2>1, <2>2 DEF BindingStep, HandoffStep
<1>8. CASE TransitionToCloudBuild
  <2>1. /\ rec.status \in {"received", "waiting_github"}
        /\ rec'.build = rec.build /\ rec'.provider = "cloud_build"
    BY <1>8 DEF TransitionToCloudBuild
  <2> QED
    BY <2>1 DEF WaitingIsFresh, BindingStep, HandoffStep
<1>9. ASSUME NEW n, ReopenSubmission(n) PROVE Frame
  BY <1>9 DEF ReopenSubmission, Frame
<1>10. ASSUME NEW r, CommitQuality(r) PROVE Frame
  BY <1>10 DEF CommitQuality, Frame
<1>11. ASSUME NEW s, SaveStatus(s) PROVE Frame
  BY <1>11 DEF SaveStatus, Frame
<1>12. ASSUME NEW n, SpendRetry(n) PROVE Frame
  BY <1>12 DEF SpendRetry, Frame
<1>13. CASE ClaimSubmission \/ ClaimPublish \/ SaveEngineFailed \/ ClearRetryPending
  <2>1. Frame
    BY <1>13 DEF ClaimSubmission, ClaimPublish, SaveEngineFailed,
                 ClearRetryPending, Frame
  <2> QED
    BY <2>1, FrameSuffices
<1>14. CASE SavePlanned \/ SaveNoRelease \/ SavePublicationUncertain \/ SaveReleased
  <2>1. Frame
    BY <1>14 DEF SavePlanned, SaveNoRelease, SavePublicationUncertain,
                 SaveReleased, Frame
  <2> QED
    BY <2>1, FrameSuffices
<1>15. CASE SaveCanary \/ SaveSuperseded \/ CancelRelease
  <2>1. Frame
    BY <1>15 DEF SaveCanary, SaveSuperseded, CancelRelease, Frame
  <2> QED
    BY <2>1, FrameSuffices
<1>20. CASE UNCHANGED vars
  BY <1>20 DEF vars, BindingStep, HandoffStep
<1>21. CASE Engine
  BY ONLY <1>1, <1>2, <1>3, <1>4, <1>5, <1>6, <1>7, <1>21, FrameSuffices
  DEF Engine
<1>22. CASE Handlers
  BY ONLY <1>8, <1>9, <1>10, <1>11, <1>12, <1>13, <1>14, <1>15, <1>22,
          FrameSuffices
  DEF Handlers
<1> QED
  BY <1>20, <1>21, <1>22 DEF Next

\* Two submitters never swap builds: a bound build leaves the record only when
\* stage_planner_retry retires it, which takes the run away too.
THEOREM BuildsAreNotSwapped == Spec => BindingIsStable
<1>1. IInv /\ [Next]_vars =>
         [rec.build # NoBuild /\ rec'.build # rec.build =>
             rec'.build = NoBuild /\ rec'.run = NoBuild
                /\ rec.build \in rec'.retired]_vars
  BY IdentityStep DEF BindingStep
<1> QED
  BY <1>1, InvariantHolds, PTL DEF Spec, BindingIsStable

\* transition_to_cloud_build moves a legacy record before its first event and
\* nothing moves it back: events of two providers never meet in one record.
THEOREM HandoffIsFresh == Spec => HandoffBeforeEvents
<1>1. IInv /\ [Next]_vars =>
         [rec'.provider # rec.provider =>
             /\ rec'.provider = "cloud_build"
             /\ rec.sequence = 0 /\ rec.report = "none"]_vars
  BY IdentityStep DEF HandoffStep
<1> QED
  BY <1>1, InvariantHolds, PTL DEF Spec, HandoffBeforeEvents
=============================================================================
