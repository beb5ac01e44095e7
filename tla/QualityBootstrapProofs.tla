----------------------- MODULE QualityBootstrapProofs -----------------------
(***************************************************************************)
(* The safety of the quality bootstrap for every number of requests,       *)
(* reconciliations, callbacks, builds, faults and changes.                 *)
(***************************************************************************)
EXTENDS QualityBootstrap, TLAPS

\* The builds and the POSTs that made them.
Shapes == /\ builds \in [Builds -> Build \cup {None}]
          /\ posts \in {0, 1}

\* The request that is about to send the POST is the one whose claim was
\* accepted, and nobody has sent it before.
PosterIsAlone ==
  \A r \in Requests : req[r].at = "post" => rec.nonce = r /\ rec.dispatched /\ posts = 0

\* What a reconciliation or callback found stays verified until it binds it.
FoundIsVerified ==
  \A s \in Sweepers \cup Callbacks :
    sweep[s].at = "bind" => /\ sweep[s].build \in Builds /\ rec.nonce # None
                            /\ Verified(rec.nonce, sweep[s].build)

\* A build that was answered to its request is one of the builds.
AnswerIsABuild == \A r \in Requests : req[r].at = "bind" => req[r].build \in Builds

\* The bound build exists; only its token lets a report in.
BoundExists ==
  /\ rec.build # 0 => builds[rec.build] # None /\ rec.nonce # None
  /\ rec.report # "none" => rec.token # 0

BInv == /\ OneAttempt /\ BoundIsVerified
        /\ Shapes /\ PosterIsAlone /\ FoundIsVerified /\ AnswerIsABuild /\ BoundExists

-----------------------------------------------------------------------------
LEMMA BInit == Init => BInv
  <1> SUFFICES ASSUME Init PROVE BInv
    OBVIOUS
  <1> USE BootstrapAssumption
  <1>1. TypeOK
    BY DEF Init, TypeOK, ExecutionType, Fresh, Idle, Asleep, Terminal
  <1>2. OnePost /\ OneEngine /\ BoundIsVerified
    BY DEF Init, OnePost, OneEngine, BoundIsVerified, Fresh
  <1>3. Shapes /\ PosterIsAlone /\ FoundIsVerified /\ AnswerIsABuild /\ BoundExists
    BY DEF Init, Shapes, PosterIsAlone, FoundIsVerified, AnswerIsABuild, BoundExists,
           Fresh, Idle, Asleep
  <1> QED
    BY <1>1, <1>2, <1>3 DEF BInv, OneAttempt

\* Steps of requests that leave record, ticket, builds and posts alone.
LEMMA QuietStep ==
  ASSUME BInv, NEW r \in Requests, NEW at \in {"proof", "reserve", "recheck", "reproof",
                 "claim", "read", "write", "done"},
         Goes(r, at), UNCHANGED <<rec, ticket, sweep, builds, outside, posts>>
  PROVE  BInv'
  <1>1. TypeOK'
    BY DEF BInv, OneAttempt, TypeOK, Goes, outside
  <1>2. (OnePost /\ OneEngine /\ BoundIsVerified)'
    BY DEF BInv, OneAttempt, OnePost, OneEngine, BoundIsVerified
  <1>3. (Shapes /\ BoundExists /\ FoundIsVerified)'
    BY DEF BInv, Shapes, BoundExists, FoundIsVerified, Verified
  <1>4. (PosterIsAlone /\ AnswerIsABuild)'
    BY DEF BInv, OneAttempt, TypeOK, ExecutionType, PosterIsAlone, AnswerIsABuild, Goes
  <1> QED
    BY <1>1, <1>2, <1>3, <1>4 DEF BInv, OneAttempt

LEMMA ReserveKeeps ==
  ASSUME BInv, NEW r \in Requests, Reserve(r)
  PROVE  BInv'
  <1> USE BootstrapAssumption
  <1>1. CASE ~(Authorized /\ NewBuildsAllowed /\ CanReserve(r))
    BY <1>1, QuietStep DEF Reserve
  <1>2. CASE Authorized /\ NewBuildsAllowed /\ CanReserve(r)
    <2>1. /\ rec' = [rec EXCEPT !.provider = "cloud_build", !.status = "submitting", !.nonce = r]
          /\ ticket' = r /\ UNCHANGED <<sweep, builds, outside, posts>>
          /\ \E at \in {"recheck", "done"} : Goes(r, at)
      BY <1>2 DEF Reserve, Reserved
    <2>2. TypeOK'
      <3>1. rec' \in ExecutionType /\ rec'.nonce = ticket'
        BY <2>1 DEF BInv, OneAttempt, TypeOK, ExecutionType
      <3> QED
        BY <2>1, <3>1 DEF BInv, OneAttempt, TypeOK, Goes, outside
    <2>3. rec.build = 0
      BY <1>2 DEF BInv, BoundExists, CanReserve
    <2>4. (OnePost /\ OneEngine /\ BoundIsVerified)'
      BY <1>2, <2>1, <2>3 DEF BInv, OneAttempt, TypeOK, ExecutionType, OnePost, OneEngine, BoundIsVerified,
                         CanReserve
    <2>5. (Shapes /\ BoundExists /\ FoundIsVerified)'
      BY <1>2, <2>1, <2>3 DEF BInv, OneAttempt, TypeOK, ExecutionType, Shapes, BoundExists, FoundIsVerified,
                         CanReserve
    <2>6. (PosterIsAlone /\ AnswerIsABuild)'
      BY <1>2, <2>1 DEF BInv, OneAttempt, TypeOK, ExecutionType, PosterIsAlone, AnswerIsABuild, Goes, CanReserve
    <2> QED
      BY <2>2, <2>4, <2>5, <2>6 DEF BInv, OneAttempt
  <1> QED
    BY <1>1, <1>2

LEMMA ClaimKeeps ==
  ASSUME BInv, NEW r \in Requests, Claim(r)
  PROVE  BInv'
  <1>1. CASE ~(NewBuildsAllowed /\ Authorized /\ CanClaim(r))
    BY <1>1, QuietStep DEF Claim
  <1>2. CASE CanClaim(r) /\ rec' = [rec EXCEPT !.dispatched = TRUE]
    <2>1. /\ UNCHANGED <<ticket, sweep, builds, outside, posts>>
          /\ \E at \in {"post", "read"} : Goes(r, at)
      BY <1>2 DEF Claim
    <2>2. TypeOK'
      <3>1. rec' \in ExecutionType /\ rec'.nonce = ticket'
        BY <1>2, <2>1 DEF BInv, OneAttempt, TypeOK, ExecutionType
      <3> QED
        BY <2>1, <3>1 DEF BInv, OneAttempt, TypeOK, Goes, outside
    <2>3. (OnePost /\ OneEngine /\ BoundIsVerified)'
      BY <1>2, <2>1 DEF BInv, OneAttempt, TypeOK, ExecutionType, OnePost, OneEngine, BoundIsVerified
    <2>4. (Shapes /\ BoundExists /\ FoundIsVerified)'
      BY <1>2, <2>1 DEF BInv, OneAttempt, TypeOK, ExecutionType, Shapes, BoundExists, FoundIsVerified, Verified
    <2>5. (PosterIsAlone /\ AnswerIsABuild)'
      BY <1>2, <2>1 DEF BInv, OneAttempt, OnePost, TypeOK, ExecutionType, Shapes, PosterIsAlone, AnswerIsABuild,
                        Goes, CanClaim
    <2> QED
      BY <2>2, <2>3, <2>4, <2>5 DEF BInv, OneAttempt
  <1> QED
    BY <1>1, <1>2 DEF Claim

\* Builds only ever come to be where there was none, so what was verified
\* stays so.
LEMMA NewBuildKeeps ==
  ASSUME BInv, NEW b \in FreeBuilds, NEW n \in Requests, NEW altered \in BOOLEAN,
         builds' = [builds EXCEPT ![b] = NewBuild(n, altered)],
         UNCHANGED <<rec, ticket, sweep>>
  PROVE  /\ builds' \in [Builds -> Build \cup {None}]
         /\ BoundIsVerified' /\ BoundExists' /\ FoundIsVerified'
  <1>1. b \in Builds /\ builds[b] = None
    BY DEF FreeBuilds
  <1>2. builds' \in [Builds -> Build \cup {None}]
    BY <1>1 DEF BInv, Shapes, Build, NewBuild
  <1>3. \A c \in Builds : builds[c] # None => builds'[c] = builds[c]
    BY <1>1 DEF BInv, Shapes
  <1>4. rec.build # 0 => rec.build \in Builds
    BY DEF BInv, OneAttempt, TypeOK, ExecutionType
  <1>5. BoundIsVerified' /\ BoundExists'
    BY <1>3, <1>4 DEF BInv, BoundIsVerified, BoundExists
  <1>6. FoundIsVerified'
    BY <1>3 DEF BInv, FoundIsVerified, Verified
  <1> QED
    BY <1>2, <1>5, <1>6

LEMMA PostKeeps ==
  ASSUME BInv, NEW r \in Requests, Post(r)
  PROVE  BInv'
  <1>1. CASE ~(Authorized /\ NewBuildsAllowed)
    BY <1>1, QuietStep DEF Post
  <1>2. CASE Authorized /\ NewBuildsAllowed
    <2>1. /\ posts' = posts + 1 /\ UNCHANGED <<rec, ticket, sweep, outside>>
          /\ rec.nonce = r /\ rec.dispatched /\ posts = 0
      BY <1>2 DEF Post, BInv, PosterIsAlone
    <2>2. \/ UNCHANGED builds
          \/ \E b \in FreeBuilds, altered \in BOOLEAN :
               builds' = [builds EXCEPT ![b] = NewBuild(r, altered)]
      BY <1>2 DEF Post
    <2>3. \/ Goes(r, "read")
          \/ \E b \in FreeBuilds : req' = [req EXCEPT ![r] = [at |-> "bind", build |-> b]]
      BY <1>2 DEF Post
    <2>4. (OnePost /\ OneEngine)'
      BY <2>1 DEF BInv, OneAttempt, OnePost, OneEngine
    <2>5. (Shapes /\ BoundIsVerified /\ BoundExists /\ FoundIsVerified)'
      <3>1. CASE UNCHANGED builds
        BY <2>1, <3>1 DEF BInv, Shapes, BoundIsVerified, BoundExists, FoundIsVerified, Verified
      <3>2. CASE \E b \in FreeBuilds, altered \in BOOLEAN :
                   builds' = [builds EXCEPT ![b] = NewBuild(r, altered)]
        <4>1. PICK b \in FreeBuilds, altered \in BOOLEAN :
                     builds' = [builds EXCEPT ![b] = NewBuild(r, altered)]
          BY <3>2
        <4>2. /\ builds' \in [Builds -> Build \cup {None}]
              /\ BoundIsVerified' /\ BoundExists' /\ FoundIsVerified'
          BY <2>1, <4>1, NewBuildKeeps
        <4> QED
          BY <2>1, <4>2 DEF Shapes
      <3> QED
        BY <2>2, <3>1, <3>2
    <2>6. TypeOK'
      BY <2>1, <2>3, <2>5 DEF BInv, OneAttempt, TypeOK, Goes, outside, FreeBuilds, Shapes
    <2>7. (PosterIsAlone /\ AnswerIsABuild)'
      BY <2>1, <2>3 DEF BInv, OneAttempt, TypeOK, ExecutionType, PosterIsAlone, AnswerIsABuild, Goes, FreeBuilds
    <2> QED
      BY <2>6, <2>4, <2>5, <2>7 DEF BInv, OneAttempt
  <1> QED
    BY <1>1, <1>2

\* Binding a verified build, by its request or by who found it.
LEMMA BindingKeeps ==
  ASSUME BInv, NEW b \in Builds, rec.nonce # None, Verified(rec.nonce, b), CanBind(rec.nonce, b),
         rec' = Bound(b), UNCHANGED <<ticket, builds, outside, posts>>
  PROVE  /\ rec' \in ExecutionType
         /\ rec'.nonce = rec.nonce /\ rec'.dispatched = rec.dispatched
         /\ (OnePost /\ OneEngine /\ BoundIsVerified /\ Shapes /\ BoundExists)'
  <1>1. rec' \in ExecutionType
    BY DEF BInv, OneAttempt, TypeOK, ExecutionType, Bound
  <1>2. (OnePost /\ OneEngine)' /\ rec'.nonce = rec.nonce /\ rec'.dispatched = rec.dispatched
    BY DEF BInv, OneAttempt, TypeOK, ExecutionType, OnePost, OneEngine, Bound
  <1>3. BoundIsVerified'
    BY DEF BInv, OneAttempt, TypeOK, ExecutionType, BoundIsVerified, Bound, CanBind, Verified, Builds
  <1>4. (Shapes /\ BoundExists)'
    BY DEF BInv, OneAttempt, TypeOK, ExecutionType, Shapes, BoundExists, Bound, Verified
  <1> QED
    BY <1>1, <1>2, <1>3, <1>4

LEMMA BindKeeps ==
  ASSUME BInv, NEW r \in Requests, Bind(r)
  PROVE  BInv'
  <1> USE BootstrapAssumption
  <1> DEFINE b == req[r].build
  <1>1. CASE ~(Verified(r, b) /\ CanBind(r, b))
    BY <1>1, QuietStep DEF Bind
  <1>2. CASE Verified(r, b) /\ CanBind(r, b)
    <2>1. /\ rec' = Bound(b) /\ UNCHANGED <<ticket, sweep, builds, outside, posts>>
          /\ \E at \in {"read", "done"} : Goes(r, at)
      BY <1>2 DEF Bind
    <2>2. b \in Builds /\ rec.nonce = r /\ rec.nonce # None
      BY <1>2 DEF BInv, AnswerIsABuild, Bind, CanBind
    <2>3. /\ rec' \in ExecutionType /\ rec'.nonce = rec.nonce /\ rec'.dispatched = rec.dispatched
          /\ (OnePost /\ OneEngine /\ BoundIsVerified /\ Shapes /\ BoundExists)'
      BY <1>2, <2>1, <2>2, BindingKeeps
    <2>4. TypeOK'
      BY <2>1, <2>3 DEF BInv, OneAttempt, TypeOK, Goes, outside
    <2>5. FoundIsVerified'
      BY <2>1, <2>3 DEF BInv, FoundIsVerified, Verified
    <2>6. (PosterIsAlone /\ AnswerIsABuild)'
      BY <2>1, <2>3 DEF BInv, OneAttempt, TypeOK, PosterIsAlone, AnswerIsABuild, Goes
    <2> QED
      BY <2>3, <2>4, <2>5, <2>6 DEF BInv, OneAttempt
  <1> QED
    BY <1>1, <1>2

\* Steps that change the status, the token, the report or the GitHub run of the
\* record and nothing that the builds, requests and reconciliations refer to.
LEMMA RecordStep ==
  ASSUME BInv, rec' \in ExecutionType,
         rec'.nonce = rec.nonce, rec'.dispatched = rec.dispatched,
         rec'.build = rec.build, rec'.verified = rec.verified,
         rec'.run => rec.run \/ rec.nonce = None,
         rec'.token \in {0, rec.build}, rec'.report # "none" => rec'.token # 0,
         rec'.status \in {"quality_passed", "quality_failed"} =>
           rec'.report = rec'.status /\ rec'.token # 0,
         UNCHANGED <<ticket, posts>>,
         builds' \in [Builds -> Build \cup {None}],
         \A c \in Builds : builds[c] # None =>
           /\ builds'[c] # None
           /\ builds'[c].nonce = builds[c].nonce /\ builds'[c].altered = builds[c].altered
  PROVE  /\ rec' \in ExecutionType /\ (rec.nonce = ticket)'
         /\ (OnePost /\ OneEngine /\ BoundIsVerified /\ Shapes /\ BoundExists)'
  <1>1. rec.build # 0 => rec.build \in Builds
    BY DEF BInv, OneAttempt, TypeOK, ExecutionType
  <1>2. (rec.nonce = ticket)' /\ OnePost' /\ OneEngine' /\ Shapes'
    BY DEF BInv, OneAttempt, TypeOK, OnePost, OneEngine, Shapes
  <1>3. BoundExists'
    BY <1>1 DEF BInv, BoundExists
  <1>4. BoundIsVerified'
    BY <1>1, <1>3 DEF BInv, BoundIsVerified, BoundExists
  <1> QED
    BY <1>2, <1>3, <1>4

LEMMA MakeUnknownKeeps ==
  ASSUME BInv, NEW r \in Requests, MakeUnknown(r)
  PROVE  BInv'
  <1>1. /\ Goes(r, "done") /\ UNCHANGED <<ticket, sweep, builds, outside, posts>>
        /\ rec' = rec \/ rec' = [rec EXCEPT !.status = "unknown"]
    BY DEF MakeUnknown
  <1>2. CASE rec' = rec
    BY <1>1, <1>2, QuietStep
  <1>3. CASE rec' = [rec EXCEPT !.status = "unknown"]
    <2>1. /\ rec' \in ExecutionType
          /\ rec'.nonce = rec.nonce /\ rec'.dispatched = rec.dispatched
          /\ rec'.build = rec.build /\ rec'.verified = rec.verified /\ rec'.run = rec.run
          /\ rec'.token = rec.token /\ rec'.report = rec.report /\ rec'.status = "unknown"
      BY <1>3 DEF BInv, OneAttempt, TypeOK, ExecutionType
    <2>2. (OnePost /\ OneEngine /\ BoundIsVerified /\ Shapes /\ BoundExists)'
      <3>1. rec.token \in {0, rec.build} /\ (rec.report # "none" => rec.token # 0)
        BY DEF BInv, BoundIsVerified, BoundExists
      <3>2. builds' \in [Builds -> Build \cup {None}]
        BY <1>1 DEF BInv, Shapes
      <3> QED
        BY <1>1, <2>1, <3>1, <3>2, RecordStep
    <2>3. TypeOK'
      BY <1>1, <2>1 DEF BInv, OneAttempt, TypeOK, Goes, outside
    <2>4. (PosterIsAlone /\ AnswerIsABuild /\ FoundIsVerified)'
      BY <1>1, <2>1 DEF BInv, OneAttempt, TypeOK, PosterIsAlone, AnswerIsABuild,
                        FoundIsVerified, Verified, Goes
    <2> QED
      BY <2>2, <2>3, <2>4 DEF BInv, OneAttempt
  <1> QED
    BY <1>1, <1>2, <1>3

LEMMA RequestKeeps ==
  ASSUME BInv, NEW r \in Requests, Step(r) \/ Crash(r)
  PROVE  BInv'
  <1>1. CASE Begin(r)
    BY <1>1, QuietStep DEF Begin
  <1>2. CASE Prove(r, "proof", "reserve", "done")
    BY <1>2, QuietStep DEF Prove
  <1>3. CASE Prove(r, "reproof", "claim", "read")
    BY <1>3, QuietStep DEF Prove
  <1>4. CASE Recheck(r)
    BY <1>4, QuietStep DEF Recheck
  <1>5. CASE ReadLatest(r)
    BY <1>5, QuietStep DEF ReadLatest
  <1>6. CASE Crash(r)
    BY <1>6, QuietStep DEF Crash
  <1> QED
    BY <1>1, <1>2, <1>3, <1>4, <1>5, <1>6, ReserveKeeps, ClaimKeeps, PostKeeps, BindKeeps,
       MakeUnknownKeeps DEF Step

-----------------------------------------------------------------------------
\* What a listing finds is verified.
LEMMA FoundBuilds ==
  ASSUME BInv, NEW caller, NEW b \in Found(caller)
  PROVE  b \in Builds /\ Verified(rec.nonce, b)
  BY DEF Found, Carrying, BInv, OneAttempt, TypeOK, ExecutionType

LEMMA LookKeeps ==
  ASSUME BInv, NEW s \in Sweepers \cup Callbacks, NEW caller \in {0} \cup Builds,
         Look(s, caller)
  PROVE  BInv'
  <1>1. rec.nonce # None /\ UNCHANGED <<rec, ticket, req, builds, outside, posts>>
    BY DEF Look
  <1>2. \/ \E b \in Found(caller) :
             sweep' = [sweep EXCEPT ![s] = [at |-> "bind", caller |-> caller, build |-> b]]
        \/ sweep' = [sweep EXCEPT ![s] = [at |-> "admit", build |-> caller, caller |-> caller]]
    BY DEF Look
  <1>3. TypeOK'
    BY <1>1, <1>2, FoundBuilds DEF BInv, OneAttempt, TypeOK, outside
  <1>4. FoundIsVerified'
    BY <1>1, <1>2, FoundBuilds DEF BInv, OneAttempt, TypeOK, FoundIsVerified, Verified
  <1>5. (OnePost /\ OneEngine /\ BoundIsVerified /\ Shapes /\ BoundExists
          /\ PosterIsAlone /\ AnswerIsABuild)'
    BY <1>1 DEF BInv, OneAttempt, OnePost, OneEngine, BoundIsVerified, Shapes, BoundExists,
                PosterIsAlone, AnswerIsABuild
  <1> QED
    BY <1>3, <1>4, <1>5 DEF BInv, OneAttempt

LEMMA BindFoundKeeps ==
  ASSUME BInv, NEW s \in Sweepers \cup Callbacks, BindFound(s)
  PROVE  BInv'
  <1> DEFINE b == sweep[s].build
  <1>1. /\ UNCHANGED <<ticket, req, builds, outside, posts>>
        /\ b \in Builds /\ rec.nonce # None /\ Verified(rec.nonce, b)
    BY DEF BindFound, BInv, FoundIsVerified
  <1>2. \/ \E at \in {"idle", "admit"} : sweep' = [sweep EXCEPT ![s].at = at]
        \/ sweep' = [sweep EXCEPT ![s] = Asleep]
    BY DEF BindFound
  <1>3. /\ rec' \in ExecutionType /\ rec'.nonce = rec.nonce /\ rec'.dispatched = rec.dispatched
        /\ (OnePost /\ OneEngine /\ BoundIsVerified /\ Shapes /\ BoundExists)'
    <2>1. CASE CanBind(rec.nonce, b) /\ rec' = Bound(b)
      BY <1>1, <2>1, BindingKeeps
    <2>2. CASE UNCHANGED rec
      BY <1>1, <2>2 DEF BInv, OneAttempt, TypeOK, OnePost, OneEngine, BoundIsVerified,
                        Shapes, BoundExists
    <2> QED
      BY <2>1, <2>2 DEF BindFound
  <1>4. TypeOK'
    BY <1>1, <1>2, <1>3 DEF BInv, OneAttempt, TypeOK, outside, Asleep
  <1>5. FoundIsVerified'
    BY <1>1, <1>2, <1>3 DEF BInv, OneAttempt, TypeOK, FoundIsVerified, Verified, Asleep
  <1>6. (PosterIsAlone /\ AnswerIsABuild)'
    BY <1>1, <1>3 DEF BInv, PosterIsAlone, AnswerIsABuild
  <1> QED
    BY <1>3, <1>4, <1>5, <1>6 DEF BInv, OneAttempt

\* What follows RecordStep for a step of nobody's request or reconciliation.
LEMMA RecordKeeps ==
  ASSUME BInv, rec' \in ExecutionType,
         rec'.nonce = rec.nonce, rec'.dispatched = rec.dispatched,
         rec'.build = rec.build, rec'.verified = rec.verified,
         rec'.run => rec.run \/ rec.nonce = None,
         rec'.token \in {0, rec.build}, rec'.report # "none" => rec'.token # 0,
         rec'.status \in {"quality_passed", "quality_failed"} =>
           rec'.report = rec'.status /\ rec'.token # 0,
         UNCHANGED <<ticket, req, outside, posts>>,
         sweep' = sweep \/ \E s \in Sweepers \cup Callbacks : sweep' = [sweep EXCEPT ![s] = Asleep],
         builds' \in [Builds -> Build \cup {None}],
         \A c \in Builds : builds[c] # None =>
           /\ builds'[c] # None
           /\ builds'[c].nonce = builds[c].nonce /\ builds'[c].altered = builds[c].altered
  PROVE  BInv'
  <1>1. /\ (rec.nonce = ticket)'
        /\ (OnePost /\ OneEngine /\ BoundIsVerified /\ Shapes /\ BoundExists)'
    BY RecordStep
  <1>2. TypeOK'
    BY <1>1 DEF BInv, OneAttempt, TypeOK, outside, Asleep
  <1>3. FoundIsVerified'
    BY DEF BInv, OneAttempt, TypeOK, FoundIsVerified, Verified, Asleep
  <1>4. (PosterIsAlone /\ AnswerIsABuild)'
    BY DEF BInv, PosterIsAlone, AnswerIsABuild
  <1> QED
    BY <1>1, <1>2, <1>3, <1>4 DEF BInv, OneAttempt

\* The part of the invariant that RecordKeeps asks for when builds are left alone.
LEMMA Standing ==
  ASSUME BInv
  PROVE  /\ rec \in ExecutionType /\ rec.token \in {0, rec.build}
         /\ rec.report # "none" => rec.token # 0
         /\ rec.status \in {"quality_passed", "quality_failed"} =>
              rec.report = rec.status /\ rec.token # 0
         /\ builds \in [Builds -> Build \cup {None}]
  BY DEF BInv, OneAttempt, TypeOK, BoundIsVerified, BoundExists, Shapes

LEMMA IssueTokenKeeps ==
  ASSUME BInv, NEW s \in Sweepers \cup Callbacks, IssueToken(s)
  PROVE  BInv'
  <1>1. /\ UNCHANGED <<ticket, req, builds, outside, posts>>
        /\ sweep' = [sweep EXCEPT ![s] = Asleep]
    BY DEF IssueToken
  <1>2. CASE CanIssue(sweep[s].build)
    <2>1. rec' = [rec EXCEPT !.token = rec.build] /\ rec.token = 0 /\ rec.status \notin Terminal
      BY <1>2 DEF IssueToken, CanIssue
    <2>2. /\ rec' \in ExecutionType /\ rec'.nonce = rec.nonce
          /\ rec'.dispatched = rec.dispatched /\ rec'.build = rec.build
          /\ rec'.verified = rec.verified /\ rec'.run = rec.run /\ rec'.token = rec.build
          /\ rec'.report = "none" /\ rec'.status \notin {"quality_passed", "quality_failed"}
      BY <2>1, Standing DEF ExecutionType, Terminal
    <2> QED
      BY <1>1, <2>2, Standing, RecordKeeps
  <1>3. CASE ~CanIssue(sweep[s].build)
    <2>1. rec' = rec
      BY <1>3 DEF IssueToken
    <2> QED
      BY <1>1, <2>1, Standing, RecordKeeps
  <1> QED
    BY <1>2, <1>3

\* A build that ends keeps what it was verified by.
LEMMA EndingKeeps ==
  ASSUME builds \in [Builds -> Build \cup {None}], NEW b \in Builds, builds[b] # None,
         NEW state \in {"succeeded", "failed"}, builds' = [builds EXCEPT ![b].state = state]
  PROVE  /\ builds' \in [Builds -> Build \cup {None}]
         /\ \A c \in Builds : builds[c] # None =>
              /\ builds'[c] # None
              /\ builds'[c].nonce = builds[c].nonce /\ builds'[c].altered = builds[c].altered
  <1>1. builds[b] \in Build
    OBVIOUS
  <1>2. \A c \in Builds : c # b => builds'[c] = builds[c]
    OBVIOUS
  <1>3. /\ builds'[b] \in Build
        /\ builds'[b].nonce = builds[b].nonce /\ builds'[b].altered = builds[b].altered
    BY <1>1 DEF Build
  <1>4. builds'[b] # None
    BY <1>3, BootstrapAssumption
  <1>5. builds' \in [Builds -> Build \cup {None}]
    BY <1>3
  <1> QED
    BY <1>2, <1>3, <1>4, <1>5

LEMMA ReportKeeps ==
  ASSUME BInv, NEW b \in Builds, NEW v \in {"quality_passed", "quality_failed"}, Report(b, v)
  PROVE  BInv'
  <1>1. /\ UNCHANGED <<ticket, req, sweep, outside, posts>> /\ builds[b] # None
        /\ rec' = [rec EXCEPT !.report = v] /\ builds' = [builds EXCEPT ![b].state = "succeeded"]
        /\ rec.token = b /\ rec.status \notin Terminal
    BY DEF Report, CanReport
  <1>2. /\ rec' \in ExecutionType /\ rec'.nonce = rec.nonce
        /\ rec'.dispatched = rec.dispatched /\ rec'.build = rec.build
        /\ rec'.verified = rec.verified /\ rec'.run = rec.run /\ rec'.token = rec.token
        /\ rec'.status \notin {"quality_passed", "quality_failed"} /\ rec'.token # 0
    <2>1. b # 0
      BY BootstrapAssumption DEF Builds
    <2> QED
      BY <1>1, <2>1, Standing DEF ExecutionType, Terminal
  <1>3. /\ builds' \in [Builds -> Build \cup {None}]
        /\ \A c \in Builds : builds[c] # None =>
             /\ builds'[c] # None
             /\ builds'[c].nonce = builds[c].nonce /\ builds'[c].altered = builds[c].altered
    BY <1>1, Standing, EndingKeeps
  <1> QED
    BY <1>1, <1>2, <1>3, Standing, RecordKeeps

LEMMA ConsolidateKeeps ==
  ASSUME BInv, Consolidate
  PROVE  BInv'
  <1>1. UNCHANGED <<ticket, req, sweep, builds, outside, posts>>
    BY DEF Consolidate
  <1>2. \E status \in {"failed"} \cup ({rec.report} \ {"none"}) :
          rec' = [rec EXCEPT !.status = status]
    BY DEF Consolidate
  <1>3. /\ rec' \in ExecutionType /\ rec'.nonce = rec.nonce
        /\ rec'.dispatched = rec.dispatched /\ rec'.build = rec.build
        /\ rec'.verified = rec.verified /\ rec'.run = rec.run /\ rec'.token = rec.token
        /\ rec'.report = rec.report
        /\ rec'.status = "failed" \/ (rec'.status = rec.report /\ rec.report # "none")
    BY <1>2, Standing DEF ExecutionType, Terminal
  <1> QED
    BY <1>1, <1>3, Standing, RecordKeeps

LEMMA AdmitKeeps ==
  ASSUME BInv, Admit
  PROVE  BInv'
  <1>1. /\ UNCHANGED <<ticket, req, sweep, builds, outside, posts>>
        /\ rec' = [rec EXCEPT !.run = TRUE] /\ rec.nonce = None
    BY DEF Admit, CanAdmit
  <1>2. /\ rec' \in ExecutionType /\ rec'.nonce = rec.nonce
        /\ rec'.dispatched = rec.dispatched /\ rec'.build = rec.build
        /\ rec'.verified = rec.verified /\ rec'.token = rec.token
        /\ rec'.report = rec.report /\ rec'.status = rec.status
    BY <1>1, Standing DEF ExecutionType
  <1> QED
    BY <1>1, <1>2, Standing, RecordKeeps

LEMMA OutsideKeeps ==
  ASSUME BInv, Outside \/ StartRun
  PROVE  BInv'
  <1> USE BootstrapAssumption
  <1>1. UNCHANGED <<rec, ticket, req, sweep, posts>>
    BY DEF Outside, StartRun
  <1>2. (OnePost /\ OneEngine /\ PosterIsAlone /\ AnswerIsABuild)'
    BY <1>1 DEF BInv, OneAttempt, OnePost, OneEngine, PosterIsAlone, AnswerIsABuild
  <1>3. \/ UNCHANGED builds
        \/ \E b \in FreeBuilds, altered \in BOOLEAN :
             rec.nonce # None /\ builds' = [builds EXCEPT ![b] = NewBuild(rec.nonce, altered)]
    BY DEF Outside, StartRun
  <1>4. (Shapes /\ BoundIsVerified /\ BoundExists /\ FoundIsVerified)'
    <2>1. CASE UNCHANGED builds
      BY <1>1, <2>1 DEF BInv, Shapes, BoundIsVerified, BoundExists, FoundIsVerified, Verified
    <2>2. CASE ~UNCHANGED builds
      <3>1. PICK b \in FreeBuilds, altered \in BOOLEAN :
              rec.nonce # None /\ builds' = [builds EXCEPT ![b] = NewBuild(rec.nonce, altered)]
        BY <1>3, <2>2
      <3>2. rec.nonce \in Requests
        BY <3>1, Standing DEF ExecutionType
      <3>3. /\ builds' \in [Builds -> Build \cup {None}]
            /\ BoundIsVerified' /\ BoundExists' /\ FoundIsVerified'
        BY <1>1, <3>1, <3>2, NewBuildKeeps
      <3> QED
        BY <1>1, <3>3 DEF BInv, Shapes
    <2> QED
      BY <2>1, <2>2
  <1>5. TypeOK'
    <2>1. workflow' \in {"disabled", "enabled", "ran"} /\ holding' \subseteq Conditions
      BY DEF BInv, OneAttempt, TypeOK, Outside, StartRun
    <2> QED
      BY <1>1, <1>4, <2>1 DEF BInv, OneAttempt, TypeOK, Shapes
  <1> QED
    BY <1>5, <1>2, <1>4 DEF BInv, OneAttempt

LEMMA EndBuildKeeps ==
  ASSUME BInv, NEW b \in Builds, EndBuild(b)
  PROVE  BInv'
  <1>1. /\ UNCHANGED <<rec, ticket, req, sweep, outside, posts>> /\ builds[b] # None
        /\ builds' = [builds EXCEPT ![b].state = "failed"]
    BY DEF EndBuild
  <1>2. /\ builds' \in [Builds -> Build \cup {None}]
        /\ \A c \in Builds : builds[c] # None =>
             /\ builds'[c] # None
             /\ builds'[c].nonce = builds[c].nonce /\ builds'[c].altered = builds[c].altered
    BY <1>1, Standing, EndingKeeps
  <1> QED
    BY <1>1, <1>2, Standing, RecordKeeps

-----------------------------------------------------------------------------
LEMMA NextKeeps == BInv /\ [Next]_vars => BInv'
  <1> SUFFICES ASSUME BInv, [Next]_vars PROVE BInv'
    OBVIOUS
  <1>1. CASE \E r \in Requests : Step(r) \/ Crash(r)
    BY <1>1, RequestKeeps
  <1>2. CASE \E s \in Sweepers : Sweep(s)
    BY <1>2, LookKeeps, BindFoundKeeps DEF Sweep
  <1>3. CASE \E s \in Callbacks : Serve(s) \/ \E b \in Builds : Look(s, b)
    BY <1>3, LookKeeps, BindFoundKeeps, IssueTokenKeeps DEF Serve
  <1>4. CASE \E b \in Builds, v \in {"quality_passed", "quality_failed"} : Report(b, v)
    BY <1>4, ReportKeeps
  <1>5. CASE \E b \in Builds : EndBuild(b)
    BY <1>5, EndBuildKeeps
  <1>6. CASE Consolidate \/ Admit \/ Outside \/ StartRun
    BY <1>6, ConsolidateKeeps, AdmitKeeps, OutsideKeeps
  <1>7. CASE UNCHANGED vars
    BY <1>7, Standing, RecordKeeps DEF vars
  <1> QED
    BY <1>1, <1>2, <1>3, <1>4, <1>5, <1>6, <1>7 DEF Next

\* The inductive invariant: one attempt with one owner, a bound build that was
\* verified, and what requests and reconciliations in progress know of them
\* (ReleaseQualityBootstrapService and its store transactions).
THEOREM BootstrapInvariant == Spec => []BInv
  BY BInit, NextKeeps, PTL DEF Spec

\* At most one POST and one engine for every number of requests, crashes, lost
\* answers and changes outside (reserve_quality_bootstrap,
\* claim_quality_bootstrap_dispatch, admit_github_run).
THEOREM BootstrapHappensOnce == Spec => []OneAttempt
  <1>1. BInv => OneAttempt
    BY DEF BInv
  <1> QED
    BY <1>1, BootstrapInvariant, PTL

\* Only the build that was asked for is bound, gets the token and decides,
\* however many copies of it were started
\* (verify_quality_bootstrap_build, reconcile_quality_bootstrap).
THEOREM BoundBuildIsTheAskedOne == Spec => []BoundIsVerified
  <1>1. BInv => BoundIsVerified
    BY DEF BInv
  <1> QED
    BY <1>1, BootstrapInvariant, PTL

-----------------------------------------------------------------------------
Final == /\ ticket # None => ticket' = ticket /\ rec'.nonce = rec.nonce
         /\ rec.build # 0 => rec'.build = rec.build
         /\ rec.status \in Terminal => rec'.status = rec.status

\* Transactions on a record with the same nonce, which may settle an open one.
LEMMA SettledStays ==
  ASSUME BInv, NEW status, rec.status \in Terminal, MayBecome(status)
  PROVE  status = rec.status
  BY DEF MayBecome, Following, Terminal

LEMMA StepIsFinal == BInv /\ [Next]_vars => [Final]_vars
  <1> SUFFICES ASSUME BInv, [Next]_vars PROVE Final
    OBVIOUS
  <1>1. CASE UNCHANGED <<rec, ticket>>
    BY <1>1 DEF Final
  <1>2. CASE \E r \in Requests : Reserve(r) /\ CanReserve(r) /\ rec' = Reserved(r)
    <2>1. ticket = None /\ rec.nonce = None /\ rec.status = "waiting_github"
      BY <1>2 DEF CanReserve
    <2>2. rec.build = 0
      BY <2>1 DEF BInv, BoundExists
    <2> QED
      BY <2>1, <2>2 DEF Final, Terminal
  <1>3. CASE /\ UNCHANGED ticket
             /\ \E b : rec' = Bound(b) /\ CanBind(rec.nonce, b)
    <2>1. PICK b : rec' = Bound(b) /\ rec.build \in {0, b} /\ MayBecome("running_quality")
      BY <1>3 DEF CanBind
    <2>2. rec.status \notin Terminal
      BY <2>1, SettledStays DEF Terminal
    <2>3. rec'.nonce = rec.nonce /\ rec'.build = b
      BY <2>1, Standing DEF Bound, ExecutionType
    <2> QED
      BY <1>3, <2>1, <2>2, <2>3 DEF Final
  <1>4. CASE /\ UNCHANGED ticket
             /\ rec' = [rec EXCEPT !.status = "unknown"] /\ MayBecome("unknown")
    <2>1. rec.status \notin Terminal
      BY <1>4, SettledStays DEF Terminal
    <2>2. rec'.nonce = rec.nonce /\ rec'.build = rec.build
      BY <1>4, Standing DEF ExecutionType
    <2> QED
      BY <1>4, <2>1, <2>2 DEF Final
  <1>5. CASE /\ UNCHANGED ticket /\ rec.status = "running_quality"
             /\ rec'.nonce = rec.nonce /\ rec'.build = rec.build
    BY <1>5 DEF Final, Terminal
  <1>6. CASE /\ UNCHANGED ticket /\ rec'.status = rec.status
             /\ rec'.nonce = rec.nonce /\ rec'.build = rec.build
    BY <1>6 DEF Final
  <1>7. CASE \E r \in Requests : Step(r) \/ Crash(r)
    <2>1. PICK r \in Requests : Step(r) \/ Crash(r)
      BY <1>7
    <2>2. CASE Begin(r) \/ Prove(r, "proof", "reserve", "done") \/ Recheck(r)
               \/ Prove(r, "reproof", "claim", "read") \/ Post(r) \/ ReadLatest(r) \/ Crash(r)
      BY <1>1, <2>2 DEF Begin, Prove, Recheck, Post, ReadLatest, Crash
    <2>3. CASE Reserve(r)
      BY <1>1, <1>2, <2>3 DEF Reserve
    <2>4. CASE Claim(r)
      <3>1. CASE rec' = [rec EXCEPT !.dispatched = TRUE]
        <4>1. UNCHANGED ticket /\ rec'.status = rec.status /\ rec'.nonce = rec.nonce
              /\ rec'.build = rec.build
          BY <2>4, <3>1, Standing DEF Claim, ExecutionType
        <4> QED
          BY <4>1, <1>6
      <3> QED
        BY <1>1, <2>4, <3>1 DEF Claim
    <2>5. CASE Bind(r)
      BY <1>1, <1>3, <2>5 DEF Bind, CanBind
    <2>6. CASE MakeUnknown(r)
      BY <1>1, <1>4, <2>6 DEF MakeUnknown
    <2> QED
      BY <2>1, <2>2, <2>3, <2>4, <2>5, <2>6 DEF Step
  <1>8. CASE \E s \in Sweepers \cup Callbacks :
               \/ BindFound(s) \/ IssueToken(s)
               \/ \E caller \in {0} \cup Builds : Look(s, caller)
    <2>1. PICK s \in Sweepers \cup Callbacks :
               \/ BindFound(s) \/ IssueToken(s)
               \/ \E caller \in {0} \cup Builds : Look(s, caller)
      BY <1>8
    <2>2. CASE \E caller \in {0} \cup Builds : Look(s, caller)
      BY <1>1, <2>2 DEF Look
    <2>3. CASE BindFound(s)
      BY <1>1, <1>3, <2>3 DEF BindFound
    <2>4. CASE IssueToken(s)
      <3>1. UNCHANGED ticket /\ rec'.status = rec.status /\ rec'.nonce = rec.nonce
            /\ rec'.build = rec.build
        BY <2>4, Standing DEF IssueToken, ExecutionType
      <3> QED
        BY <3>1, <1>6
    <2> QED
      BY <2>1, <2>2, <2>3, <2>4
  <1>9. CASE \E b \in Builds, v \in {"quality_passed", "quality_failed"} : Report(b, v)
    <2>1. UNCHANGED ticket /\ rec'.status = rec.status /\ rec'.nonce = rec.nonce
          /\ rec'.build = rec.build
      BY <1>9, Standing DEF Report, ExecutionType
    <2> QED
      BY <2>1, <1>6
  <1>10. CASE Consolidate
    <2>1. UNCHANGED ticket /\ rec.status = "running_quality" /\ rec'.nonce = rec.nonce
          /\ rec'.build = rec.build
      BY <1>10, Standing DEF Consolidate, ExecutionType
    <2> QED
      BY <2>1, <1>5
  <1>11. CASE Admit
    <2>1. UNCHANGED ticket /\ rec'.status = rec.status /\ rec'.nonce = rec.nonce
          /\ rec'.build = rec.build
      BY <1>11, Standing DEF Admit, ExecutionType
    <2> QED
      BY <2>1, <1>6
  <1>12. CASE Outside \/ StartRun \/ \E b \in Builds : EndBuild(b)
    BY <1>1, <1>12 DEF Outside, StartRun, EndBuild
  <1>13. CASE UNCHANGED vars
    BY <1>1, <1>13 DEF vars
  <1> QED
    BY <1>7, <1>8, <1>9, <1>10, <1>11, <1>12, <1>13 DEF Next, Sweep, Serve

\* Ticket, binding and verdict never change again, whatever late handlers and
\* repeated requests do (_validate_changes, update_quality_bootstrap,
\* _validate_status_change).
THEOREM BootstrapIsFinal == Spec => AttemptIsFinal
  <1>1. BInv /\ [Next]_vars => [Final]_vars
    BY StepIsFinal
  <1>2. Spec => [][Final]_vars
    BY <1>1, BootstrapInvariant, PTL DEF Spec
  <1> QED
    BY <1>2 DEF AttemptIsFinal, Final
=============================================================================
