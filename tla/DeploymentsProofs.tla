------------------------- MODULE DeploymentsProofs -------------------------
(***************************************************************************)
(* The deployment commands of a service, for every set of keys and         *)
(* handlers, every request and every number of calls and faults.           *)
(***************************************************************************)
EXTENDS Deployments, SequenceTheorems, TLAPS

(* Types.                                                                  *)

Tickets == {"issued", "consumed", "revoked"}
WorkflowSteps == {"reserve", "claim", "reclaim", "lookup", "dispatch", "record", "revoke"}
BuildSteps == {"submit", "claim_submission", "post", "settle", "bind", "announce"}
CallerSteps == {"idle", "intend", "create", "unintend", "save", "fail", "dead"}
                  \cup WorkflowSteps \cup BuildSteps

\* What is said of a run, and what is said of one that is over.
Verdicts == {"succeeded", "rolled_back", "failed"}
Told == Verdicts \cup {"active", "unknown"}

ExecRecord == [status : ExecStatus, build : Nat, seq : 0..4]
RunRecord == [state : RunState, token : Nat, moved : BOOLEAN]
CallerRecord == [at : CallerSteps, retry : BOOLEAN, note : ExecStatus \cup ItemStatus]
HandlerRecord == [at : {"idle", "accept", "write"}, key : Keys \cup {None}, seq : 0..4,
                  status : ItemStatus]
Event == [key : Keys, run : Nat, seq : 1..4, verdict : Told]

Types ==
  /\ load \in Workload
  /\ fence \in Keys \cup {None} /\ intent \subseteq Keys
  /\ item \in [Keys -> ItemStatus] /\ exec \in [Keys -> ExecRecord]
  /\ token \in [Keys -> Seq(Tickets)] /\ runs \in [Keys -> Seq(RunRecord)]
  /\ live \in Keys \cup {None}
  /\ caller \in [Keys -> CallerRecord] /\ handler \in [Handlers -> HandlerRecord]
  /\ mail \subseteq Event
  /\ calls \in [Keys -> Nat] /\ faults \in Nat /\ excused \subseteq Keys

----------------------------------------------------------------------------
(* The runs of a command.                                                  *)

Begun == Busy \cup (Ended \ {"void"})
Sent(k) == runs[k] # <<>>
Moved(k) == \E i \in DOMAIN runs[k] : runs[k][i].moved

\* A run that no authorization lets begin any more.
Barred(k, i) == Github(k) /\ runs[k][i].state = "queued" /\ Ticket(k, i) # "issued"

\* What has not begun will not begin; and nothing is under way either.
Settled(k) == \A i \in DOMAIN runs[k] : runs[k][i].state \in Busy \cup Ended \/ Barred(k, i)
Quiet(k) == \A i \in DOMAIN runs[k] : runs[k][i].state \in Ended \/ Barred(k, i)

\* All attempts of a command share one authorization, and only the last of them
\* may still act; what began has used the authorization up.
Attempts ==
  \A k \in Keys :
    /\ ~Github(k) => Len(runs[k]) <= 1
    /\ \A i \in DOMAIN runs[k] :
         /\ runs[k][i].token = runs[k][1].token /\ runs[k][i].token \in 0..Len(token[k])
         /\ i # Len(runs[k]) => runs[k][i].state \in Ended \ {"void"}
         /\ Github(k) => runs[k][i].token > 0
         /\ Github(k) /\ runs[k][i].state \in Begun =>
              Ticket(k, i) # "issued"

\* Only a deployment restores, and what succeeded or serves has moved production.
Effects ==
  /\ \A k \in Keys : \A i \in DOMAIN runs[k] :
       /\ runs[k][i].state \in {"failing", "restoring", "restored"} =>
            load.ask[k].kind = "deploy"
       /\ runs[k][i].state = "succeeded" => runs[k][i].moved
  /\ live # None => Moved(live)

----------------------------------------------------------------------------
(* The caller and its record.                                              *)

\* The fence is with the one command that has a caller, dead or alive.
Fenced(k) == caller[k].at # "idle" <=> fence = k

\* An intent, and a key without a deployment, stand before everything else.
Unborn(k) ==
  /\ item[k] = "none" \/ k \in intent =>
       /\ ~Sent(k) /\ exec[k] = NoExec /\ item[k] \in {"none", "queued"}
       /\ caller[k].at \in {"idle", "intend", "create", "unintend", "dead"}
  /\ caller[k].at \in {"intend", "create"} => item[k] = "none"
  /\ caller[k].at \in {"create", "unintend"} => k \in intent
  /\ caller[k].at \notin {"idle", "intend", "create", "dead"} => item[k] # "none"
  /\ Github(k) /\ item[k] # "none" => token[k] # <<>>

\* One dispatch: whatever it became, the record tells of it.
Dispatched(k) ==
  /\ caller[k].at \in BuildSteps => ~Github(k)
  /\ Github(k) => /\ Sent(k) => exec[k].status \in {"GITHUB_DISPATCHING", "GITHUB_ACCEPTED",
                                                    "GITHUB_UNCERTAIN"}
                  /\ exec[k].build = 0
  /\ caller[k].at \in WorkflowSteps =>
       /\ Github(k)
       /\ caller[k].at \in {"reserve", "claim"} => ~Sent(k)
       /\ caller[k].at \in {"lookup", "dispatch"} =>
            ~Sent(k) /\ exec[k].status = "GITHUB_DISPATCHING"
       /\ caller[k].at = "lookup" => caller[k].note \in {"SUBMISSION_PENDING", "GITHUB_REJECTED"}
       /\ caller[k].at = "record" =>
            /\ exec[k].status = "GITHUB_DISPATCHING"
            /\ caller[k].note \in {"GITHUB_ACCEPTED", "GITHUB_REJECTED", "GITHUB_UNCERTAIN"}
            /\ caller[k].note = "GITHUB_REJECTED" => ~Sent(k)

\* One submission: a build in doubt is bound when it shows, never posted again.
Submitted(k) ==
  ~Github(k) =>
    /\ Sent(k) => exec[k].status \in {"SUBMITTING", "SUBMISSION_UNKNOWN", "SUBMISSION_FAILED",
                                      "BOUND"}
    /\ exec[k].status = "SUBMISSION_FAILED" /\ Sent(k) => runs[k][1].state # "inflight"
    /\ exec[k].build # 0 => exec[k].build = 1 /\ Sent(k) /\ runs[k][1].state # "inflight"
    /\ caller[k].at = "claim_submission" /\ CanClaimSubmission(k) => ~Sent(k)
    /\ caller[k].at = "post" => ~Sent(k) /\ exec[k].status = "SUBMITTING"
    /\ caller[k].at = "bind" =>
         Sent(k) /\ exec[k].status = "SUBMITTING" /\ runs[k][1].state # "inflight"
    /\ caller[k].at = "settle" =>
         /\ exec[k].status = "SUBMITTING"
         /\ caller[k].note \in {"SUBMISSION_FAILED", "SUBMISSION_UNKNOWN"}
         /\ caller[k].note = "SUBMISSION_FAILED" /\ Sent(k) => runs[k][1].state # "inflight"

----------------------------------------------------------------------------
(* What is said of a command: stored, read, announced or on its way.       *)

\* Who says more than "queued" speaks of a run; a verdict, of runs that are
\* settled; and success, of production that has moved.
IsTrue(k, status) ==
  /\ status \in Told => Sent(k)
  /\ status \in Verdicts => Settled(k)
  /\ status = Done(k) => Moved(k)

Stored(k) ==
  /\ IsTrue(k, item[k])
  /\ caller[k].at \in {"announce", "save"} =>
       caller[k].note \in ItemStatus \ {"none"} /\ IsTrue(k, caller[k].note)

PostedTruth(e) == ~Github(e.key) /\ e.run = 1 /\ Sent(e.key) /\ IsTrue(e.key, e.verdict)
HeldTruth(h) ==
  handler[h].at # "idle" =>
    /\ handler[h].key \in Keys /\ handler[h].status # "none"
    /\ Sent(handler[h].key) /\ IsTrue(handler[h].key, handler[h].status)

Reports == (\A e \in mail : PostedTruth(e)) /\ (\A h \in Handlers : HeldTruth(h))

----------------------------------------------------------------------------
(* Commands that are not excused.                                          *)

\* If a dispatch is recorded as failed although there is a run, the record is
\* in doubt.
InDoubt(k) == Sent(k) => exec[k].status = "GITHUB_UNCERTAIN"

\* A command that is not excused was dispatched once, and is over when its
\* record says so.
Promised(k) ==
  /\ ~caller[k].retry /\ caller[k].at \notin {"reclaim", "lookup"}
  /\ caller[k].at \in {"unintend", "reserve", "claim", "dispatch", "submit",
                       "claim_submission", "post"} => ~Sent(k) /\ item[k] = "queued"
  /\ caller[k].at \in {"revoke", "fail"} => InDoubt(k)
  /\ caller[k].at \in {"announce", "save"} => caller[k].note = "queued"
  /\ item[k] \in Verdicts => Quiet(k)
  /\ item[k] = "failed_dispatch" => InDoubt(k)
  /\ \A h \in Handlers : handler[h].at # "idle" /\ handler[h].key = k
       /\ handler[h].status = "failed_dispatch" => InDoubt(k)

Orderly(k) == /\ Fenced(k) /\ Unborn(k) /\ Dispatched(k) /\ Submitted(k) /\ Stored(k)
              /\ k \notin excused => Promised(k)

\* One of them at a time has a caller or runs that may still act.
Engaged(k) == fence = k \/ ~Quiet(k)

Exclusive ==
  \A j, k \in Keys \ excused : Engaged(j) /\ Engaged(k) => j = k

DInv == /\ Types /\ Attempts /\ Effects
        /\ \A k \in Keys : Orderly(k)
        /\ Reports /\ Exclusive

----------------------------------------------------------------------------
(* What the updates of sequences and records do.                           *)

\* A run changes, in its state and perhaps in that production has moved.
OneChanges(k, i, state, moved) ==
  /\ runs' \in [Keys -> Seq(RunRecord)]
  /\ \A j \in Keys : DOMAIN runs'[j] = DOMAIN runs[j] /\ Len(runs'[j]) = Len(runs[j])
  /\ \A j \in Keys : \A n \in DOMAIN runs[j] :
       IF j = k /\ n = i
       THEN /\ runs'[j][n].state = state /\ runs'[j][n].token = runs[j][n].token
            /\ runs'[j][n].moved = (runs[j][n].moved \/ moved)
       ELSE runs'[j][n] = runs[j][n]

LEMMA SetRunChangesOne ==
  ASSUME Types, NEW k \in Keys, NEW i \in DOMAIN runs[k], NEW state \in RunState,
         NEW moved \in BOOLEAN, SetRun(k, i, state, moved)
  PROVE  OneChanges(k, i, state, moved)
  <1> DEFINE r == [runs[k][i] EXCEPT !.state = state, !.moved = @ \/ moved]
  <1>1. runs[k] \in Seq(RunRecord) /\ i \in 1..Len(runs[k]) /\ runs[k][i] \in RunRecord
    BY ElementOfSeq DEF Types
  <1>2. r \in RunRecord
    BY <1>1, Zenon DEF RunRecord
  <1>3. r.state = state /\ r.token = runs[k][i].token /\ r.moved = (runs[k][i].moved \/ moved)
    BY <1>1 DEF RunRecord
  <1>4. runs' = [runs EXCEPT ![k] = [runs[k] EXCEPT ![i] = r]]
    BY DEF SetRun
  <1> HIDE DEF r
  <1>5. /\ [runs[k] EXCEPT ![i] = r] \in Seq(RunRecord)
        /\ Len([runs[k] EXCEPT ![i] = r]) = Len(runs[k])
        /\ \A n \in 1..Len(runs[k]) :
             [runs[k] EXCEPT ![i] = r][n] = IF n = i THEN r ELSE runs[k][n]
    BY <1>1, <1>2, ExceptSeq
  <1>6. \A j \in Keys : runs'[j] = IF j = k THEN [runs[k] EXCEPT ![i] = r] ELSE runs[j]
    BY <1>4 DEF Types
  <1>7. runs' \in [Keys -> Seq(RunRecord)]
    BY <1>4, <1>5 DEF Types
  <1>8. \A j \in Keys : DOMAIN runs'[j] = DOMAIN runs[j] /\ Len(runs'[j]) = Len(runs[j])
    BY <1>5, <1>6, <1>7, LenProperties DEF Types
  <1>9. DOMAIN runs[k] = 1..Len(runs[k])
    BY <1>1, LenProperties
  <1> QED
    BY <1>3, <1>5, <1>6, <1>7, <1>8, <1>9 DEF OneChanges

\* A run is added to those of a command.
OneIsAdded(k, r) ==
  /\ runs' \in [Keys -> Seq(RunRecord)]
  /\ \A j \in Keys \ {k} : runs'[j] = runs[j]
  /\ Len(runs'[k]) = Len(runs[k]) + 1 /\ DOMAIN runs'[k] = 1..Len(runs[k]) + 1
  /\ \A n \in DOMAIN runs[k] : runs'[k][n] = runs[k][n]
  /\ runs'[k][Len(runs[k]) + 1] = r

LEMMA AppendAddsOne ==
  ASSUME Types, NEW k \in Keys, NEW r \in RunRecord,
         runs' = [runs EXCEPT ![k] = Append(@, r)]
  PROVE  OneIsAdded(k, r)
  <1>1. runs[k] \in Seq(RunRecord)
    BY DEF Types
  <1>2. /\ Append(runs[k], r) \in Seq(RunRecord) /\ Len(Append(runs[k], r)) = Len(runs[k]) + 1
        /\ \A n \in 1..Len(runs[k]) : Append(runs[k], r)[n] = runs[k][n]
        /\ Append(runs[k], r)[Len(runs[k]) + 1] = r
    BY <1>1, AppendProperties
  <1>3. DOMAIN runs[k] = 1..Len(runs[k])
        /\ DOMAIN Append(runs[k], r) = 1..Len(Append(runs[k], r))
    BY <1>1, <1>2, LenProperties
  <1>4. runs'[k] = Append(runs[k], r) /\ \A j \in Keys \ {k} : runs'[j] = runs[j]
    BY DEF Types
  <1>5. runs' \in [Keys -> Seq(RunRecord)]
    BY <1>2 DEF Types
  <1> QED
    BY <1>2, <1>3, <1>4, <1>5 DEF OneIsAdded

\* Authorizations are added and used up, never renewed.
TicketsExpire ==
  /\ token' \in [Keys -> Seq(Tickets)]
  /\ \A k \in Keys : /\ Len(token[k]) <= Len(token'[k])
                     /\ \A n \in 1..Len(token[k]) :
                          token[k][n] # "issued" => token'[k][n] # "issued"

LEMMA IssueExpires ==
  ASSUME Types, NEW k \in Keys, Issue(k)
  PROVE  TicketsExpire /\ token'[k] # <<>>
  <1>1. token[k] \in Seq(Tickets) /\ "issued" \in Tickets
    BY DEF Types, Tickets
  <1>2. /\ Append(token[k], "issued") \in Seq(Tickets)
        /\ Len(Append(token[k], "issued")) = Len(token[k]) + 1
        /\ \A n \in 1..Len(token[k]) : Append(token[k], "issued")[n] = token[k][n]
    BY <1>1, AppendProperties
  <1>3. \A j \in Keys : token'[j] = IF j = k THEN Append(token[k], "issued") ELSE token[j]
    BY DEF Issue, Types
  <1>4. token' \in [Keys -> Seq(Tickets)]
    BY <1>2 DEF Issue, Types
  <1>5. \A j \in Keys : Len(token[j]) \in Nat
    BY LenProperties DEF Types
  <1>6. Len(<<>>) = 0
    OBVIOUS
  <1> QED
    BY <1>2, <1>3, <1>4, <1>5, <1>6 DEF TicketsExpire

UsesUp(k, n, t) == token' = [token EXCEPT ![k][n] = t]

LEMMA SettingExpires ==
  ASSUME Types, NEW k \in Keys, NEW n \in 1..Len(token[k]), NEW t \in Tickets \ {"issued"},
         UsesUp(k, n, t)
  PROVE  /\ TicketsExpire /\ token'[k][n] = t
         /\ \A j \in Keys : token[j] # <<>> => token'[j] # <<>>
  <1>1. /\ [token[k] EXCEPT ![n] = t] \in Seq(Tickets)
        /\ Len([token[k] EXCEPT ![n] = t]) = Len(token[k])
        /\ \A m \in 1..Len(token[k]) :
             [token[k] EXCEPT ![n] = t][m] = IF m = n THEN t ELSE token[k][m]
    BY ExceptSeq DEF Types
  <1>2. \A j \in Keys : token'[j] = IF j = k THEN [token[k] EXCEPT ![n] = t] ELSE token[j]
    BY DEF UsesUp, Types
  <1>3. token' \in [Keys -> Seq(Tickets)]
    BY <1>1 DEF UsesUp, Types
  <1>4. \A j \in Keys : Len(token[j]) \in Nat
    BY LenProperties DEF Types
  <1>5. token[k] # <<>> /\ token'[k] # <<>>
    BY <1>1, <1>2, <1>4
  <1> QED
    BY <1>1, <1>2, <1>3, <1>4, <1>5 DEF TicketsExpire

\* A caller moves on, a record changes.
Moves(k, at, note) ==
  /\ caller' \in [Keys -> CallerRecord]
  /\ \A j \in Keys \ {k} : caller'[j] = caller[j]
  /\ caller'[k].at = at /\ caller'[k].note = note /\ caller'[k].retry = caller[k].retry

LEMMA CallerMoves ==
  ASSUME Types, NEW k \in Keys, NEW at \in CallerSteps, NEW note \in ExecStatus \cup ItemStatus
  PROVE  /\ Goto(k, at) => Moves(k, at, caller[k].note)
         /\ Note(k, at, note) => Moves(k, at, note)
  <1>1. caller[k] \in CallerRecord /\ caller \in [Keys -> CallerRecord]
    BY DEF Types
  <1>2. [caller[k] EXCEPT !.at = at] \in CallerRecord
        /\ [caller[k] EXCEPT !.at = at, !.note = note] \in CallerRecord
    BY <1>1, Zenon DEF CallerRecord
  <1>3. ASSUME Goto(k, at) PROVE Moves(k, at, caller[k].note)
    <2>1. caller' = [caller EXCEPT ![k] = [caller[k] EXCEPT !.at = at]]
      BY <1>3 DEF Goto
    <2> QED
      BY <1>1, <1>2, <2>1 DEF Moves, CallerRecord
  <1>4. ASSUME Note(k, at, note) PROVE Moves(k, at, note)
    <2>1. caller' = [caller EXCEPT ![k] = [caller[k] EXCEPT !.at = at, !.note = note]]
      BY <1>4 DEF Note
    <2> QED
      BY <1>1, <1>2, <2>1 DEF Moves, CallerRecord
  <1> QED
    BY <1>3, <1>4

Leaves(k) ==
  /\ caller' \in [Keys -> CallerRecord]
  /\ \A j \in Keys \ {k} : caller'[j] = caller[j]
  /\ caller'[k].at = "idle" /\ ~caller'[k].retry

LEMMA CallerLeaves ==
  ASSUME Types, NEW k \in Keys, caller' = [caller EXCEPT ![k] = Idle]
  PROVE  Leaves(k)
  <1>1. Idle \in CallerRecord /\ Idle.at = "idle" /\ ~Idle.retry
    BY DEF Idle, CallerRecord, CallerSteps, ExecStatus
  <1> QED
    BY <1>1 DEF Leaves, Types

Records(k, status, build) ==
  /\ exec' \in [Keys -> ExecRecord]
  /\ \A j \in Keys \ {k} : exec'[j] = exec[j]
  /\ exec'[k].status = status /\ exec'[k].build = build /\ exec'[k].seq = exec[k].seq

LEMMA ExecRecords ==
  ASSUME Types, NEW k \in Keys, NEW status \in ExecStatus, NEW build \in Nat
  PROVE  /\ Mark(k, status) => Records(k, status, exec[k].build)
         /\ exec' = [exec EXCEPT ![k].status = status] => Records(k, status, exec[k].build)
         /\ exec' = [exec EXCEPT ![k].status = status, ![k].build = build] =>
              Records(k, status, build)
  <1>1. exec[k] \in ExecRecord /\ exec \in [Keys -> ExecRecord]
    BY DEF Types
  <1>2. [exec[k] EXCEPT !.status = status] \in ExecRecord
        /\ [exec[k] EXCEPT !.status = status, !.build = build] \in ExecRecord
    BY <1>1, Zenon DEF ExecRecord
  <1>3. ASSUME exec' = [exec EXCEPT ![k].status = status]
        PROVE  Records(k, status, exec[k].build)
    <2>1. exec' = [exec EXCEPT ![k] = [exec[k] EXCEPT !.status = status]]
      BY <1>3
    <2> QED
      BY <1>1, <1>2, <2>1 DEF Records, ExecRecord
  <1>4. ASSUME exec' = [exec EXCEPT ![k].status = status, ![k].build = build]
        PROVE  Records(k, status, build)
    <2>1. exec' = [exec EXCEPT ![k] = [exec[k] EXCEPT !.status = status, !.build = build]]
      BY <1>4
    <2> QED
      BY <1>1, <1>2, <2>1 DEF Records, ExecRecord
  <1> QED
    BY <1>3, <1>4 DEF Mark

----------------------------------------------------------------------------
(* The runs go on.                                                         *)

\* What a step never takes back: that there is a run, that nothing can begin
\* any more, that nothing is under way, that production was moved.
Grows ==
  /\ \A k \in Keys : Moved(k) => Moved(k)'
  /\ \A k \in Keys : Sent(k) => /\ Sent(k)'
                                /\ Settled(k) => Settled(k)'
                                /\ Quiet(k) => Quiet(k)'
                                /\ runs[k][1].state # "inflight" => runs'[k][1].state # "inflight"

\* No first run appears.
NoneSent == \A k \in Keys : ~Sent(k) => ~Sent(k)'

\* Sequences as functions on their positions.
LEMMA Positions ==
  ASSUME Types
  PROVE  /\ \A k \in Keys : /\ Len(runs[k]) \in Nat /\ DOMAIN runs[k] = 1..Len(runs[k])
                            /\ Sent(k) <=> Len(runs[k]) > 0
                            /\ \A i \in DOMAIN runs[k] : runs[k][i] \in RunRecord
         /\ \A k \in Keys : Len(token[k]) \in Nat /\ (token[k] # <<>> <=> Len(token[k]) > 0)
  <1>1. \A k \in Keys : runs[k] \in Seq(RunRecord) /\ token[k] \in Seq(Tickets)
    BY DEF Types
  <1>2. \A k \in Keys : Len(runs[k]) \in Nat /\ DOMAIN runs[k] = 1..Len(runs[k])
                        /\ Len(token[k]) \in Nat
    BY <1>1, LenProperties
  <1>3. \A k \in Keys : (Sent(k) <=> Len(runs[k]) > 0) /\ (token[k] # <<>> <=> Len(token[k]) > 0)
    BY <1>1, <1>2, EmptySeq DEF Sent
  <1>4. \A k \in Keys : \A i \in DOMAIN runs[k] : runs[k][i] \in RunRecord
    BY <1>1, <1>2, ElementOfSeq
  <1> QED
    BY <1>2, <1>3, <1>4

LEMMA NewPositions ==
  ASSUME runs' \in [Keys -> Seq(RunRecord)]
  PROVE  \A k \in Keys : /\ Len(runs'[k]) \in Nat /\ DOMAIN runs'[k] = 1..Len(runs'[k])
                         /\ Sent(k)' <=> Len(runs'[k]) > 0
                         /\ \A i \in DOMAIN runs'[k] : runs'[k][i] \in RunRecord
  <1>1. \A k \in Keys : runs'[k] \in Seq(RunRecord)
    OBVIOUS
  <1>2. \A k \in Keys : Len(runs'[k]) \in Nat /\ DOMAIN runs'[k] = 1..Len(runs'[k])
    BY <1>1, LenProperties
  <1>3. \A k \in Keys : Sent(k)' <=> Len(runs'[k]) > 0
    BY <1>1, <1>2, EmptySeq DEF Sent
  <1>4. \A k \in Keys : \A i \in DOMAIN runs'[k] : runs'[k][i] \in RunRecord
    BY <1>1, <1>2, ElementOfSeq
  <1> QED
    BY <1>2, <1>3, <1>4

\* An authorization that was used up stays so.
LEMMA TicketsStay ==
  ASSUME Types, Attempts, TicketsExpire, NEW k \in Keys, NEW i \in DOMAIN runs[k], Github(k)
  PROVE  /\ runs[k][i].token \in 1..Len(token[k])
         /\ Ticket(k, i) # "issued" => token'[k][runs[k][i].token] # "issued"
  <1>1. runs[k][i].token \in 1..Len(token[k])
    BY Positions DEF Attempts
  <1> QED
    BY <1>1 DEF TicketsExpire, Ticket

LEMMA StillRuns ==
  ASSUME Types, Attempts, Effects, UNCHANGED <<load, runs, live>>, TicketsExpire
  PROVE  Attempts' /\ Effects' /\ Grows /\ NoneSent
  <1>1. \A k \in Keys : Github(k)' = Github(k)
    BY DEF Github
  <1>2. \A k \in Keys : \A i \in DOMAIN runs[k] :
          Github(k) /\ Ticket(k, i) # "issued" => Ticket(k, i)' # "issued"
    BY TicketsStay DEF Ticket
  <1>3. \A k \in Keys : /\ Len(token[k]) \in Nat /\ Len(token'[k]) \in Nat
                        /\ Len(token[k]) <= Len(token'[k])
    BY Positions, LenProperties DEF TicketsExpire
  <1>4. Attempts'
    BY <1>1, <1>2, <1>3, Positions DEF Attempts
  <1>5. Effects'
    BY DEF Effects, Moved
  <1> QED
    BY <1>1, <1>2, <1>4, <1>5 DEF Grows, NoneSent, Sent, Moved, Settled, Quiet, Barred

\* What the states of a run may follow each other.
Lawful(k, i, state, moved) ==
  LET old == runs[k][i].state IN
  /\ state # "inflight" /\ (state = "queued" => old = "inflight")
  /\ old \in Busy \cup Ended => state \in Busy \cup Ended
  /\ old \in Ended => state \in Ended /\ (old # "void" => state # "void")
  /\ Barred(k, i) => state \in Ended
  /\ Github(k) /\ state \in Begun => token'[k][runs[k][i].token] # "issued"
  /\ state \in {"failing", "restoring", "restored"} => load.ask[k].kind = "deploy"
  /\ state = "succeeded" => moved \/ old = "succeeded"
  /\ live' = live \/ (live' = k /\ moved)

LEMMA RunGoesOn ==
  ASSUME Types, Attempts, Effects, NEW k \in Keys, NEW i \in DOMAIN runs[k],
         NEW state \in RunState, NEW moved \in BOOLEAN, OneChanges(k, i, state, moved),
         TicketsExpire, UNCHANGED load, Lawful(k, i, state, moved)
  PROVE  Attempts' /\ Effects' /\ Grows /\ NoneSent
  <1>1. \A j \in Keys : Github(j)' = Github(j)
    BY DEF Github
  <1>2. \A j \in Keys : \A n \in DOMAIN runs[j] :
          /\ runs'[j][n].token = runs[j][n].token
          /\ Github(j) /\ Ticket(j, n) # "issued" => Ticket(j, n)' # "issued"
    BY TicketsStay DEF Ticket, OneChanges
  <1>3. \A j \in Keys : /\ Len(token[j]) \in Nat /\ Len(token'[j]) \in Nat
                        /\ Len(token[j]) <= Len(token'[j])
    BY Positions, LenProperties DEF TicketsExpire
  <1>4. /\ runs'[k][i].state = state /\ runs'[k][i].moved = (runs[k][i].moved \/ moved)
        /\ \A j \in Keys : \A n \in DOMAIN runs[j] : j # k \/ n # i => runs'[j][n] = runs[j][n]
        /\ \A j \in Keys : DOMAIN runs'[j] = DOMAIN runs[j] /\ Len(runs'[j]) = Len(runs[j])
    BY DEF OneChanges
  <1>5. Attempts'
    <2>1. ASSUME NEW j \in Keys, NEW n \in DOMAIN runs[j]
          PROVE  /\ runs'[j][n].token = runs'[j][1].token /\ runs'[j][n].token \in 0..Len(token'[j])
                 /\ Github(j)' => runs'[j][n].token > 0
      <3>1. 1 \in DOMAIN runs[j]
        BY Positions
      <3> QED
        BY <1>1, <1>2, <1>3, <2>1, <3>1 DEF Attempts
    <2>2. ASSUME NEW j \in Keys, NEW n \in DOMAIN runs[j], n # Len(runs'[j])
          PROVE  runs'[j][n].state \in Ended \ {"void"}
      BY <1>4, <2>2 DEF Attempts, Lawful
    <2>3. ASSUME NEW j \in Keys, NEW n \in DOMAIN runs[j], Github(j)', runs'[j][n].state \in Begun
          PROVE  Ticket(j, n)' # "issued"
      <3>1. CASE j = k /\ n = i
        BY <1>1, <1>2, <1>4, <2>3, <3>1 DEF Lawful, Ticket
      <3>2. CASE j # k \/ n # i
        BY <1>1, <1>2, <1>4, <2>3, <3>2 DEF Attempts
      <3> QED
        BY <3>1, <3>2
    <2> QED
      BY <1>1, <1>4, <2>1, <2>2, <2>3 DEF Attempts
  <1>6. \A j \in Keys : Moved(j) => Moved(j)'
    BY <1>4 DEF Moved
  <1>7. Effects'
    <2>1. moved => Moved(k)'
      BY <1>4, Positions DEF Moved
    <2>2. ASSUME NEW j \in Keys, NEW n \in DOMAIN runs[j]
          PROVE  /\ runs'[j][n].state \in {"failing", "restoring", "restored"} =>
                      load.ask[j].kind = "deploy"
                 /\ runs'[j][n].state = "succeeded" => runs'[j][n].moved
      <3>1. CASE j = k /\ n = i
        BY <1>4, <3>1 DEF Effects, Lawful
      <3>2. CASE j # k \/ n # i
        BY <1>4, <3>2 DEF Effects
      <3> QED
        BY <3>1, <3>2
    <2>3. live' # None => Moved(live)'
      <3>1. \A j \in Keys : live' = j /\ Moved(j)' => Moved(live)'
        BY DEF Moved
      <3>2. live' \in Keys \cup {None} /\ (live' = live \/ (live' = k /\ moved))
        BY DEF Lawful, Types
      <3> QED
        BY <1>6, <2>1, <3>1, <3>2 DEF Effects, Types
    <2> QED
      BY <1>4, <2>2, <2>3 DEF Effects
  <1>8. ASSUME NEW j \in Keys, NEW n \in DOMAIN runs[j]
        PROVE  /\ Barred(j, n) => Barred(j, n)' \/ runs'[j][n].state \in Ended
               /\ runs[j][n].state \in Busy \cup Ended => runs'[j][n].state \in Busy \cup Ended
               /\ runs[j][n].state \in Ended => runs'[j][n].state \in Ended
               /\ runs[j][n].state # "inflight" => runs'[j][n].state # "inflight"
    <2>1. CASE j = k /\ n = i
      BY <1>4, <2>1 DEF Lawful
    <2>2. CASE j # k \/ n # i
      BY <1>1, <1>2, <1>4, <2>2 DEF Barred
    <2> QED
      BY <2>1, <2>2
  <1>9. \A j \in Keys : Sent(j)' <=> Sent(j)
    BY <1>4, Positions, NewPositions DEF OneChanges
  <1>10. \A j \in Keys : /\ Settled(j) => Settled(j)'
                         /\ Quiet(j) => Quiet(j)'
    BY <1>4, <1>8 DEF Settled, Quiet
  <1>11. \A j \in Keys : Sent(j) /\ runs[j][1].state # "inflight" => runs'[j][1].state # "inflight"
    BY <1>8, Positions
  <1> QED
    BY <1>5, <1>6, <1>7, <1>9, <1>10, <1>11 DEF Grows, NoneSent

\* The first run of a command.
LEMMA FirstRun ==
  ASSUME Types, Attempts, Effects, NEW k \in Keys, ~Sent(k), NEW state \in {"queued", "inflight"},
         Run(k, state), Github(k) => token[k] # <<>>, UNCHANGED <<load, token, live>>
  PROVE  /\ runs' \in [Keys -> Seq(RunRecord)]
         /\ Attempts' /\ Effects' /\ Grows /\ Sent(k)' /\ runs'[k][1].state = state
         /\ \A j \in Keys \ {k} : runs'[j] = runs[j]
  <1>1. NewRun(k, state) \in RunRecord /\ Len(token[k]) \in Nat
    BY Positions DEF NewRun, RunRecord, RunState
  <1>2. OneIsAdded(k, NewRun(k, state)) /\ Len(runs[k]) = 0
    <2>1. runs' = [runs EXCEPT ![k] = Append(@, NewRun(k, state))]
      BY DEF Run
    <2>2. OneIsAdded(k, NewRun(k, state))
      BY <1>1, <2>1, AppendAddsOne
    <2> QED
      BY <2>2, Positions
  <1>3. /\ Len(runs'[k]) = 1 /\ DOMAIN runs'[k] = {1}
        /\ runs'[k][1] = NewRun(k, state) /\ Sent(k)'
    BY <1>2, NewPositions DEF OneIsAdded
  <1>4. /\ runs'[k][1].state = state /\ runs'[k][1].token = Len(token[k]) /\ ~runs'[k][1].moved
    BY <1>3 DEF NewRun
  <1>5. \A j \in Keys \ {k} : runs'[j] = runs[j]
    BY <1>2 DEF OneIsAdded
  <1>6. \A j \in Keys : Github(j)' = Github(j)
    BY DEF Github
  <1>7. Attempts'
    <2>1. \A j \in Keys \ {k} : \A i \in DOMAIN runs[j] : Ticket(j, i)' = Ticket(j, i)
      BY <1>5 DEF Ticket
    <2>2. Github(k) => Len(token[k]) > 0
      BY Positions
    <2>3. runs'[k][1].state \notin Begun
      BY <1>4 DEF Begun, Busy, Ended
    <2> DEFINE Fits(j) ==
          /\ ~Github(j)' => Len(runs'[j]) <= 1
          /\ \A i \in DOMAIN runs'[j] :
               /\ runs'[j][i].token = runs'[j][1].token /\ runs'[j][i].token \in 0..Len(token'[j])
               /\ i # Len(runs'[j]) => runs'[j][i].state \in Ended \ {"void"}
               /\ Github(j)' => runs'[j][i].token > 0
               /\ Github(j)' /\ runs'[j][i].state \in Begun => Ticket(j, i)' # "issued"
    <2>4. \A j \in Keys \ {k} : Fits(j)
      BY <1>5, <1>6, <2>1 DEF Attempts
    <2>5. Fits(k)
      BY <1>1, <1>3, <1>4, <1>6, <2>2, <2>3
    <2> QED
      BY <2>4, <2>5 DEF Attempts
  <1>8. ~Moved(k)
    BY <1>2, Positions DEF Moved
  <1>9. \A j \in Keys : Moved(j) => Moved(j)'
    BY <1>5, <1>8 DEF Moved
  <1>10. Effects'
    BY <1>3, <1>4, <1>5, <1>9 DEF Effects, Types
  <1>11. Grows
    BY <1>5, <1>6, <1>9 DEF Grows, Sent, Settled, Quiet, Barred, Ticket
  <1> QED
    BY <1>2, <1>3, <1>4, <1>5, <1>7, <1>10, <1>11 DEF OneIsAdded

\* A further attempt shares the authorization that the run before it used up.
LEMMA AnotherAttempt ==
  ASSUME Types, Attempts, Effects, NEW k \in Keys, NEW i \in DOMAIN runs[k], Github(k),
         i = Len(runs[k]), runs[k][i].state \in Ended \ {"void"},
         runs' = [runs EXCEPT ![k] = Append(@, [state |-> "queued", token |-> runs[k][i].token,
                                                moved |-> FALSE])],
         UNCHANGED <<load, token, live>>
  PROVE  runs' \in [Keys -> Seq(RunRecord)] /\ Attempts' /\ Effects' /\ Grows /\ NoneSent
  <1> DEFINE r == [state |-> "queued", token |-> runs[k][i].token, moved |-> FALSE]
  <1>1. r \in RunRecord /\ runs[k][i] \in RunRecord
    BY Positions DEF RunRecord, RunState
  <1>2. OneIsAdded(k, r)
    BY <1>1, AppendAddsOne
  <1>3. r.state = "queued" /\ r.token = runs[k][i].token /\ ~r.moved
    OBVIOUS
  <1> HIDE DEF r
  <1>. PICK n : n = Len(runs[k]) + 1
    OBVIOUS
  <1>4. /\ DOMAIN runs[k] = 1..Len(runs[k]) /\ Len(runs[k]) \in Nat \ {0} /\ 1 \in DOMAIN runs[k]
        /\ DOMAIN runs'[k] = 1..n /\ Len(runs'[k]) = n /\ runs'[k][n] = r
        /\ \A m \in DOMAIN runs[k] : runs'[k][m] = runs[k][m]
    BY <1>2, Positions DEF OneIsAdded
  <1>5. \A j \in Keys \ {k} : runs'[j] = runs[j]
    BY <1>2 DEF OneIsAdded
  <1>6. Ticket(k, i) # "issued"
    BY DEF Attempts, Begun
  <1>7. \A j \in Keys : Github(j)' = Github(j)
    BY DEF Github
  <1>8. /\ \A j \in Keys \ {k} : \A m \in DOMAIN runs[j] : Ticket(j, m)' = Ticket(j, m)
        /\ \A m \in DOMAIN runs[k] : Ticket(k, m)' = Ticket(k, m)
        /\ Ticket(k, n)' = Ticket(k, i)
    BY <1>3, <1>4, <1>5 DEF Ticket
  <1>9. Attempts'
    <2> DEFINE Fits(j) ==
          /\ ~Github(j)' => Len(runs'[j]) <= 1
          /\ \A m \in DOMAIN runs'[j] :
               /\ runs'[j][m].token = runs'[j][1].token /\ runs'[j][m].token \in 0..Len(token'[j])
               /\ m # Len(runs'[j]) => runs'[j][m].state \in Ended \ {"void"}
               /\ Github(j)' => runs'[j][m].token > 0
               /\ Github(j)' /\ runs'[j][m].state \in Begun => Ticket(j, m)' # "issued"
    <2>1. \A j \in Keys \ {k} : Fits(j)
      BY <1>5, <1>7, <1>8 DEF Attempts
    <2>2. \A m \in DOMAIN runs[k] :
               /\ runs'[k][m].token = runs'[k][1].token /\ runs'[k][m].token \in 0..Len(token'[k])
               /\ runs'[k][m].state \in Ended \ {"void"}
               /\ runs'[k][m].token > 0
               /\ runs'[k][m].state \in Begun => Ticket(k, m)' # "issued"
      BY <1>4, <1>8 DEF Attempts
    <2>3. /\ runs'[k][n].token = runs'[k][1].token /\ runs'[k][n].token \in 0..Len(token'[k])
          /\ runs'[k][n].token > 0 /\ Ticket(k, n)' # "issued"
      BY <1>3, <1>4, <1>6, <1>8 DEF Attempts
    <2>4. Fits(k)
      BY <1>4, <1>7, <2>2, <2>3
    <2> QED
      BY <2>1, <2>4 DEF Attempts
  <1>10. \A j \in Keys : Moved(j) => Moved(j)'
    BY <1>4, <1>5 DEF Moved
  <1>11. Effects'
    BY <1>3, <1>4, <1>5, <1>10 DEF Effects, Types
  <1>12. Barred(k, n)'
    BY <1>3, <1>4, <1>6, <1>7, <1>8 DEF Barred
  <1>13. \A j \in Keys : \A m \in DOMAIN runs[j] :
           runs'[j][m] = runs[j][m] /\ (Barred(j, m) => Barred(j, m)')
    BY <1>4, <1>5, <1>7, <1>8 DEF Barred
  <1>14. \A j \in Keys : (Settled(j) => Settled(j)') /\ (Quiet(j) => Quiet(j)')
    BY <1>4, <1>5, <1>12, <1>13 DEF Settled, Quiet
  <1>15. runs' \in [Keys -> Seq(RunRecord)]
    BY <1>2 DEF OneIsAdded
  <1>16. \A j \in Keys : Sent(j)' <=> Sent(j)
    BY <1>4, <1>5, <1>15, Positions, NewPositions DEF Sent
  <1> QED
    BY <1>4, <1>5, <1>9, <1>10, <1>11, <1>14, <1>15, <1>16, Positions DEF Grows, NoneSent

----------------------------------------------------------------------------
(* The provider.                                                           *)

\* What was said of a command stays true.
LEMMA TruthStays ==
  ASSUME Grows, UNCHANGED load, NEW k \in Keys, NEW status, IsTrue(k, status)
  PROVE  IsTrue(k, status)'
  BY DEF Grows, IsTrue, Told, Done

\* What a command stored stays in order, whatever its runs do.
LEMMA OrderStays ==
  ASSUME Types, NEW k \in Keys, Orderly(k), Grows, Sent(k)' => Sent(k), TicketsExpire,
         UNCHANGED <<load, caller[k], exec[k], item[k]>>, k \in intent' <=> k \in intent,
         Fenced(k)', k \notin excused' => k \notin excused,
         k \notin excused' => \A h \in Handlers :
           (handler[h].at # "idle" /\ handler[h].key = k /\ handler[h].status = "failed_dispatch")'
             => InDoubt(k)
  PROVE  Orderly(k)'
  <1>1. Github(k)' = Github(k) /\ (Sent(k)' <=> Sent(k)) /\ Done(k)' = Done(k)
    BY DEF Github, Grows, Done
  <1>2. token[k] # <<>> => token'[k] # <<>>
    <2>1. Len(token'[k]) \in Nat /\ (token'[k] # <<>> <=> Len(token'[k]) > 0)
      BY EmptySeq, LenProperties DEF TicketsExpire
    <2> QED
      BY <2>1, Positions DEF TicketsExpire
  <1>3. Unborn(k)'
    BY <1>1, <1>2 DEF Orderly, Unborn
  <1>4. Dispatched(k)'
    BY <1>1 DEF Orderly, Dispatched
  <1>5. Submitted(k)'
    BY <1>1 DEF Orderly, Submitted, Grows, CanClaimSubmission
  <1>6. Stored(k)'
    BY TruthStays DEF Orderly, Stored, IsTrue
  <1>7. k \notin excused' => Promised(k)'
    BY <1>1 DEF Orderly, Promised, Grows, InDoubt, Stored, IsTrue, Verdicts, Told
  <1> QED
    BY <1>3, <1>4, <1>5, <1>6, <1>7 DEF Orderly

\* A step of the provider leaves what the commands hold alone.
LEMMA Beside ==
  ASSUME DInv, RemoteUnchanged, Attempts', Effects', Grows, NoneSent, TicketsExpire,
         runs' \in [Keys -> Seq(RunRecord)], live' \in Keys \cup {None}, faults' \in Nat,
         mail' \subseteq Event, \A e \in mail' \ mail : PostedTruth(e)'
  PROVE  DInv'
  <1> USE DEF RemoteUnchanged
  <1>1. Types'
    BY DEF DInv, Types, TicketsExpire
  <1>2. \A k \in Keys : Github(k)' = Github(k) /\ (Sent(k)' <=> Sent(k))
    BY DEF Github, Grows, NoneSent
  <1>3. \A k \in Keys : Orderly(k)'
    <2> SUFFICES ASSUME NEW k \in Keys PROVE Orderly(k)'
      OBVIOUS
    <2>1. Types /\ Orderly(k)
      BY DEF DInv
    <2>2. Fenced(k)'
      BY <2>1 DEF Orderly, Fenced
    <2>3. k \notin excused' => \A h \in Handlers :
            (handler[h].at # "idle" /\ handler[h].key = k /\ handler[h].status = "failed_dispatch")'
              => InDoubt(k)
      BY <2>1 DEF Orderly, Promised
    <2> QED
      BY <1>2, <2>1, <2>2, <2>3, OrderStays
  <1>4. Reports'
    <2>1. \A e \in mail : e.key \in Keys
      BY DEF DInv, Types, Event
    <2>2. \A e \in mail : PostedTruth(e)'
      BY <1>2, <2>1, TruthStays DEF DInv, Reports, PostedTruth
    <2>3. \A h \in Handlers : HeldTruth(h)'
      BY <1>2, TruthStays DEF DInv, Reports, HeldTruth
    <2> QED
      BY <2>2, <2>3 DEF Reports
  <1>5. Exclusive'
    <2>1. \A k \in Keys : Quiet(k) => Quiet(k)'
      <3>1. \A k \in Keys : ~Sent(k)' => Quiet(k)'
        BY DEF Sent, Quiet
      <3> QED
        BY <1>2, <3>1 DEF Grows
    <2> QED
      BY <2>1 DEF DInv, Exclusive, Engaged
  <1> QED
    BY <1>1, <1>3, <1>4, <1>5 DEF DInv

LEMMA TicketsKept ==
  ASSUME Types, UNCHANGED token
  PROVE  TicketsExpire
  BY Positions DEF Types, TicketsExpire

\* What the engine posts is true of its build, the only one there is.
LEMMA EmitsTruth ==
  ASSUME Types, Attempts, NEW k \in Keys, NEW i \in DOMAIN runs[k], NEW state \in Busy \cup Ended,
         NEW moved \in BOOLEAN, OneChanges(k, i, state, moved), UNCHANGED load,
         NEW seq \in 1..4, NEW verdict \in Told, verdict = Done(k) => moved,
         Emit(k, i, seq, verdict)
  PROVE  /\ mail' \subseteq Event
         /\ \A x \in mail' \ mail : PostedTruth(x)'
  <1> DEFINE e == [key |-> k, run |-> i, seq |-> seq, verdict |-> verdict]
  <1>1. CASE Github(k)
    BY <1>1 DEF Emit, Types
  <1>2. CASE ~Github(k)
    <2>1. i = 1 /\ DOMAIN runs[k] = {1}
      BY <1>2, Positions DEF Attempts
    <2>2. /\ DOMAIN runs'[k] = {1} /\ runs'[k][1].state = state
          /\ (moved => runs'[k][1].moved)
          /\ Sent(k)'
      <3>1. 1 <= Len(runs[k]) /\ 1 \in DOMAIN runs[k]
        BY <2>1, Positions
      <3>2. runs' \in [Keys -> Seq(RunRecord)] /\ Len(runs'[k]) = Len(runs[k])
            /\ DOMAIN runs'[k] = DOMAIN runs[k] /\ runs'[k][1].state = state
            /\ runs'[k][1].moved = (runs[k][1].moved \/ moved)
        BY <2>1, <3>1 DEF OneChanges
      <3>3. Sent(k)'
        BY <3>1, <3>2, NewPositions
      <3> QED
        BY <2>1, <3>2, <3>3
    <2>3. Settled(k)' /\ (moved => Moved(k)')
      BY <2>1, <2>2 DEF Settled, Moved, OneChanges
    <2>4. IsTrue(k, verdict)'
      BY <2>2, <2>3 DEF IsTrue, Done
    <2>5. e \in Event
      BY <2>1 DEF Event, Told, Verdicts, ItemStatus, Terminal
    <2>6. e.key = k /\ e.run = i /\ e.verdict = verdict
      OBVIOUS
    <2>7. mail' = mail \cup {e}
      BY <1>2 DEF Emit
    <2>8. PostedTruth(e)'
      BY <1>2, <2>1, <2>2, <2>4, <2>6 DEF PostedTruth, Github
    <2> HIDE DEF e
    <2> QED
      BY <2>5, <2>7, <2>8 DEF Types
  <1> QED
    BY <1>1, <1>2

\* A run that goes on lawfully, and says no more than it did, keeps the invariant.
LEMMA RunActs ==
  ASSUME DInv, NEW k \in Keys, NEW i \in DOMAIN runs[k], NEW state \in RunState,
         NEW moved \in BOOLEAN, SetRun(k, i, state, moved), RemoteUnchanged, TicketsExpire,
         Lawful(k, i, state, moved), faults' \in Nat,
         \/ UNCHANGED mail
         \/ /\ state \in Busy \cup Ended
            /\ \E seq \in 1..4, verdict \in Told :
                 (verdict = Done(k) => moved) /\ Emit(k, i, seq, verdict)
  PROVE  DInv'
  <1>1. Types /\ Attempts /\ Effects /\ UNCHANGED load
    BY DEF DInv, RemoteUnchanged
  <1>2. OneChanges(k, i, state, moved)
    BY <1>1, SetRunChangesOne
  <1>3. Attempts' /\ Effects' /\ Grows /\ NoneSent
    BY <1>1, <1>2, RunGoesOn
  <1>4. runs' \in [Keys -> Seq(RunRecord)] /\ live' \in Keys \cup {None}
    BY <1>1, <1>2 DEF OneChanges, Lawful, Types
  <1>5. /\ mail' \subseteq Event
        /\ \A e \in mail' \ mail : PostedTruth(e)'
    <2>1. CASE UNCHANGED mail
      BY <1>1, <2>1 DEF Types
    <2>2. CASE /\ state \in Busy \cup Ended
               /\ \E seq \in 1..4, verdict \in Told :
                    (verdict = Done(k) => moved) /\ Emit(k, i, seq, verdict)
      BY <1>1, <1>2, <2>2, EmitsTruth
    <2> QED
      BY <2>1, <2>2
  <1> QED
    BY <1>3, <1>4, <1>5, Beside

LEMMA AppearKeeps ==
  ASSUME DInv, NEW k \in Keys, NEW i \in DOMAIN runs[k], Appear(k, i)
  PROVE  DInv'
  <1>1. Types /\ TicketsExpire /\ faults' \in Nat /\ RemoteUnchanged /\ UNCHANGED mail
    BY TicketsKept DEF DInv, Types, Appear
  <1>2. PICK state \in {"queued", "void"} : SetRun(k, i, state, FALSE)
    BY DEF Appear
  <1>3. state \in RunState
    BY DEF RunState, Ended
  <1>4. Lawful(k, i, state, FALSE)
    BY DEF Appear, Lawful, Barred, Begun, Busy, Ended
  <1> QED
    BY <1>1, <1>2, <1>3, <1>4, RunActs

LEMMA BeginRunKeeps ==
  ASSUME DInv, NEW k \in Keys, NEW i \in DOMAIN runs[k], BeginRun(k, i)
  PROVE  DInv'
  <1>1. Types /\ Attempts /\ faults' \in Nat /\ RemoteUnchanged /\ UNCHANGED live
        /\ runs[k][i].state = "queued"
    BY DEF DInv, Types, BeginRun
  <1>2. \E seq \in 1..4, verdict \in Told :
           (verdict = Done(k) => FALSE) /\ Emit(k, i, seq, verdict)
    BY DEF BeginRun, Told, Done
  <1>3. CASE Github(k) /\ CanConsume(k, i)
    <2>. PICK n : n = runs[k][i].token
      OBVIOUS
    <2>1. n \in 1..Len(token[k]) /\ "consumed" \in Tickets \ {"issued"}
      BY <1>1, <1>3, Positions DEF Attempts, Tickets
    <2>2. UsesUp(k, n, "consumed") /\ SetRun(k, i, "working", FALSE)
      BY <1>3 DEF BeginRun, UsesUp
    <2>3. TicketsExpire /\ token'[k][n] = "consumed"
      BY <1>1, <2>1, <2>2, SettingExpires
    <2>4. Lawful(k, i, "working", FALSE)
      BY <1>1, <1>3, <2>3 DEF Lawful, Barred, CanConsume, Begun, Busy, Ended
    <2> QED
      BY <1>1, <1>2, <2>2, <2>3, <2>4, RunActs DEF RunState, Busy
  <1>4. CASE Github(k) /\ ~CanConsume(k, i)
    <2>1. TicketsExpire /\ SetRun(k, i, "void", FALSE)
      BY <1>1, <1>4, TicketsKept DEF BeginRun
    <2>2. Lawful(k, i, "void", FALSE)
      BY <1>1 DEF Lawful, Begun, Busy, Ended
    <2> QED
      BY <1>1, <1>2, <2>1, <2>2, RunActs DEF RunState, Ended
  <1>5. CASE ~Github(k)
    <2>1. TicketsExpire /\ SetRun(k, i, "working", FALSE)
      BY <1>1, <1>5, TicketsKept DEF BeginRun
    <2>2. Lawful(k, i, "working", FALSE)
      BY <1>1, <1>5 DEF Lawful, Barred, Begun, Busy, Ended
    <2> QED
      BY <1>1, <1>2, <2>1, <2>2, RunActs DEF RunState, Busy
  <1> QED
    BY <1>3, <1>4, <1>5

\* What a run that has begun may become, with its authorization used up.
LEMMA BegunGoesOn ==
  ASSUME Types, Attempts, Effects, NEW k \in Keys, NEW i \in DOMAIN runs[k], UNCHANGED token,
         NEW state \in Begun, NEW moved \in BOOLEAN, live' = live \/ (live' = k /\ moved),
         \/ runs[k][i].state \in Busy
         \/ runs[k][i].state \in Begun /\ state = "failed",
         state \in {"failing", "restoring", "restored"} =>
           load.ask[k].kind = "deploy" \/ runs[k][i].state \in {"failing", "restoring"},
         state = "succeeded" => moved
  PROVE  Lawful(k, i, state, moved) /\ state \in RunState /\ state \in Busy \cup Ended
  <1>1. Github(k) => token'[k][runs[k][i].token] # "issued"
    BY DEF Attempts, Begun, Ticket
  <1>2. runs[k][i].state \in {"failing", "restoring"} => load.ask[k].kind = "deploy"
    BY DEF Effects
  <1> QED
    BY <1>1, <1>2 DEF Lawful, Barred, Begun, Busy, Ended, RunState

LEMMA FinishRunKeeps ==
  ASSUME DInv, NEW k \in Keys, NEW i \in DOMAIN runs[k], FinishRun(k, i)
  PROVE  DInv'
  <1>1. Types /\ Attempts /\ Effects /\ TicketsExpire /\ faults' \in Nat /\ RemoteUnchanged
        /\ live' = k /\ UNCHANGED token
        /\ SetRun(k, i, "succeeded", TRUE) /\ runs[k][i].state = "working"
    BY TicketsKept DEF DInv, Types, FinishRun
  <1>2. \E seq \in 1..4, verdict \in Told : Emit(k, i, seq, verdict)
    BY DEF FinishRun, Told, Verdicts, Done
  <1>3. /\ Lawful(k, i, "succeeded", TRUE)
        /\ "succeeded" \in RunState /\ "succeeded" \in Busy \cup Ended
    BY <1>1, BegunGoesOn DEF Begun, Busy, Ended
  <1> QED
    BY <1>1, <1>2, <1>3, RunActs

LEMMA FailRunKeeps ==
  ASSUME DInv, NEW k \in Keys, NEW i \in DOMAIN runs[k], FailRun(k, i)
  PROVE  DInv'
  <1>1. Types /\ Attempts /\ Effects /\ TicketsExpire /\ faults' \in Nat /\ RemoteUnchanged
        /\ UNCHANGED <<live, token>> /\ runs[k][i].state = "working"
    BY TicketsKept DEF DInv, Types, FailRun
  <1>2. \/ UNCHANGED mail
        \/ \E seq \in 1..4, verdict \in Told :
             (verdict = Done(k) => FALSE) /\ Emit(k, i, seq, verdict)
    BY DEF FailRun, Told, Verdicts, Done
  <1>3. load.ask[k].kind \in {"deploy", "rollback"}
    BY <1>1 DEF Types, Workload, Request
  <1>4. PICK state \in {"failed", "failing", "restoring"} :
          SetRun(k, i, state, FALSE) /\ (state # "failed" => load.ask[k].kind = "deploy")
    BY <1>3 DEF FailRun
  <1>5. Lawful(k, i, state, FALSE) /\ state \in RunState /\ state \in Busy \cup Ended
    BY <1>1, <1>4, BegunGoesOn DEF Begun, Busy, Ended
  <1> QED
    BY <1>1, <1>2, <1>4, <1>5, RunActs

LEMMA QueueRestoreKeeps ==
  ASSUME DInv, NEW k \in Keys, NEW i \in DOMAIN runs[k], QueueRestore(k, i)
  PROVE  DInv'
  <1>1. Types /\ Attempts /\ Effects /\ TicketsExpire /\ faults' \in Nat /\ RemoteUnchanged
        /\ UNCHANGED <<live, token, mail>> /\ runs[k][i].state = "failing"
        /\ SetRun(k, i, "restoring", FALSE)
    BY TicketsKept DEF DInv, Types, QueueRestore
  <1>2. Lawful(k, i, "restoring", FALSE) /\ "restoring" \in RunState
    BY <1>1, BegunGoesOn DEF Begun, Busy
  <1> QED
    BY <1>1, <1>2, RunActs

LEMMA RestoreRunKeeps ==
  ASSUME DInv, NEW k \in Keys, NEW i \in DOMAIN runs[k], RestoreRun(k, i)
  PROVE  DInv'
  <1>1. Types /\ Attempts /\ Effects /\ TicketsExpire /\ faults' \in Nat /\ RemoteUnchanged
        /\ UNCHANGED <<live, token>> /\ runs[k][i].state = "restoring"
        /\ SetRun(k, i, "restored", FALSE)
    BY TicketsKept DEF DInv, Types, RestoreRun
  <1>2. load.ask[k].kind = "deploy"
    BY <1>1 DEF Effects
  <1>3. \E seq \in 1..4, verdict \in Told :
           (verdict = Done(k) => FALSE) /\ Emit(k, i, seq, verdict)
    BY <1>2 DEF RestoreRun, Told, Verdicts, Done
  <1>4. /\ Lawful(k, i, "restored", FALSE)
        /\ "restored" \in RunState /\ "restored" \in Busy \cup Ended
    BY <1>1, BegunGoesOn DEF Begun, Busy, Ended
  <1> QED
    BY <1>1, <1>3, <1>4, RunActs

LEMMA KillRunKeeps ==
  ASSUME DInv, NEW k \in Keys, NEW i \in DOMAIN runs[k], KillRun(k, i)
  PROVE  DInv'
  <1>1. Types /\ Attempts /\ Effects /\ TicketsExpire /\ faults' \in Nat /\ RemoteUnchanged
        /\ UNCHANGED <<token, mail>> /\ runs[k][i].state \in Busy
    BY TicketsKept DEF DInv, Types, KillRun, Fault
  <1>2. PICK moved \in BOOLEAN :
          SetRun(k, i, "failed", moved) /\ (live' = live \/ (live' = k /\ moved))
    BY DEF KillRun
  <1>3. Lawful(k, i, "failed", moved) /\ "failed" \in RunState
    BY <1>1, <1>2, BegunGoesOn DEF Begun, Ended
  <1> QED
    BY <1>1, <1>2, <1>3, RunActs

LEMMA LoseSummaryKeeps ==
  ASSUME DInv, NEW k \in Keys, NEW i \in DOMAIN runs[k], LoseSummary(k, i)
  PROVE  DInv'
  <1>1. Types /\ Attempts /\ Effects /\ TicketsExpire /\ faults' \in Nat /\ RemoteUnchanged
        /\ UNCHANGED <<token, live>> /\ runs[k][i].state = "succeeded"
        /\ SetRun(k, i, "failed", FALSE)
    <2>1. Types /\ Attempts /\ Effects /\ UNCHANGED token /\ faults' = faults + 1
      BY DEF DInv, LoseSummary, Fault
    <2>2. TicketsExpire
      BY <2>1, TicketsKept
    <2>3. faults' \in Nat
      BY <2>1 DEF Types
    <2> QED
      BY <2>1, <2>2, <2>3 DEF LoseSummary
  <1>2. \E seq \in 1..4, verdict \in Told :
           (verdict = Done(k) => FALSE) /\ Emit(k, i, seq, verdict)
    BY DEF LoseSummary, Told, Verdicts, Done
  <1>3. Lawful(k, i, "failed", FALSE) /\ "failed" \in RunState /\ "failed" \in Busy \cup Ended
    BY <1>1, BegunGoesOn DEF Begun, Ended
  <1> QED
    BY <1>1, <1>2, <1>3, RunActs

LEMMA RerunWorkflowKeeps ==
  ASSUME DInv, NEW k \in Keys, NEW i \in DOMAIN runs[k], RerunWorkflow(k, i)
  PROVE  DInv'
  <1>1. Types /\ Attempts /\ Effects /\ TicketsExpire /\ faults' \in Nat /\ RemoteUnchanged
        /\ UNCHANGED <<load, token, live, mail>>
    BY TicketsKept DEF DInv, Types, RerunWorkflow, Fault, RemoteUnchanged
  <1>2. runs' \in [Keys -> Seq(RunRecord)] /\ Attempts' /\ Effects' /\ Grows /\ NoneSent
    BY <1>1, AnotherAttempt DEF RerunWorkflow
  <1> QED
    BY <1>1, <1>2, Beside DEF Types

LEMMA LoseEventKeeps ==
  ASSUME DInv, NEW e \in mail, LoseEvent(e)
  PROVE  DInv'
  <1>1. Types /\ Attempts /\ Effects /\ TicketsExpire /\ faults' \in Nat /\ RemoteUnchanged
        /\ UNCHANGED <<load, token, runs, live>> /\ mail' \subseteq mail
    BY TicketsKept DEF DInv, Types, LoseEvent, RemoteUnchanged
  <1>2. Attempts' /\ Effects' /\ Grows /\ NoneSent
    BY <1>1, StillRuns
  <1> QED
    BY <1>1, <1>2, Beside DEF Types

----------------------------------------------------------------------------
(* The caller.                                                             *)

\* While the service is open, no command that is not excused is under way.
LEMMA OpenIsQuiet ==
  ASSUME DInv, fence = None, ~ActiveDeployment
  PROVE  \A k \in Keys \ excused : Quiet(k)
  <1> SUFFICES ASSUME NEW k \in Keys \ excused PROVE Quiet(k)
    OBVIOUS
  <1>1. Orderly(k) /\ Promised(k)
    BY DEF DInv, Orderly
  <1>2. ~Sent(k) => Quiet(k)
    BY DEF Sent, Quiet
  <1>3. item[k] \in Terminal \cup {"none"}
        /\ (item[k] # "none" => exec[k].status # "GITHUB_UNCERTAIN")
    BY DEF ActiveDeployment
  <1> QED
    BY <1>1, <1>2, <1>3 DEF Terminal, Verdicts, Orderly, Unborn, Promised, InDoubt

\* A step of one command leaves what is stored of the others alone.
Alone(k) ==
  /\ UNCHANGED <<load, live, handler, mail>>
  /\ caller' \in [Keys -> CallerRecord] /\ exec' \in [Keys -> ExecRecord]
  /\ item' \in [Keys -> ItemStatus] /\ runs' \in [Keys -> Seq(RunRecord)]
  /\ calls' \in [Keys -> Nat] /\ faults' \in Nat
  /\ fence' \in Keys \cup {None} /\ intent' \subseteq Keys
  /\ excused \subseteq excused' /\ excused' \subseteq Keys
  /\ \A j \in Keys \ {k} :
       /\ UNCHANGED <<caller[j], exec[j], item[j], runs[j]>>
       /\ j \in intent' <=> j \in intent
       /\ Fenced(j)'

LEMMA Follows ==
  ASSUME DInv, NEW k \in Keys, Alone(k), Attempts', Effects', Grows, TicketsExpire, Orderly(k)',
         Exclusive'
  PROVE  DInv'
  <1>1. Types'
    BY DEF DInv, Types, Alone, TicketsExpire
  <1>2. ASSUME NEW j \in Keys \ {k} PROVE Orderly(j)'
    <2>1. Types /\ Orderly(j) /\ UNCHANGED load
      BY DEF DInv, Alone
    <2>2. /\ UNCHANGED <<caller[j], exec[j], item[j]>> /\ (j \in intent' <=> j \in intent)
          /\ Fenced(j)' /\ (Sent(j)' => Sent(j)) /\ (j \notin excused' => j \notin excused)
      BY DEF Alone, Sent
    <2>3. j \notin excused' => \A h \in Handlers :
            (handler[h].at # "idle" /\ handler[h].key = j /\ handler[h].status = "failed_dispatch")'
              => InDoubt(j)
      BY <2>1, <2>2 DEF Orderly, Promised, Alone
    <2> QED
      BY <2>1, <2>2, <2>3, OrderStays
  <1>3. Reports'
    <2>1. \A e \in mail : e.key \in Keys
      BY DEF DInv, Types, Event
    <2>2. UNCHANGED <<load, handler, mail>> /\ \A j \in Keys : Github(j)' = Github(j)
      BY DEF Alone, Github
    <2>3. \A e \in mail : PostedTruth(e)'
      BY <2>1, <2>2, TruthStays DEF DInv, Reports, PostedTruth, Grows
    <2>4. \A h \in Handlers : HeldTruth(h)'
      BY <2>2, TruthStays DEF DInv, Reports, HeldTruth, Grows
    <2> QED
      BY <2>2, <2>3, <2>4 DEF Reports
  <1> QED
    BY <1>1, <1>2, <1>3 DEF DInv

\* The holder of the fence keeps it or lets it go, so nobody else is engaged.
LEMMA HolderFollows ==
  ASSUME DInv, NEW k \in Keys, fence = k, fence' \in {k, None}, Alone(k),
         Attempts', Effects', Grows, TicketsExpire, Orderly(k)'
  PROVE  DInv'
  <1>1. ASSUME NEW j \in Keys, Engaged(j)' PROVE Engaged(j)
    <2>1. None \notin Keys
      BY NoneAssumption
    <2>2. CASE j = k
      BY <2>2 DEF Engaged
    <2>3. CASE j # k
      <3>1. runs'[j] = runs[j]
        BY <2>3 DEF Alone
      <3>2. ~Sent(j) => Quiet(j)'
        BY <3>1 DEF Sent, Quiet
      <3> QED
        BY <1>1, <2>1, <2>3, <3>2 DEF Engaged, Grows
    <2> QED
      BY <2>2, <2>3
  <1>2. excused \subseteq excused'
    BY DEF Alone
  <1>3. Exclusive'
    BY <1>1, <1>2 DEF DInv, Exclusive
  <1> QED
    BY <1>3, Follows

\* The same for a step that leaves the runs alone.
LEMMA HolderStays ==
  ASSUME DInv, NEW k \in Keys, fence = k, fence' \in {k, None}, Alone(k), UNCHANGED runs,
         TicketsExpire, (Grows => Orderly(k)')
  PROVE  DInv'
  <1>1. Types /\ Attempts /\ Effects /\ UNCHANGED <<load, runs, live>>
    BY DEF DInv, Alone
  <1>2. Attempts' /\ Effects' /\ Grows
    BY <1>1, StillRuns
  <1> QED
    BY <1>2, HolderFollows

\* Who has a caller holds the fence, and keeps the others out.
LEMMA Holds ==
  ASSUME DInv, NEW k \in Keys, caller[k].at # "idle"
  PROVE  /\ fence = k /\ Types /\ Attempts /\ Effects /\ Orderly(k)
         /\ caller[k].note \in ExecStatus \cup ItemStatus
         /\ \A j \in Keys \ {k} : caller[j].at = "idle"
  BY DEF DInv, Types, Orderly, Fenced, CallerRecord

\* A step of the caller that leaves the runs alone.
Turn(k) ==
  /\ UNCHANGED <<load, live, runs, handler, mail, calls>>
  /\ caller' \in [Keys -> CallerRecord] /\ exec' \in [Keys -> ExecRecord]
  /\ item' \in [Keys -> ItemStatus] /\ faults' \in Nat /\ intent' \subseteq Keys
  /\ excused \subseteq excused' /\ excused' \subseteq Keys
  /\ fence' = IF caller'[k].at = "idle" THEN None ELSE fence
  /\ \A j \in Keys \ {k} : /\ UNCHANGED <<caller[j], exec[j], item[j]>>
                           /\ j \in intent' <=> j \in intent

LEMMA Passes ==
  ASSUME DInv, NEW k \in Keys, caller[k].at # "idle", Turn(k), TicketsExpire,
         Grows => /\ Unborn(k)' /\ Dispatched(k)' /\ Submitted(k)' /\ Stored(k)'
                  /\ k \notin excused' => Promised(k)'
  PROVE  DInv'
  <1>1. /\ fence = k /\ Types /\ Attempts /\ Effects /\ Orderly(k)
        /\ \A j \in Keys \ {k} : caller[j].at = "idle"
    BY Holds
  <1>2. None \notin Keys
    BY NoneAssumption
  <1>3. Alone(k)
    BY <1>1, <1>2 DEF Alone, Types, Turn, Fenced
  <1>4. Fenced(k)'
    BY <1>1, <1>2 DEF Turn, Fenced
  <1>5. Grows => Orderly(k)'
    BY <1>4 DEF Orderly
  <1>6. fence' \in {k, None} /\ UNCHANGED runs
    BY <1>1 DEF Turn
  <1> QED
    BY <1>1, <1>3, <1>5, <1>6, HolderStays

\* What was said of a command goes on, though its authorizations expire.
LEMMA Forward ==
  ASSUME Types, Grows, TicketsExpire, UNCHANGED <<load, runs>>, NEW k \in Keys
  PROVE  /\ Github(k)' = Github(k) /\ Done(k)' = Done(k) /\ (Sent(k)' <=> Sent(k))
         /\ (Quiet(k) => Quiet(k)') /\ UNCHANGED runs[k]
         /\ token[k] # <<>> => token'[k] # <<>>
         /\ \A status : IsTrue(k, status) => IsTrue(k, status)'
         /\ \A status \in {"none", "queued", "failed_dispatch"} : IsTrue(k, status)'
  <1>1. ~Sent(k) => Quiet(k)'
    BY DEF Sent, Quiet
  <1>2. token[k] # <<>> => token'[k] # <<>>
    <2>1. Len(token'[k]) \in Nat /\ (token'[k] # <<>> <=> Len(token'[k]) > 0)
      BY EmptySeq, LenProperties DEF TicketsExpire
    <2> QED
      BY <2>1, Positions DEF TicketsExpire
  <1>3. \A status \in {"none", "queued", "failed_dispatch"} : IsTrue(k, status)'
    BY DEF IsTrue, Told, Verdicts, Done
  <1> QED
    BY <1>1, <1>2, <1>3, TruthStays DEF Grows, Github, Done, Sent

\* A command of Cloud Build has one build at most.
LEMMA OneBuild ==
  ASSUME Types, Attempts, NEW k \in Keys, ~Github(k), Sent(k)
  PROVE  Len(runs[k]) = 1 /\ DOMAIN runs[k] = {1}
  <1>1. Len(runs[k]) \in Nat /\ Len(runs[k]) > 0 /\ DOMAIN runs[k] = 1..Len(runs[k])
    BY Positions
  <1>2. Len(runs[k]) <= 1
    BY DEF Attempts
  <1>3. \A n \in Nat : n > 0 /\ n <= 1 => n = 1 /\ 1..n = {1}
    OBVIOUS
  <1> QED
    BY <1>1, <1>2, <1>3

LEMMA SaveIntentKeeps ==
  ASSUME DInv, NEW k \in Keys, SaveIntent(k)
  PROVE  DInv'
  <1>1. fence = k /\ Types /\ Orderly(k) /\ caller[k].at = "intend"
        /\ caller[k].note \in ExecStatus \cup ItemStatus
    BY Holds DEF SaveIntent, At
  <1>2. Moves(k, "create", caller[k].note)
    BY <1>1, CallerMoves DEF SaveIntent, CallerSteps
  <1>3. Turn(k) /\ TicketsExpire /\ UNCHANGED <<exec, item, excused>> /\ k \in intent'
    BY <1>1, <1>2, TicketsKept DEF SaveIntent, Turn, Types, Moves
  <1>4. ASSUME Grows
        PROVE  /\ Unborn(k)' /\ Dispatched(k)' /\ Submitted(k)' /\ Stored(k)'
               /\ k \notin excused' => Promised(k)'
    <2>1. /\ Github(k)' = Github(k) /\ (Sent(k)' <=> Sent(k)) /\ (Quiet(k) => Quiet(k)')
          /\ UNCHANGED runs[k] /\ (token[k] # <<>> => token'[k] # <<>>)
          /\ \A status : IsTrue(k, status) => IsTrue(k, status)'
          /\ \A status \in {"none", "queued", "failed_dispatch"} : IsTrue(k, status)'
      BY <1>1, <1>3, <1>4, Forward DEF Turn
    <2>2. Unborn(k)'
      BY <1>1, <1>2, <1>3, <2>1 DEF Orderly, Unborn, Moves
    <2>3. Dispatched(k)'
      BY <1>1, <1>2, <1>3, <2>1 DEF Orderly, Dispatched, Moves, WorkflowSteps, BuildSteps
    <2>4. Submitted(k)'
      BY <1>1, <1>2, <1>3, <2>1 DEF Orderly, Submitted, Moves, CanClaimSubmission
    <2>5. Stored(k)'
      BY <1>1, <1>2, <1>3, <2>1 DEF Orderly, Stored, Moves
    <2>6. k \notin excused' => Promised(k)'
      BY <1>1, <1>2, <1>3, <2>1 DEF Orderly, Promised, Moves, InDoubt, Turn
    <2> QED
      BY <2>2, <2>3, <2>4, <2>5, <2>6
  <1> QED
    BY <1>1, <1>3, <1>4, Passes

LEMMA CreateDeploymentKeeps ==
  ASSUME DInv, NEW k \in Keys, CreateDeployment(k)
  PROVE  DInv'
  <1>1. fence = k /\ Types /\ Orderly(k) /\ caller[k].at = "create"
        /\ caller[k].note \in ExecStatus \cup ItemStatus
    BY Holds DEF CreateDeployment, At
  <1>2. Moves(k, "unintend", caller[k].note)
    BY <1>1, CallerMoves DEF CreateDeployment, CallerSteps
  <1>3. Turn(k) /\ TicketsExpire /\ UNCHANGED <<exec, intent, excused>>
        /\ item'[k] = "queued" /\ token'[k] # <<>>
    BY <1>1, <1>2, IssueExpires DEF CreateDeployment, Turn, Types, Moves, ItemStatus
  <1>4. ASSUME Grows
        PROVE  /\ Unborn(k)' /\ Dispatched(k)' /\ Submitted(k)' /\ Stored(k)'
               /\ k \notin excused' => Promised(k)'
    <2>1. /\ Github(k)' = Github(k) /\ (Sent(k)' <=> Sent(k)) /\ (Quiet(k) => Quiet(k)')
          /\ UNCHANGED runs[k] /\ (token[k] # <<>> => token'[k] # <<>>)
          /\ \A status : IsTrue(k, status) => IsTrue(k, status)'
          /\ \A status \in {"none", "queued", "failed_dispatch"} : IsTrue(k, status)'
      BY <1>1, <1>3, <1>4, Forward DEF Turn
    <2>2. Unborn(k)'
      BY <1>1, <1>2, <1>3, <2>1 DEF Orderly, Unborn, Moves
    <2>3. Dispatched(k)'
      BY <1>1, <1>2, <1>3, <2>1 DEF Orderly, Dispatched, Moves, WorkflowSteps, BuildSteps
    <2>4. Submitted(k)'
      BY <1>1, <1>2, <1>3, <2>1 DEF Orderly, Submitted, Moves, CanClaimSubmission
    <2>5. Stored(k)'
      BY <1>1, <1>2, <1>3, <2>1 DEF Orderly, Stored, Moves
    <2>6. k \notin excused' => Promised(k)'
      BY <1>1, <1>2, <1>3, <2>1 DEF Orderly, Promised, Moves, InDoubt, Turn, Unborn, Verdicts
    <2> QED
      BY <2>2, <2>3, <2>4, <2>5, <2>6
  <1> QED
    BY <1>1, <1>3, <1>4, Passes

LEMMA CreateManagedDeploymentKeeps ==
  ASSUME DInv, NEW k \in Keys, CreateManagedDeployment(k)
  PROVE  DInv'
  <1>1. fence = k /\ Types /\ Orderly(k) /\ caller[k].at = "create" /\ ~Github(k)
        /\ caller[k].note \in ExecStatus \cup ItemStatus
    BY Holds DEF CreateManagedDeployment, At
  <1>2. Moves(k, "unintend", caller[k].note)
    BY <1>1, CallerMoves DEF CreateManagedDeployment, CallerSteps
  <1>3. Turn(k) /\ TicketsExpire /\ UNCHANGED <<exec, intent, excused>>
        /\ item'[k] = "queued"
    BY <1>1, <1>2, TicketsKept DEF CreateManagedDeployment, Turn, Types, Moves, ItemStatus
  <1>4. ASSUME Grows
        PROVE  /\ Unborn(k)' /\ Dispatched(k)' /\ Submitted(k)' /\ Stored(k)'
               /\ k \notin excused' => Promised(k)'
    <2>1. /\ Github(k)' = Github(k) /\ (Sent(k)' <=> Sent(k)) /\ (Quiet(k) => Quiet(k)')
          /\ UNCHANGED runs[k] /\ (token[k] # <<>> => token'[k] # <<>>)
          /\ \A status : IsTrue(k, status) => IsTrue(k, status)'
          /\ \A status \in {"none", "queued", "failed_dispatch"} : IsTrue(k, status)'
      BY <1>1, <1>3, <1>4, Forward DEF Turn
    <2>2. Unborn(k)'
      BY <1>1, <1>2, <1>3, <2>1 DEF Orderly, Unborn, Moves
    <2>3. Dispatched(k)'
      BY <1>1, <1>2, <1>3, <2>1 DEF Orderly, Dispatched, Moves, WorkflowSteps, BuildSteps
    <2>4. Submitted(k)'
      BY <1>1, <1>2, <1>3, <2>1 DEF Orderly, Submitted, Moves, CanClaimSubmission
    <2>5. Stored(k)'
      BY <1>1, <1>2, <1>3, <2>1 DEF Orderly, Stored, Moves
    <2>6. k \notin excused' => Promised(k)'
      BY <1>1, <1>2, <1>3, <2>1 DEF Orderly, Promised, Moves, InDoubt, Turn, Unborn, Verdicts
    <2> QED
      BY <2>2, <2>3, <2>4, <2>5, <2>6
  <1> QED
    BY <1>1, <1>3, <1>4, Passes

LEMMA DropIntentKeeps ==
  ASSUME DInv, NEW k \in Keys, DropIntent(k)
  PROVE  DInv'
  <1>1. fence = k /\ Types /\ Orderly(k) /\ caller[k].at = "unintend"
        /\ caller[k].note \in ExecStatus \cup ItemStatus
    BY Holds DEF DropIntent, At
  <1>2. Moves(k, DispatchAt(k), caller[k].note)
    BY <1>1, CallerMoves DEF DropIntent, DispatchAt, CallerSteps, WorkflowSteps, BuildSteps
  <1>3. Turn(k) /\ TicketsExpire /\ UNCHANGED <<exec, item, excused>> /\ k \notin intent'
    BY <1>1, <1>2, TicketsKept DEF DropIntent, DispatchAt, Turn, Types, Moves
  <1>4. ASSUME Grows
        PROVE  /\ Unborn(k)' /\ Dispatched(k)' /\ Submitted(k)' /\ Stored(k)'
               /\ k \notin excused' => Promised(k)'
    <2>1. /\ Github(k)' = Github(k) /\ (Sent(k)' <=> Sent(k)) /\ (Quiet(k) => Quiet(k)')
          /\ UNCHANGED runs[k] /\ (token[k] # <<>> => token'[k] # <<>>)
          /\ \A status : IsTrue(k, status) => IsTrue(k, status)'
          /\ \A status \in {"none", "queued", "failed_dispatch"} : IsTrue(k, status)'
      BY <1>1, <1>3, <1>4, Forward DEF Turn
    <2>2. Unborn(k)'
      BY <1>1, <1>2, <1>3, <2>1 DEF Orderly, Unborn, Moves, DispatchAt
    <2>3. Dispatched(k)'
      BY <1>1, <1>2, <1>3, <2>1
         DEF Orderly, Dispatched, Moves, WorkflowSteps, BuildSteps, DispatchAt, Unborn
    <2>4. Submitted(k)'
      BY <1>1, <1>2, <1>3, <2>1 DEF Orderly, Submitted, Moves, CanClaimSubmission, DispatchAt
    <2>5. Stored(k)'
      BY <1>1, <1>2, <1>3, <2>1 DEF Orderly, Stored, Moves, DispatchAt
    <2>6. k \notin excused' => Promised(k)'
      BY <1>1, <1>2, <1>3, <2>1 DEF Orderly, Promised, Moves, InDoubt, Turn, DispatchAt
    <2> QED
      BY <2>2, <2>3, <2>4, <2>5, <2>6
  <1> QED
    BY <1>1, <1>3, <1>4, Passes

LEMMA ReserveKeeps ==
  ASSUME DInv, NEW k \in Keys, Reserve(k)
  PROVE  DInv'
  <1>1. fence = k /\ Types /\ Orderly(k) /\ caller[k].at = "reserve"
        /\ caller[k].note \in ExecStatus \cup ItemStatus
    BY Holds DEF Reserve, At
  <1>2. PICK at \in {"claim", "revoke"} :
          Moves(k, at, caller[k].note) /\ Records(k, "SUBMISSION_PENDING", exec[k].build)
    BY <1>1, CallerMoves, ExecRecords
       DEF Reserve, Reserved, CallerSteps, WorkflowSteps, ExecStatus, Types, ExecRecord
  <1>3. Turn(k) /\ TicketsExpire /\ UNCHANGED <<intent, item, excused>>
    BY <1>1, <1>2, TicketsKept DEF Reserve, Fault, Turn, Types, Moves, Records
  <1>4. ASSUME Grows
        PROVE  /\ Unborn(k)' /\ Dispatched(k)' /\ Submitted(k)' /\ Stored(k)'
               /\ k \notin excused' => Promised(k)'
    <2>1. /\ Github(k)' = Github(k) /\ (Sent(k)' <=> Sent(k)) /\ (Quiet(k) => Quiet(k)')
          /\ UNCHANGED runs[k] /\ (token[k] # <<>> => token'[k] # <<>>)
          /\ \A status : IsTrue(k, status) => IsTrue(k, status)'
          /\ \A status \in {"none", "queued", "failed_dispatch"} : IsTrue(k, status)'
      BY <1>1, <1>3, <1>4, Forward DEF Turn
    <2>2. Unborn(k)'
      BY <1>1, <1>2, <1>3, <2>1 DEF Orderly, Unborn, Moves, Records
    <2>3. Dispatched(k)'
      BY <1>1, <1>2, <1>3, <2>1
         DEF Orderly, Dispatched, Moves, WorkflowSteps, BuildSteps, Records, Unborn
    <2>4. Submitted(k)'
      BY <1>1, <1>2, <1>3, <2>1 DEF Orderly, Submitted, Moves, CanClaimSubmission, Records,
         Dispatched, WorkflowSteps
    <2>5. Stored(k)'
      BY <1>1, <1>2, <1>3, <2>1 DEF Orderly, Stored, Moves, Records
    <2>6. k \notin excused' => Promised(k)'
      BY <1>1, <1>2, <1>3, <2>1
         DEF Orderly, Promised, Moves, InDoubt, Turn, Records, Dispatched, WorkflowSteps
    <2> QED
      BY <2>2, <2>3, <2>4, <2>5, <2>6
  <1> QED
    BY <1>1, <1>3, <1>4, Passes

LEMMA ClaimDispatchKeeps ==
  ASSUME DInv, NEW k \in Keys, ClaimDispatch(k)
  PROVE  DInv'
  <1>1. fence = k /\ Types /\ Orderly(k) /\ caller[k].at = "claim"
        /\ caller[k].note \in ExecStatus \cup ItemStatus
    BY Holds DEF ClaimDispatch, At
  <1>2. Moves(k, "dispatch", caller[k].note) /\ Records(k, "GITHUB_DISPATCHING", exec[k].build)
    BY <1>1, CallerMoves, ExecRecords
       DEF ClaimDispatch, CallerSteps, WorkflowSteps, ExecStatus, Types, ExecRecord
  <1>3. Turn(k) /\ TicketsExpire /\ UNCHANGED <<intent, item, excused>>
    BY <1>1, <1>2, TicketsKept DEF ClaimDispatch, Turn, Types, Moves, Records
  <1>4. ASSUME Grows
        PROVE  /\ Unborn(k)' /\ Dispatched(k)' /\ Submitted(k)' /\ Stored(k)'
               /\ k \notin excused' => Promised(k)'
    <2>1. /\ Github(k)' = Github(k) /\ (Sent(k)' <=> Sent(k)) /\ (Quiet(k) => Quiet(k)')
          /\ UNCHANGED runs[k] /\ (token[k] # <<>> => token'[k] # <<>>)
          /\ \A status : IsTrue(k, status) => IsTrue(k, status)'
          /\ \A status \in {"none", "queued", "failed_dispatch"} : IsTrue(k, status)'
      BY <1>1, <1>3, <1>4, Forward DEF Turn
    <2>2. Unborn(k)'
      BY <1>1, <1>2, <1>3, <2>1 DEF Orderly, Unborn, Moves, Records
    <2>3. Dispatched(k)'
      BY <1>1, <1>2, <1>3, <2>1
         DEF Orderly, Dispatched, Moves, WorkflowSteps, BuildSteps, Records
    <2>4. Submitted(k)'
      BY <1>1, <1>2, <1>3, <2>1 DEF Orderly, Submitted, Moves, CanClaimSubmission, Records,
         Dispatched, WorkflowSteps
    <2>5. Stored(k)'
      BY <1>1, <1>2, <1>3, <2>1 DEF Orderly, Stored, Moves, Records
    <2>6. k \notin excused' => Promised(k)'
      BY <1>1, <1>2, <1>3, <2>1
         DEF Orderly, Promised, Moves, InDoubt, Turn, Records, Dispatched, WorkflowSteps
    <2> QED
      BY <2>2, <2>3, <2>4, <2>5, <2>6
  <1> QED
    BY <1>1, <1>3, <1>4, Passes

LEMMA ReclaimDispatchKeeps ==
  ASSUME DInv, NEW k \in Keys, ReclaimDispatch(k)
  PROVE  DInv'
  <1>1. fence = k /\ Types /\ Orderly(k) /\ caller[k].at = "reclaim" /\ CanClaimDispatch(k)
        /\ caller[k].note \in ExecStatus \cup ItemStatus
    BY Holds DEF ReclaimDispatch, At
  <1>2. Moves(k, "lookup", exec[k].status) /\ Records(k, "GITHUB_DISPATCHING", exec[k].build)
    BY <1>1, CallerMoves, ExecRecords
       DEF ReclaimDispatch, CallerSteps, WorkflowSteps, ExecStatus, Types, ExecRecord
  <1>3. Turn(k) /\ TicketsExpire /\ UNCHANGED <<intent, item, excused>>
    BY <1>1, <1>2, TicketsKept DEF ReclaimDispatch, Turn, Types, Moves, Records
  <1>4. ASSUME Grows
        PROVE  /\ Unborn(k)' /\ Dispatched(k)' /\ Submitted(k)' /\ Stored(k)'
               /\ k \notin excused' => Promised(k)'
    <2>1. /\ Github(k)' = Github(k) /\ (Sent(k)' <=> Sent(k)) /\ (Quiet(k) => Quiet(k)')
          /\ UNCHANGED runs[k] /\ (token[k] # <<>> => token'[k] # <<>>)
          /\ \A status : IsTrue(k, status) => IsTrue(k, status)'
          /\ \A status \in {"none", "queued", "failed_dispatch"} : IsTrue(k, status)'
      BY <1>1, <1>3, <1>4, Forward DEF Turn
    <2>2. Unborn(k)'
      BY <1>1, <1>2, <1>3, <2>1 DEF Orderly, Unborn, Moves, Records
    <2>3. Dispatched(k)'
      BY <1>1, <1>2, <1>3, <2>1
         DEF Orderly, Dispatched, Moves, WorkflowSteps, BuildSteps, Records, CanClaimDispatch
    <2>4. Submitted(k)'
      BY <1>1, <1>2, <1>3, <2>1 DEF Orderly, Submitted, Moves, CanClaimSubmission, Records,
         Dispatched, WorkflowSteps
    <2>5. Stored(k)'
      BY <1>1, <1>2, <1>3, <2>1 DEF Orderly, Stored, Moves, Records
    <2>6. k \notin excused' => Promised(k)'
      BY <1>1, <1>2, <1>3, <2>1
         DEF Orderly, Promised, Moves, InDoubt, Turn, Records, Dispatched, WorkflowSteps
    <2> QED
      BY <2>2, <2>3, <2>4, <2>5, <2>6
  <1> QED
    BY <1>1, <1>3, <1>4, Passes

LEMMA RecordDispatchKeeps ==
  ASSUME DInv, NEW k \in Keys, RecordDispatch(k)
  PROVE  DInv'
  <1>1. fence = k /\ Types /\ Orderly(k) /\ caller[k].at = "record"
        /\ caller[k].note \in ExecStatus \cup ItemStatus
    BY Holds DEF RecordDispatch, At
  <1>2. /\ caller[k].note \in ExecStatus /\ "queued" \in ItemStatus
        /\ {"save", "fail", "revoke"} \subseteq CallerSteps
    BY <1>1 DEF Orderly, Dispatched, WorkflowSteps, CallerSteps, ExecStatus, ItemStatus
  <1>3. PICK at \in {"save", "fail", "revoke"}, note \in ExecStatus \cup ItemStatus :
          /\ Moves(k, at, note) /\ Records(k, caller[k].note, exec[k].build)
          /\ IF caller[k].note = "GITHUB_ACCEPTED" THEN at = "save" /\ note = "queued"
             ELSE at \in {"fail", "revoke"}
    BY <1>1, <1>2, CallerMoves, ExecRecords DEF RecordDispatch, Types, ExecRecord
  <1>4. Turn(k) /\ TicketsExpire /\ UNCHANGED <<intent, item, excused>>
    BY <1>1, <1>3, TicketsKept DEF RecordDispatch, Turn, Types, Moves, Records
  <1>5. ASSUME Grows
        PROVE  /\ Unborn(k)' /\ Dispatched(k)' /\ Submitted(k)' /\ Stored(k)'
               /\ k \notin excused' => Promised(k)'
    <2>1. /\ Github(k)' = Github(k) /\ (Sent(k)' <=> Sent(k)) /\ (Quiet(k) => Quiet(k)')
          /\ UNCHANGED runs[k] /\ (token[k] # <<>> => token'[k] # <<>>)
          /\ \A status : IsTrue(k, status) => IsTrue(k, status)'
          /\ \A status \in {"none", "queued", "failed_dispatch"} : IsTrue(k, status)'
      BY <1>1, <1>4, <1>5, Forward DEF Turn
    <2>2. Unborn(k)'
      BY <1>1, <1>3, <1>4, <2>1 DEF Orderly, Unborn, Moves, Records, NoExec
    <2>3. Dispatched(k)'
      BY <1>1, <1>3, <1>4, <2>1
         DEF Orderly, Dispatched, Moves, WorkflowSteps, BuildSteps, Records
    <2>4. Submitted(k)'
      BY <1>1, <1>3, <1>4, <2>1 DEF Orderly, Submitted, Moves, CanClaimSubmission, Records,
         Dispatched, WorkflowSteps
    <2>5. Stored(k)'
      BY <1>1, <1>3, <1>4, <2>1 DEF Orderly, Stored, Moves, Records, ItemStatus, Terminal
    <2>6. k \notin excused' => Promised(k)'
      BY <1>1, <1>3, <1>4, <2>1
         DEF Orderly, Promised, Moves, InDoubt, Turn, Records, Dispatched, WorkflowSteps
    <2> QED
      BY <2>2, <2>3, <2>4, <2>5, <2>6
  <1> QED
    BY <1>1, <1>4, <1>5, Passes

LEMMA RetryLookupKeeps ==
  ASSUME DInv, NEW k \in Keys, RetryLookup(k)
  PROVE  DInv'
  <1>1. fence = k /\ Types /\ Orderly(k) /\ caller[k].at = "lookup"
        /\ caller[k].note \in ExecStatus \cup ItemStatus
    BY Holds DEF RetryLookup, At
  <1>2. caller[k].note \in {"SUBMISSION_PENDING", "GITHUB_REJECTED"}
    BY <1>1 DEF Orderly, Dispatched, WorkflowSteps
  <1>3. caller[k].note \in ExecStatus /\ {"dispatch", "fail"} \subseteq CallerSteps
    BY <1>2 DEF ExecStatus, CallerSteps, WorkflowSteps
  <1>4. exec[k].build \in Nat
    BY <1>1 DEF Types, ExecRecord
  <1>5. \/ Moves(k, "dispatch", caller[k].note) /\ UNCHANGED exec /\ TicketsExpire
        \/ /\ Moves(k, "fail", caller[k].note) /\ Records(k, caller[k].note, exec[k].build)
           /\ TicketsExpire
    BY <1>1, <1>2, <1>3, <1>4, CallerMoves, ExecRecords, IssueExpires, TicketsKept
       DEF RetryLookup
  <1>6. Turn(k) /\ TicketsExpire /\ UNCHANGED <<intent, item, excused>>
    BY <1>1, <1>5 DEF RetryLookup, Fault, Turn, Types, Moves, Records
  <1>7. ASSUME Grows
        PROVE  /\ Unborn(k)' /\ Dispatched(k)' /\ Submitted(k)' /\ Stored(k)'
               /\ k \notin excused' => Promised(k)'
    <2>1. /\ Github(k)' = Github(k) /\ (Sent(k)' <=> Sent(k)) /\ (Quiet(k) => Quiet(k)')
          /\ UNCHANGED runs[k] /\ (token[k] # <<>> => token'[k] # <<>>)
          /\ \A status : IsTrue(k, status) => IsTrue(k, status)'
          /\ \A status \in {"none", "queued", "failed_dispatch"} : IsTrue(k, status)'
      BY <1>1, <1>6, <1>7, Forward DEF Turn
    <2>2. Unborn(k)'
      BY <1>1, <1>5, <1>6, <2>1 DEF Orderly, Unborn, Moves, Records, NoExec
    <2>3. Dispatched(k)'
      BY <1>1, <1>2, <1>5, <1>6, <2>1
         DEF Orderly, Dispatched, Moves, WorkflowSteps, BuildSteps, Records
    <2>4. Submitted(k)'
      BY <1>1, <1>5, <1>6, <2>1 DEF Orderly, Submitted, Moves, CanClaimSubmission, Records,
         Dispatched, WorkflowSteps
    <2>5. Stored(k)'
      BY <1>1, <1>5, <1>6, <2>1 DEF Orderly, Stored, Moves, Records
    <2>6. k \notin excused' => Promised(k)'
      BY <1>1, <1>2, <1>5, <1>6, <2>1
         DEF Orderly, Promised, Moves, InDoubt, Turn, Records, Dispatched, WorkflowSteps
    <2> QED
      BY <2>2, <2>3, <2>4, <2>5, <2>6
  <1> QED
    BY <1>1, <1>6, <1>7, Passes

LEMMA RevokeAuthorizationKeeps ==
  ASSUME DInv, NEW k \in Keys, RevokeAuthorization(k)
  PROVE  DInv'
  <1>1. fence = k /\ Types /\ Orderly(k) /\ caller[k].at = "revoke"
        /\ caller[k].note \in ExecStatus \cup ItemStatus
    BY Holds DEF RevokeAuthorization, At
  <1>2. Len(token[k]) \in 1..Len(token[k]) /\ "revoked" \in Tickets \ {"issued"}
    BY <1>1, Positions DEF Orderly, Unborn, Dispatched, WorkflowSteps, Tickets
  <1>3. UsesUp(k, Len(token[k]), "revoked")
    BY DEF RevokeAuthorization, Revoked, UsesUp
  <1>4. Moves(k, "fail", caller[k].note)
    BY <1>1, CallerMoves DEF RevokeAuthorization, CallerSteps
  <1>5. Turn(k) /\ TicketsExpire /\ UNCHANGED <<intent, item, exec, excused>>
    BY <1>1, <1>4, <1>2, <1>3, SettingExpires DEF RevokeAuthorization, Turn, Types, Moves
  <1>6. ASSUME Grows
        PROVE  /\ Unborn(k)' /\ Dispatched(k)' /\ Submitted(k)' /\ Stored(k)'
               /\ k \notin excused' => Promised(k)'
    <2>1. /\ Github(k)' = Github(k) /\ (Sent(k)' <=> Sent(k)) /\ (Quiet(k) => Quiet(k)')
          /\ UNCHANGED runs[k] /\ (token[k] # <<>> => token'[k] # <<>>)
          /\ \A status : IsTrue(k, status) => IsTrue(k, status)'
          /\ \A status \in {"none", "queued", "failed_dispatch"} : IsTrue(k, status)'
      BY <1>1, <1>5, <1>6, Forward DEF Turn
    <2>2. Unborn(k)'
      BY <1>1, <1>4, <1>5, <2>1 DEF Orderly, Unborn, Moves
    <2>3. Dispatched(k)'
      BY <1>1, <1>4, <1>5, <2>1 DEF Orderly, Dispatched, Moves, WorkflowSteps, BuildSteps
    <2>4. Submitted(k)'
      BY <1>1, <1>4, <1>5, <2>1 DEF Orderly, Submitted, Moves, CanClaimSubmission
    <2>5. Stored(k)'
      BY <1>1, <1>4, <1>5, <2>1 DEF Orderly, Stored, Moves
    <2>6. k \notin excused' => Promised(k)'
      BY <1>1, <1>4, <1>5, <2>1 DEF Orderly, Promised, Moves, InDoubt, Turn
    <2> QED
      BY <2>2, <2>3, <2>4, <2>5, <2>6
  <1> QED
    BY <1>1, <1>5, <1>6, Passes

LEMMA ClaimSubmissionKeeps ==
  ASSUME DInv, NEW k \in Keys, ClaimSubmission(k)
  PROVE  DInv'
  <1>1. fence = k /\ Types /\ Orderly(k) /\ caller[k].at = "claim_submission"
        /\ caller[k].note \in ExecStatus \cup ItemStatus
    BY Holds DEF ClaimSubmission, At
  <1>2. /\ exec[k].build \in Nat /\ "SUBMITTING" \in ExecStatus
        /\ {"post", "fail"} \subseteq CallerSteps
    BY <1>1 DEF Types, ExecRecord, ExecStatus, CallerSteps, BuildSteps
  <1>3. \/ /\ CanClaimSubmission(k)
           /\ Moves(k, "post", caller[k].note) /\ Records(k, "SUBMITTING", exec[k].build)
        \/ Moves(k, "fail", caller[k].note) /\ UNCHANGED exec
    BY <1>1, <1>2, CallerMoves, ExecRecords DEF ClaimSubmission
  <1>4. Turn(k) /\ TicketsExpire /\ UNCHANGED <<intent, item, excused>>
    BY <1>1, <1>3, TicketsKept DEF ClaimSubmission, Turn, Types, Moves, Records
  <1>5. ASSUME Grows
        PROVE  /\ Unborn(k)' /\ Dispatched(k)' /\ Submitted(k)' /\ Stored(k)'
               /\ k \notin excused' => Promised(k)'
    <2>1. /\ Github(k)' = Github(k) /\ (Sent(k)' <=> Sent(k)) /\ (Quiet(k) => Quiet(k)')
          /\ UNCHANGED runs[k] /\ (token[k] # <<>> => token'[k] # <<>>)
          /\ \A status : IsTrue(k, status) => IsTrue(k, status)'
          /\ \A status \in {"none", "queued", "failed_dispatch"} : IsTrue(k, status)'
      BY <1>1, <1>4, <1>5, Forward DEF Turn
    <2>2. Unborn(k)'
      BY <1>1, <1>3, <1>4, <2>1 DEF Orderly, Unborn, Moves, Records
    <2>3. Dispatched(k)'
      BY <1>1, <1>3, <1>4, <2>1
         DEF Orderly, Dispatched, Moves, WorkflowSteps, BuildSteps, Records, Submitted
    <2>4. Submitted(k)'
      BY <1>1, <1>3, <1>4, <2>1
         DEF Orderly, Submitted, Moves, CanClaimSubmission, Records, Dispatched, BuildSteps
    <2>5. Stored(k)'
      BY <1>1, <1>3, <1>4, <2>1 DEF Orderly, Stored, Moves, Records
    <2>6. k \notin excused' => Promised(k)'
      BY <1>1, <1>3, <1>4, <2>1 DEF Orderly, Promised, Moves, InDoubt, Turn, Records, Dispatched
    <2> QED
      BY <2>2, <2>3, <2>4, <2>5, <2>6
  <1> QED
    BY <1>1, <1>4, <1>5, Passes

LEMMA RecordSubmissionKeeps ==
  ASSUME DInv, NEW k \in Keys, RecordSubmission(k)
  PROVE  DInv'
  <1>1. fence = k /\ Types /\ Orderly(k) /\ caller[k].at = "settle"
        /\ caller[k].note \in ExecStatus \cup ItemStatus
    BY Holds DEF RecordSubmission, At
  <1>2. /\ exec[k].build \in Nat /\ caller[k].note \in ExecStatus
        /\ "fail" \in CallerSteps
    BY <1>1 DEF Types, ExecRecord, ExecStatus, CallerSteps, Orderly, Dispatched, BuildSteps,
                Submitted
  <1>3. Moves(k, "fail", caller[k].note) /\ Records(k, caller[k].note, exec[k].build)
    BY <1>1, <1>2, CallerMoves, ExecRecords DEF RecordSubmission
  <1>4. Turn(k) /\ TicketsExpire /\ UNCHANGED <<intent, item>>
        /\ excused' = IF runs[k] = <<>> THEN excused ELSE excused \cup {k}
    BY <1>1, <1>3, TicketsKept DEF RecordSubmission, Turn, Types, Moves, Records
  <1>5. ASSUME Grows
        PROVE  /\ Unborn(k)' /\ Dispatched(k)' /\ Submitted(k)' /\ Stored(k)'
               /\ k \notin excused' => Promised(k)'
    <2>1. /\ Github(k)' = Github(k) /\ (Sent(k)' <=> Sent(k)) /\ (Quiet(k) => Quiet(k)')
          /\ UNCHANGED runs[k] /\ (token[k] # <<>> => token'[k] # <<>>)
          /\ \A status : IsTrue(k, status) => IsTrue(k, status)'
          /\ \A status \in {"none", "queued", "failed_dispatch"} : IsTrue(k, status)'
      BY <1>1, <1>4, <1>5, Forward DEF Turn
    <2>2. Unborn(k)'
      BY <1>1, <1>3, <1>4, <2>1 DEF Orderly, Unborn, Moves, Records, NoExec
    <2>3. Dispatched(k)'
      BY <1>1, <1>3, <1>4, <2>1
         DEF Orderly, Dispatched, Moves, WorkflowSteps, BuildSteps, Records, Submitted
    <2>4. Submitted(k)'
      BY <1>1, <1>3, <1>4, <2>1
         DEF Orderly, Submitted, Moves, CanClaimSubmission, Records, Dispatched, BuildSteps
    <2>5. Stored(k)'
      BY <1>1, <1>3, <1>4, <2>1 DEF Orderly, Stored, Moves, Records
    <2>6. k \notin excused' => Promised(k)'
      BY <1>1, <1>3, <1>4, <2>1 DEF Orderly, Promised, Moves, InDoubt, Turn, Records, Sent
    <2> QED
      BY <2>2, <2>3, <2>4, <2>5, <2>6
  <1> QED
    BY <1>1, <1>4, <1>5, Passes

LEMMA BindBuildKeeps ==
  ASSUME DInv, NEW k \in Keys, BindBuild(k)
  PROVE  DInv'
  <1>1. fence = k /\ Types /\ Orderly(k) /\ caller[k].at = "bind"
        /\ caller[k].note \in ExecStatus \cup ItemStatus
    BY Holds DEF BindBuild, At
  <1>2. ~Github(k) /\ Sent(k) /\ exec[k].status = "SUBMITTING"
    BY <1>1 DEF Orderly, Dispatched, BuildSteps, Submitted
  <1>3. Attempts
    BY DEF DInv
  <1>4. Len(runs[k]) = 1
    BY <1>1, <1>2, <1>3, OneBuild
  <1>5. /\ Len(runs[k]) = 1 /\ 1 \in Nat /\ "BOUND" \in ExecStatus
        /\ "announce" \in CallerSteps /\ "queued" \in ExecStatus \cup ItemStatus
    BY <1>4 DEF ExecStatus, ItemStatus, CallerSteps, BuildSteps
  <1>6. Moves(k, "announce", "queued") /\ Records(k, "BOUND", 1)
    BY <1>1, <1>2, <1>5, CallerMoves, ExecRecords DEF BindBuild
  <1>7. Turn(k) /\ TicketsExpire /\ UNCHANGED <<intent, item, excused>>
    BY <1>1, <1>6, TicketsKept DEF BindBuild, Turn, Types, Moves, Records
  <1>8. ASSUME Grows
        PROVE  /\ Unborn(k)' /\ Dispatched(k)' /\ Submitted(k)' /\ Stored(k)'
               /\ k \notin excused' => Promised(k)'
    <2>1. /\ Github(k)' = Github(k) /\ (Sent(k)' <=> Sent(k)) /\ (Quiet(k) => Quiet(k)')
          /\ UNCHANGED runs[k] /\ (token[k] # <<>> => token'[k] # <<>>)
          /\ \A status : IsTrue(k, status) => IsTrue(k, status)'
          /\ \A status \in {"none", "queued", "failed_dispatch"} : IsTrue(k, status)'
      BY <1>1, <1>7, <1>8, Forward DEF Turn
    <2>2. Unborn(k)'
      BY <1>1, <1>6, <1>7, <2>1 DEF Orderly, Unborn, Moves, Records, NoExec
    <2>3. Dispatched(k)'
      BY <1>1, <1>2, <1>6, <1>7, <2>1
         DEF Orderly, Dispatched, Moves, WorkflowSteps, BuildSteps, Records
    <2>4. Submitted(k)'
      BY <1>1, <1>2, <1>6, <1>7, <2>1 DEF Orderly, Submitted, Moves, CanClaimSubmission, Records
    <2>5. Stored(k)'
      BY <1>1, <1>6, <1>7, <2>1 DEF Orderly, Stored, Moves, Records, ItemStatus
    <2>6. k \notin excused' => Promised(k)'
      BY <1>1, <1>2, <1>6, <1>7, <2>1 DEF Orderly, Promised, Moves, InDoubt, Turn, Records
    <2> QED
      BY <2>2, <2>3, <2>4, <2>5, <2>6
  <1> QED
    BY <1>1, <1>7, <1>8, Passes

LEMMA AnnounceKeeps ==
  ASSUME DInv, NEW k \in Keys, Announce(k)
  PROVE  DInv'
  <1>1. fence = k /\ Types /\ Orderly(k) /\ caller[k].at = "announce"
        /\ caller[k].note \in ExecStatus \cup ItemStatus
    BY Holds DEF Announce, At
  <1>2. Moves(k, "save", caller[k].note)
    BY <1>1, CallerMoves DEF Announce, CallerSteps
  <1>3. Turn(k) /\ TicketsExpire /\ UNCHANGED <<intent, item, exec, excused>>
    BY <1>1, <1>2, TicketsKept DEF Announce, Turn, Types, Moves
  <1>4. ASSUME Grows
        PROVE  /\ Unborn(k)' /\ Dispatched(k)' /\ Submitted(k)' /\ Stored(k)'
               /\ k \notin excused' => Promised(k)'
    <2>1. /\ Github(k)' = Github(k) /\ (Sent(k)' <=> Sent(k)) /\ (Quiet(k) => Quiet(k)')
          /\ UNCHANGED runs[k] /\ (token[k] # <<>> => token'[k] # <<>>)
          /\ \A status : IsTrue(k, status) => IsTrue(k, status)'
          /\ \A status \in {"none", "queued", "failed_dispatch"} : IsTrue(k, status)'
      BY <1>1, <1>3, <1>4, Forward DEF Turn
    <2>2. Unborn(k)'
      BY <1>1, <1>2, <1>3, <2>1 DEF Orderly, Unborn, Moves
    <2>3. Dispatched(k)'
      BY <1>1, <1>2, <1>3, <2>1 DEF Orderly, Dispatched, Moves, WorkflowSteps, BuildSteps
    <2>4. Submitted(k)'
      BY <1>1, <1>2, <1>3, <2>1 DEF Orderly, Submitted, Moves, CanClaimSubmission
    <2>5. Stored(k)'
      BY <1>1, <1>2, <1>3, <2>1 DEF Orderly, Stored, Moves
    <2>6. k \notin excused' => Promised(k)'
      BY <1>1, <1>2, <1>3, <2>1 DEF Orderly, Promised, Moves, InDoubt, Turn
    <2> QED
      BY <2>2, <2>3, <2>4, <2>5, <2>6
  <1> QED
    BY <1>1, <1>3, <1>4, Passes

LEMMA CrashKeeps ==
  ASSUME DInv, NEW k \in Keys, Crash(k)
  PROVE  DInv'
  <1>1. fence = k /\ Types /\ Orderly(k) /\ caller[k].at # "idle"
        /\ caller[k].note \in ExecStatus \cup ItemStatus
    BY Holds DEF Crash, At
  <1>2. Moves(k, "dead", caller[k].note)
    BY <1>1, CallerMoves DEF Crash, CallerSteps
  <1>3. Turn(k) /\ TicketsExpire /\ UNCHANGED <<intent, item, exec, excused>>
    BY <1>1, <1>2, TicketsKept DEF Crash, Fault, Turn, Types, Moves
  <1>4. ASSUME Grows
        PROVE  /\ Unborn(k)' /\ Dispatched(k)' /\ Submitted(k)' /\ Stored(k)'
               /\ k \notin excused' => Promised(k)'
    <2>1. /\ Github(k)' = Github(k) /\ (Sent(k)' <=> Sent(k)) /\ (Quiet(k) => Quiet(k)')
          /\ UNCHANGED runs[k] /\ (token[k] # <<>> => token'[k] # <<>>)
          /\ \A status : IsTrue(k, status) => IsTrue(k, status)'
          /\ \A status \in {"none", "queued", "failed_dispatch"} : IsTrue(k, status)'
      BY <1>1, <1>3, <1>4, Forward DEF Turn
    <2>2. Unborn(k)'
      BY <1>1, <1>2, <1>3, <2>1 DEF Orderly, Unborn, Moves
    <2>3. Dispatched(k)'
      BY <1>1, <1>2, <1>3, <2>1 DEF Orderly, Dispatched, Moves, WorkflowSteps, BuildSteps
    <2>4. Submitted(k)'
      BY <1>1, <1>2, <1>3, <2>1 DEF Orderly, Submitted, Moves, CanClaimSubmission
    <2>5. Stored(k)'
      BY <1>1, <1>2, <1>3, <2>1 DEF Orderly, Stored, Moves
    <2>6. k \notin excused' => Promised(k)'
      BY <1>1, <1>2, <1>3, <2>1 DEF Orderly, Promised, Moves, InDoubt, Turn
    <2> QED
      BY <2>2, <2>3, <2>4, <2>5, <2>6
  <1> QED
    BY <1>1, <1>3, <1>4, Passes

LEMMA AbandonKeeps ==
  ASSUME DInv, NEW k \in Keys, Abandon(k)
  PROVE  DInv'
  <1>1. fence = k /\ Types /\ Orderly(k) /\ caller[k].at # "idle"
        /\ caller[k].note \in ExecStatus \cup ItemStatus
    BY Holds DEF Abandon, At
  <1>2. Leaves(k)
    BY <1>1, CallerLeaves DEF Abandon, Leave
  <1>3. Turn(k) /\ TicketsExpire /\ UNCHANGED <<intent, item, exec, excused>>
    BY <1>1, <1>2, TicketsKept DEF Abandon, Leave, Fault, Turn, Types, Leaves
  <1>4. ASSUME Grows
        PROVE  /\ Unborn(k)' /\ Dispatched(k)' /\ Submitted(k)' /\ Stored(k)'
               /\ k \notin excused' => Promised(k)'
    <2>1. /\ Github(k)' = Github(k) /\ (Sent(k)' <=> Sent(k)) /\ (Quiet(k) => Quiet(k)')
          /\ UNCHANGED runs[k] /\ (token[k] # <<>> => token'[k] # <<>>)
          /\ \A status : IsTrue(k, status) => IsTrue(k, status)'
          /\ \A status \in {"none", "queued", "failed_dispatch"} : IsTrue(k, status)'
      BY <1>1, <1>3, <1>4, Forward DEF Turn
    <2>2. Unborn(k)'
      BY <1>1, <1>2, <1>3, <2>1 DEF Orderly, Unborn, Leaves
    <2>3. Dispatched(k)'
      BY <1>1, <1>2, <1>3, <2>1 DEF Orderly, Dispatched, Leaves, WorkflowSteps, BuildSteps
    <2>4. Submitted(k)'
      BY <1>1, <1>2, <1>3, <2>1 DEF Orderly, Submitted, Leaves, CanClaimSubmission
    <2>5. Stored(k)'
      BY <1>1, <1>2, <1>3, <2>1 DEF Orderly, Stored, Leaves
    <2>6. k \notin excused' => Promised(k)'
      BY <1>1, <1>2, <1>3, <2>1 DEF Orderly, Promised, Leaves, InDoubt, Turn
    <2> QED
      BY <2>2, <2>3, <2>4, <2>5, <2>6
  <1> QED
    BY <1>1, <1>3, <1>4, Passes

LEMMA SaveKeeps ==
  ASSUME DInv, NEW k \in Keys, Save(k)
  PROVE  DInv'
  <1>1. fence = k /\ Types /\ Orderly(k) /\ caller[k].at \in {"save", "fail"}
        /\ caller[k].note \in ExecStatus \cup ItemStatus
    BY Holds DEF Save, At
  <1>2. /\ "failed_dispatch" \in ItemStatus
        /\ caller[k].at = "save" => caller[k].note \in ItemStatus
    BY <1>1 DEF ItemStatus, Terminal, Orderly, Stored
  <1>3. Leaves(k)
    BY <1>1, CallerLeaves DEF Save, Leave
  <1>4. Turn(k) /\ TicketsExpire /\ UNCHANGED <<intent, exec, excused>>
        /\ item'[k] = IF caller[k].at = "fail" THEN "failed_dispatch" ELSE caller[k].note
    BY <1>1, <1>3, <1>2, TicketsKept DEF Save, Leave, At, Turn, Types, Leaves
  <1>5. ASSUME Grows
        PROVE  /\ Unborn(k)' /\ Dispatched(k)' /\ Submitted(k)' /\ Stored(k)'
               /\ k \notin excused' => Promised(k)'
    <2>1. /\ Github(k)' = Github(k) /\ (Sent(k)' <=> Sent(k)) /\ (Quiet(k) => Quiet(k)')
          /\ UNCHANGED runs[k] /\ (token[k] # <<>> => token'[k] # <<>>)
          /\ \A status : IsTrue(k, status) => IsTrue(k, status)'
          /\ \A status \in {"none", "queued", "failed_dispatch"} : IsTrue(k, status)'
      BY <1>1, <1>4, <1>5, Forward DEF Turn
    <2>2. Unborn(k)'
      BY <1>1, <1>3, <1>4, <2>1 DEF Orderly, Unborn, Leaves, Stored
    <2>3. Dispatched(k)'
      BY <1>1, <1>3, <1>4, <2>1 DEF Orderly, Dispatched, Leaves, WorkflowSteps, BuildSteps
    <2>4. Submitted(k)'
      BY <1>1, <1>3, <1>4, <2>1 DEF Orderly, Submitted, Leaves, CanClaimSubmission
    <2>5. Stored(k)'
      BY <1>1, <1>3, <1>4, <2>1 DEF Orderly, Stored, Leaves
    <2>6. k \notin excused' => Promised(k)'
      BY <1>1, <1>3, <1>4, <2>1 DEF Orderly, Promised, Leaves, InDoubt, Turn, Verdicts
    <2> QED
      BY <2>2, <2>3, <2>4, <2>5, <2>6
  <1> QED
    BY <1>1, <1>4, <1>5, Passes

LEMMA SubmitKeeps ==
  ASSUME DInv, NEW k \in Keys, Submit(k)
  PROVE  DInv'
  <1>1. fence = k /\ Types /\ Orderly(k) /\ caller[k].at = "submit" /\ ~Github(k)
        /\ caller[k].note \in ExecStatus \cup ItemStatus
    BY Holds DEF Submit, At, Orderly, Dispatched, BuildSteps
  <1> DEFINE reserved == IF exec[k].status = "none" THEN "SUBMISSION_PENDING" ELSE exec[k].status
  <1>2. /\ exec[k].build \in Nat /\ reserved \in ExecStatus /\ "BOUND" \in ExecStatus
        /\ item[k] \in ItemStatus /\ "queued" \in ItemStatus
        /\ {"announce", "claim_submission", "fail"} \subseteq CallerSteps /\ 1 \in Nat
    BY <1>1 DEF Types, ExecRecord, ExecStatus, ItemStatus, CallerSteps, BuildSteps
  <1>3. ASSUME NEW i \in Visible(k) PROVE Sent(k) /\ i = 1 /\ runs[k][i].state # "inflight"
    <2>1. i \in DOMAIN runs[k]
      BY <1>3 DEF Visible, RunsIn
    <2>2. Sent(k) /\ Attempts
      BY <1>1, <2>1, Positions DEF DInv
    <2> QED
      BY <1>1, <1>3, <2>1, <2>2, OneBuild DEF Visible, RunsIn
  <1>4. ASSUME Visible(k) = {}, Sent(k) PROVE runs[k][1].state = "inflight"
    <2>1. 1 \in DOMAIN runs[k] /\ runs[k][1] \in RunRecord
      BY <1>1, <1>4, Positions
    <2> QED
      BY <1>4, <2>1 DEF Visible, RunsIn, RunRecord
  <1>5. exec' = (IF exec[k].status = "none" THEN Reserved(k) ELSE exec) =>
          Records(k, reserved, exec[k].build)
    <2>1. CASE exec[k].status = "none"
      BY <1>1, <1>2, <2>1, ExecRecords DEF Reserved
    <2>2. CASE exec[k].status # "none"
      BY <1>1, <2>2 DEF Records, Types
    <2> QED
      BY <2>1, <2>2
  <1> HIDE DEF reserved
  <1>6. \/ /\ exec[k].build # 0
           /\ Moves(k, "announce", item[k]) /\ UNCHANGED exec
        \/ /\ exec[k].build = 0 /\ Sent(k) /\ runs[k][1].state # "inflight"
           /\ Moves(k, "announce", "queued") /\ Records(k, "BOUND", 1)
        \/ /\ exec[k].build = 0 /\ (Sent(k) => runs[k][1].state = "inflight")
           /\ Moves(k, "claim_submission", caller[k].note) /\ Records(k, reserved, exec[k].build)
        \/ /\ exec[k].build = 0
           /\ Moves(k, "fail", caller[k].note) /\ Records(k, reserved, exec[k].build)
    <2>1. CASE exec[k].build # 0 /\ Note(k, "announce", item[k]) /\ UNCHANGED exec
      BY <1>1, <1>2, <2>1, CallerMoves
    <2>2. CASE /\ exec[k].build = 0 /\ Note(k, "announce", "queued")
               /\ \E i \in Visible(k) :
                    exec' = [exec EXCEPT ![k].status = "BOUND", ![k].build = i]
      <3>1. /\ Sent(k) /\ runs[k][1].state # "inflight"
            /\ exec' = [exec EXCEPT ![k].status = "BOUND", ![k].build = 1]
        BY <1>3, <2>2
      <3>2. Records(k, "BOUND", 1)
        BY <1>1, <1>2, <3>1, ExecRecords
      <3>3. Moves(k, "announce", "queued")
        BY <1>1, <1>2, <2>2, CallerMoves
      <3> QED
        BY <2>2, <3>1, <3>2, <3>3
    <2>3. CASE /\ exec[k].build = 0 /\ Visible(k) = {} /\ Goto(k, "claim_submission")
               /\ exec' = IF exec[k].status = "none" THEN Reserved(k) ELSE exec
      BY <1>1, <1>2, <1>4, <1>5, <2>3, CallerMoves
    <2>4. CASE /\ exec[k].build = 0 /\ Goto(k, "fail")
               /\ exec' = IF exec[k].status = "none" THEN Reserved(k) ELSE exec
      BY <1>1, <1>2, <1>5, <2>4, CallerMoves
    <2> QED
      BY <2>1, <2>2, <2>3, <2>4 DEF Submit
  <1>7. Turn(k) /\ TicketsExpire /\ UNCHANGED <<intent, item, excused>>
    BY <1>1, <1>6, TicketsKept DEF Submit, Fault, Turn, Types, Moves, Records
  <1>8. ASSUME Grows
        PROVE  /\ Unborn(k)' /\ Dispatched(k)' /\ Submitted(k)' /\ Stored(k)'
               /\ k \notin excused' => Promised(k)'
    <2>1. /\ Github(k)' = Github(k) /\ (Sent(k)' <=> Sent(k)) /\ (Quiet(k) => Quiet(k)')
          /\ UNCHANGED runs[k] /\ (token[k] # <<>> => token'[k] # <<>>)
          /\ \A status : IsTrue(k, status) => IsTrue(k, status)'
          /\ \A status \in {"none", "queued", "failed_dispatch"} : IsTrue(k, status)'
      BY <1>1, <1>7, <1>8, Forward DEF Turn
    <2> USE <1>2 DEF reserved
    <2>2. Unborn(k)'
      BY <1>1, <1>6, <1>7, <2>1 DEF Orderly, Unborn, Moves, Records
    <2>3. Dispatched(k)'
      BY <1>1, <1>6, <1>7, <2>1
         DEF Orderly, Dispatched, Moves, WorkflowSteps, BuildSteps, Records
    <2>4. Submitted(k)'
      BY <1>1, <1>6, <1>7, <2>1 DEF Orderly, Submitted, Moves, CanClaimSubmission, Records
    <2>5. Stored(k)'
      BY <1>1, <1>6, <1>7, <2>1 DEF Orderly, Stored, Unborn, Moves, Records
    <2>6. k \notin excused' => Promised(k)'
      BY <1>1, <1>6, <1>7, <2>1 DEF Orderly, Promised, Submitted, Moves, InDoubt, Turn, Records
    <2> QED
      BY <2>2, <2>3, <2>4, <2>5, <2>6
  <1> QED
    BY <1>1, <1>7, <1>8, Passes

\* The caller asks the provider for the first and only run.
LEMMA Launches ==
  ASSUME DInv, NEW k \in Keys, caller[k].at # "idle", ~Sent(k),
         caller[k].at \in {"dispatch", "post"},
         NEW state \in {"queued", "inflight"}, Run(k, state),
         NEW at \in {"record", "bind", "settle"}, NEW note, Moves(k, at, note),
         UNCHANGED <<load, fence, intent, item, exec, token, live, handler, mail, calls, excused>>,
         faults' \in Nat,
         /\ Github(k)' = Github(k) /\ Sent(k)' /\ runs'[k][1].state = state
         => Dispatched(k)' /\ Submitted(k)'
  PROVE  DInv'
  <1>1. /\ fence = k /\ Types /\ Attempts /\ Effects /\ Orderly(k)
        /\ \A j \in Keys \ {k} : caller[j].at = "idle"
    BY Holds
  <1>2. item[k] # "none" /\ k \notin intent /\ (Github(k) => token[k] # <<>>)
    BY <1>1 DEF Orderly, Unborn
  <1>3. /\ runs' \in [Keys -> Seq(RunRecord)]
        /\ Attempts' /\ Effects' /\ Grows /\ Sent(k)' /\ runs'[k][1].state = state
        /\ \A j \in Keys \ {k} : runs'[j] = runs[j]
    BY <1>1, <1>2, FirstRun
  <1>4. TicketsExpire /\ Github(k)' = Github(k)
    BY <1>1, TicketsKept DEF Github
  <1>5. Alone(k)
    BY <1>1, <1>3 DEF Alone, Types, Moves, Fenced
  <1>6. \A h \in Handlers : handler[h].at # "idle" => handler[h].key # k
    BY DEF DInv, Reports, HeldTruth
  <1>7. Fenced(k)'
    BY <1>1 DEF Fenced, Moves
  <1>8. Unborn(k)'
    BY <1>1, <1>2, <1>4 DEF Unborn, Moves
  <1>9. Stored(k)'
    BY <1>1, <1>3, TruthStays DEF Orderly, Stored, Moves
  <1>10. k \notin excused' => Promised(k)'
    BY <1>1, <1>6 DEF Orderly, Promised, Moves, Verdicts
  <1>11. Orderly(k)'
    BY <1>3, <1>4, <1>7, <1>8, <1>9, <1>10 DEF Orderly
  <1> QED
    BY <1>1, <1>3, <1>4, <1>5, <1>11, HolderFollows

LEMMA DispatchWithoutRun ==
  ASSUME DInv, NEW k \in Keys, Dispatch(k), UNCHANGED runs
  PROVE  DInv'
  <1>1. fence = k /\ Types /\ Orderly(k) /\ caller[k].at = "dispatch" /\ Github(k)
        /\ caller[k].note \in ExecStatus \cup ItemStatus
    BY Holds DEF Dispatch, At, Orderly, Dispatched, WorkflowSteps
  <1>2. /\ {"GITHUB_REJECTED", "GITHUB_UNCERTAIN", "GITHUB_ACCEPTED"} \subseteq ExecStatus
        /\ "record" \in CallerSteps
    BY DEF ExecStatus, CallerSteps, WorkflowSteps
  <1>3. PICK note \in {"GITHUB_REJECTED", "GITHUB_UNCERTAIN", "GITHUB_ACCEPTED"} :
          Moves(k, "record", note)
    BY <1>1, <1>2, CallerMoves DEF Dispatch, Accepted, Refused
  <1>4. Turn(k) /\ TicketsExpire /\ UNCHANGED <<intent, item, exec, excused>>
    BY <1>1, <1>3, TicketsKept DEF Dispatch, Accepted, Fault, Turn, Types, Moves
  <1>5. ASSUME Grows
        PROVE  /\ Unborn(k)' /\ Dispatched(k)' /\ Submitted(k)' /\ Stored(k)'
               /\ k \notin excused' => Promised(k)'
    <2>1. /\ Github(k)' = Github(k) /\ (Sent(k)' <=> Sent(k)) /\ (Quiet(k) => Quiet(k)')
          /\ UNCHANGED runs[k] /\ (token[k] # <<>> => token'[k] # <<>>)
          /\ \A status : IsTrue(k, status) => IsTrue(k, status)'
          /\ \A status \in {"none", "queued", "failed_dispatch"} : IsTrue(k, status)'
      BY <1>1, <1>4, <1>5, Forward DEF Turn
    <2>2. Unborn(k)'
      BY <1>1, <1>3, <1>4, <2>1 DEF Orderly, Unborn, Moves
    <2>3. Dispatched(k)'
      BY <1>1, <1>3, <1>4, <2>1 DEF Orderly, Dispatched, Moves, WorkflowSteps, BuildSteps
    <2>4. Submitted(k)'
      BY <1>1, <1>3, <1>4, <2>1
         DEF Orderly, Submitted, Moves, CanClaimSubmission, Dispatched, WorkflowSteps
    <2>5. Stored(k)'
      BY <1>1, <1>3, <1>4, <2>1 DEF Orderly, Stored, Moves
    <2>6. k \notin excused' => Promised(k)'
      BY <1>1, <1>3, <1>4, <2>1
         DEF Orderly, Promised, Moves, InDoubt, Turn, Dispatched, WorkflowSteps
    <2> QED
      BY <2>2, <2>3, <2>4, <2>5, <2>6
  <1> QED
    BY <1>1, <1>4, <1>5, Passes

LEMMA DispatchKeeps ==
  ASSUME DInv, NEW k \in Keys, Dispatch(k)
  PROVE  DInv'
  <1>1. /\ fence = k /\ Types /\ Orderly(k) /\ caller[k].at = "dispatch" /\ Github(k)
        /\ ~Sent(k) /\ exec[k].status = "GITHUB_DISPATCHING" /\ exec[k].build = 0
    BY Holds DEF Dispatch, At, Orderly, Dispatched, WorkflowSteps
  <1>2. CASE UNCHANGED runs
    BY <1>2, DispatchWithoutRun
  <1>3. ASSUME NEW note \in {"GITHUB_ACCEPTED", "GITHUB_UNCERTAIN"},
               NEW state \in {"queued", "inflight"}, Note(k, "record", note), Run(k, state)
        PROVE  DInv'
    <2>1. /\ note \in ExecStatus \cup ItemStatus /\ "record" \in CallerSteps
          /\ "record" \in {"record", "bind", "settle"}
      BY DEF ExecStatus, CallerSteps, WorkflowSteps
    <2>2. Moves(k, "record", note)
      BY <1>1, <1>3, <2>1, CallerMoves
    <2>3. UNCHANGED <<load, fence, intent, item, exec, token, live, handler, mail, calls, excused>>
          /\ faults' \in Nat
      BY <1>1 DEF Dispatch, Accepted, Fault, Types
    <2>4. ASSUME Github(k)' = Github(k), Sent(k)', runs'[k][1].state = state
          PROVE  Dispatched(k)' /\ Submitted(k)'
      BY <1>1, <2>2, <2>3, <2>4 DEF Dispatched, Submitted, Moves, BuildSteps, WorkflowSteps
    <2> QED
      BY <1>1, <1>3, <2>1, <2>2, <2>3, <2>4, Launches
  <1> QED
    BY <1>2, <1>3 DEF Dispatch, Accepted, Refused

LEMMA PostWithoutRun ==
  ASSUME DInv, NEW k \in Keys, Post(k), UNCHANGED runs
  PROVE  DInv'
  <1>1. fence = k /\ Types /\ Orderly(k) /\ caller[k].at = "post" /\ ~Github(k) /\ ~Sent(k)
        /\ caller[k].note \in ExecStatus \cup ItemStatus
    BY Holds DEF Post, At, Orderly, Dispatched, Submitted, BuildSteps
  <1>2. /\ {"SUBMISSION_FAILED", "SUBMISSION_UNKNOWN"} \subseteq ExecStatus
        /\ "settle" \in CallerSteps
    BY DEF ExecStatus, CallerSteps, BuildSteps
  <1>3. PICK note \in {"SUBMISSION_FAILED", "SUBMISSION_UNKNOWN"} :
          Moves(k, "settle", note)
    <2>1. \A state : ~Run(k, state)
      <3>1. ASSUME NEW state, Run(k, state) PROVE FALSE
        <4>1. /\ runs' = [runs EXCEPT ![k] = Append(runs[k], NewRun(k, state))]
              /\ runs[k] \in Seq(RunRecord)
          BY <1>1, <3>1 DEF Run, Types
        <4>2. runs'[k] = Append(runs[k], NewRun(k, state))
          BY <1>1, <4>1 DEF Types
        <4> QED
          BY <4>1, <4>2
      <3> QED
        BY <3>1
    <2> QED
      BY <1>1, <1>2, <2>1, CallerMoves DEF Post
  <1>4. Turn(k) /\ TicketsExpire /\ UNCHANGED <<intent, item, exec, excused>>
    BY <1>1, <1>3, TicketsKept DEF Post, Fault, Turn, Types, Moves
  <1>5. ASSUME Grows
        PROVE  /\ Unborn(k)' /\ Dispatched(k)' /\ Submitted(k)' /\ Stored(k)'
               /\ k \notin excused' => Promised(k)'
    <2>1. /\ Github(k)' = Github(k) /\ (Sent(k)' <=> Sent(k)) /\ (Quiet(k) => Quiet(k)')
          /\ UNCHANGED runs[k] /\ (token[k] # <<>> => token'[k] # <<>>)
          /\ \A status : IsTrue(k, status) => IsTrue(k, status)'
          /\ \A status \in {"none", "queued", "failed_dispatch"} : IsTrue(k, status)'
      BY <1>1, <1>4, <1>5, Forward DEF Turn
    <2>2. Unborn(k)'
      BY <1>1, <1>3, <1>4, <2>1 DEF Orderly, Unborn, Moves
    <2>3. Dispatched(k)'
      BY <1>1, <1>3, <1>4, <2>1 DEF Orderly, Dispatched, Moves, WorkflowSteps, BuildSteps
    <2>4. Submitted(k)'
      BY <1>1, <1>3, <1>4, <2>1 DEF Orderly, Submitted, Moves, CanClaimSubmission
    <2>5. Stored(k)'
      BY <1>1, <1>3, <1>4, <2>1 DEF Orderly, Stored, Moves
    <2>6. k \notin excused' => Promised(k)'
      BY <1>1, <1>3, <1>4, <2>1 DEF Orderly, Promised, Moves, InDoubt, Turn
    <2> QED
      BY <2>2, <2>3, <2>4, <2>5, <2>6
  <1> QED
    BY <1>1, <1>4, <1>5, Passes

LEMMA PostKeeps ==
  ASSUME DInv, NEW k \in Keys, Post(k)
  PROVE  DInv'
  <1>1. /\ fence = k /\ Types /\ Orderly(k) /\ caller[k].at = "post" /\ ~Github(k)
        /\ ~Sent(k) /\ exec[k].status = "SUBMITTING" /\ exec[k].build = 0
    BY Holds DEF Post, At, Orderly, Dispatched, Submitted, BuildSteps
  <1>2. CASE UNCHANGED runs
    BY <1>2, PostWithoutRun
  <1>3. ASSUME NEW at \in {"bind", "settle"}, NEW note \in ExecStatus \cup ItemStatus,
               NEW state \in {"queued", "inflight"}, Moves(k, at, note), Run(k, state),
               at = "bind" => state = "queued",
               at = "settle" => /\ note \in {"SUBMISSION_FAILED", "SUBMISSION_UNKNOWN"}
                                /\ note = "SUBMISSION_FAILED" => state = "queued"
        PROVE  DInv'
    <2>1. UNCHANGED <<load, fence, intent, item, exec, token, live, handler, mail, calls, excused>>
          /\ faults' \in Nat
      BY <1>1 DEF Post, Fault, Types
    <2>2. ASSUME Github(k)' = Github(k), Sent(k)', runs'[k][1].state = state
          PROVE  Dispatched(k)' /\ Submitted(k)'
      BY <1>1, <1>3, <2>1, <2>2 DEF Dispatched, Submitted, Moves, BuildSteps, WorkflowSteps
    <2> QED
      BY <1>1, <1>3, <2>1, <2>2, Launches
  <1>4. /\ caller[k].note \in ExecStatus \cup ItemStatus
        /\ {"SUBMISSION_FAILED", "SUBMISSION_UNKNOWN"} \subseteq ExecStatus
        /\ {"bind", "settle"} \subseteq CallerSteps
    BY <1>1, Holds DEF ExecStatus, CallerSteps, BuildSteps
  <1>5. CASE Goto(k, "bind") /\ Run(k, "queued")
    <2>1. Moves(k, "bind", caller[k].note)
      BY <1>1, <1>4, <1>5, CallerMoves
    <2> QED
      BY <1>3, <1>4, <1>5, <2>1
  <1>6. CASE Note(k, "settle", "SUBMISSION_FAILED") /\ Run(k, "queued")
    <2>1. Moves(k, "settle", "SUBMISSION_FAILED")
      BY <1>1, <1>4, <1>6, CallerMoves
    <2> QED
      BY <1>3, <1>4, <1>6, <2>1
  <1>7. CASE /\ Note(k, "settle", "SUBMISSION_UNKNOWN")
             /\ \E state \in {"queued", "inflight"} : Run(k, state)
    <2>1. Moves(k, "settle", "SUBMISSION_UNKNOWN")
      BY <1>1, <1>4, <1>7, CallerMoves
    <2> QED
      BY <1>3, <1>4, <1>7, <2>1
  <1> QED
    BY <1>2, <1>5, <1>6, <1>7 DEF Post

----------------------------------------------------------------------------
(* A request arrives.                                                      *)

LEMMA Enters ==
  ASSUME Types, NEW k \in Keys, NEW at \in CallerSteps \ {"idle"}, NEW retry \in BOOLEAN,
         Enter(k, at, retry)
  PROVE  /\ caller' \in [Keys -> CallerRecord] /\ calls' \in [Keys -> Nat]
         /\ \A j \in Keys \ {k} : caller'[j] = caller[j]
         /\ caller'[k].at = at /\ caller'[k].retry = retry
         /\ fence = None /\ fence' = k /\ caller[k].at = "idle"
         /\ UNCHANGED <<load, item, exec, token, runs, live, handler, mail, faults>>
  <1>1. Idle \in CallerRecord
    BY DEF Idle, CallerRecord, CallerSteps, ExecStatus
  <1>2. [Idle EXCEPT !.at = at, !.retry = retry] \in CallerRecord
    BY <1>1, Zenon DEF CallerRecord
  <1>3. /\ [Idle EXCEPT !.at = at, !.retry = retry].at = at
        /\ [Idle EXCEPT !.at = at, !.retry = retry].retry = retry
    BY <1>1 DEF CallerRecord
  <1>4. caller' = [caller EXCEPT ![k] = [Idle EXCEPT !.at = at, !.retry = retry]]
    BY DEF Enter
  <1>5. /\ caller' \in [Keys -> CallerRecord] /\ \A j \in Keys \ {k} : caller'[j] = caller[j]
        /\ caller'[k].at = at /\ caller'[k].retry = retry
    BY <1>2, <1>3, <1>4 DEF Types
  <1>6. calls' \in [Keys -> Nat]
    BY DEF Enter, Types
  <1> QED
    BY <1>5, <1>6 DEF Enter, CanEnter

LEMMA EntersAlone ==
  ASSUME DInv, NEW k \in Keys, NEW at \in CallerSteps \ {"idle"}, NEW retry \in BOOLEAN,
         Enter(k, at, retry), UNCHANGED intent, excused' \in {excused, excused \cup {k}}
  PROVE  Alone(k) /\ Fenced(k)' /\ Attempts' /\ Effects' /\ Grows /\ TicketsExpire
  <1>1. Types /\ Attempts /\ Effects /\ (\A j \in Keys : Fenced(j))
    BY DEF DInv, Orderly
  <1>2. /\ caller' \in [Keys -> CallerRecord] /\ calls' \in [Keys -> Nat]
        /\ \A j \in Keys \ {k} : caller'[j] = caller[j]
        /\ caller'[k].at = at
        /\ fence = None /\ fence' = k /\ caller[k].at = "idle"
        /\ UNCHANGED <<load, item, exec, token, runs, live, handler, mail, faults>>
    BY <1>1, Enters
  <1>3. None \notin Keys
    BY NoneAssumption
  <1>4. Alone(k)
    BY <1>1, <1>2, <1>3 DEF Alone, Types, Fenced
  <1>5. Fenced(k)'
    BY <1>2 DEF Fenced
  <1>6. TicketsExpire
    BY <1>1, <1>2, TicketsKept
  <1> QED
    BY <1>1, <1>2, <1>4, <1>5, <1>6, StillRuns

LEMMA StartKeeps ==
  ASSUME DInv, NEW k \in Keys, Start(k)
  PROVE  DInv'
  <1>1. /\ "intend" \in CallerSteps \ {"idle"} /\ Enter(k, "intend", FALSE)
        /\ UNCHANGED <<intent, excused>>
    BY DEF Start, CallerSteps
  <1>2. Alone(k) /\ Fenced(k)' /\ Attempts' /\ Effects' /\ Grows /\ TicketsExpire
    BY <1>1, EntersAlone
  <1>3. Types /\ Orderly(k) /\ k \notin intent /\ item[k] = "none" /\ ~ActiveDeployment
    BY DEF DInv, Start, Unseen
  <1>4. /\ caller'[k].at = "intend" /\ ~caller'[k].retry /\ fence = None /\ fence' = k
        /\ UNCHANGED <<load, item, exec, token, runs, live, handler, mail>>
    BY <1>1, <1>3, Enters
  <1>5. /\ Github(k)' = Github(k) /\ (Sent(k)' <=> Sent(k)) /\ (Quiet(k) => Quiet(k)')
        /\ UNCHANGED runs[k]
        /\ \A status \in {"none", "queued", "failed_dispatch"} : IsTrue(k, status)'
    BY <1>2, <1>3, <1>4, Forward
  <1>6. Unborn(k)'
    BY <1>1, <1>3, <1>4, <1>5 DEF Orderly, Unborn
  <1>7. Dispatched(k)'
    BY <1>3, <1>4, <1>5 DEF Orderly, Dispatched, WorkflowSteps, BuildSteps
  <1>8. Submitted(k)'
    BY <1>3, <1>4, <1>5 DEF Orderly, Submitted
  <1>9. Stored(k)'
    BY <1>3, <1>4, <1>5 DEF Stored
  <1>10. k \notin excused' => Promised(k)'
    BY <1>1, <1>3, <1>4, <1>5 DEF Orderly, Promised, Verdicts, InDoubt
  <1>11. Orderly(k)'
    BY <1>2, <1>6, <1>7, <1>8, <1>9, <1>10 DEF Orderly
  <1>12. \A j \in Keys \ excused : Quiet(j)'
    <2>1. \A j \in Keys \ excused : Quiet(j)
      BY <1>3, <1>4, OpenIsQuiet
    <2> QED
      BY <1>2, <1>3, <1>4, <2>1, Forward
  <1>13. Exclusive'
    BY <1>1, <1>4, <1>12 DEF Exclusive, Engaged
  <1> QED
    BY <1>2, <1>11, <1>13, Follows

LEMMA RetryFailedDispatchKeeps ==
  ASSUME DInv, NEW k \in Keys, RetryFailedDispatch(k)
  PROVE  DInv'
  <1>1. PICK at \in {"reclaim", "submit"} :
          Enter(k, at, TRUE) /\ at = (IF Github(k) THEN "reclaim" ELSE "submit")
    BY DEF RetryFailedDispatch
  <1>2. /\ at \in CallerSteps \ {"idle"} /\ UNCHANGED intent /\ excused' = excused \cup {k}
    BY DEF RetryFailedDispatch, CallerSteps, WorkflowSteps, BuildSteps
  <1>3. Alone(k) /\ Fenced(k)' /\ Attempts' /\ Effects' /\ Grows /\ TicketsExpire
    BY <1>1, <1>2, EntersAlone
  <1>4. Types /\ Orderly(k) /\ item[k] = "failed_dispatch"
    BY DEF DInv, RetryFailedDispatch, CanRetry
  <1>5. /\ caller'[k].at = at /\ fence = None /\ fence' = k /\ caller[k].at = "idle"
        /\ UNCHANGED <<load, item, exec, token, runs, live, handler, mail>>
    BY <1>1, <1>2, <1>4, Enters
  <1>6. /\ Github(k)' = Github(k) /\ (Sent(k)' <=> Sent(k)) /\ UNCHANGED runs[k]
        /\ \A status \in {"none", "queued", "failed_dispatch"} : IsTrue(k, status)'
    BY <1>3, <1>4, <1>5, Forward
  <1>7. Unborn(k)'
    BY <1>1, <1>2, <1>4, <1>5, <1>6 DEF Orderly, Unborn
  <1>8. Dispatched(k)'
    BY <1>1, <1>4, <1>5, <1>6 DEF Orderly, Dispatched, WorkflowSteps, BuildSteps
  <1>9. Submitted(k)'
    BY <1>1, <1>4, <1>5, <1>6 DEF Orderly, Submitted
  <1>10. Stored(k)'
    BY <1>1, <1>4, <1>5, <1>6 DEF Stored
  <1>11. Orderly(k)'
    BY <1>2, <1>3, <1>7, <1>8, <1>9, <1>10 DEF Orderly
  <1>12. Exclusive'
    <2>1. \A j \in Keys : Quiet(j) => Quiet(j)'
      BY <1>3, <1>4, <1>5, Forward
    <2>2. \A j \in Keys \ excused' : Engaged(j)' => j \in Keys \ excused /\ Engaged(j)
      BY <1>2, <1>5, <2>1 DEF Engaged
    <2> QED
      BY <2>2 DEF DInv, Exclusive
  <1> QED
    BY <1>3, <1>11, <1>12, Follows

----------------------------------------------------------------------------
(* What readers observe.                                                   *)

\* A workflow whose last attempt has begun or ended is settled.
LEMMA LastSettles ==
  ASSUME Types, Attempts, NEW k \in Keys, Sent(k),
         runs[k][Len(runs[k])].state \in Busy \cup Ended
  PROVE  Settled(k) /\ Len(runs[k]) \in DOMAIN runs[k]
  <1>1. Len(runs[k]) \in Nat /\ Len(runs[k]) > 0 /\ DOMAIN runs[k] = 1..Len(runs[k])
    BY Positions
  <1>2. \A i \in DOMAIN runs[k] : i # Len(runs[k]) => runs[k][i].state \in Ended
    BY DEF Attempts
  <1> QED
    BY <1>1, <1>2 DEF Settled

\* What a reader computes from the provider is true.
LEMMA ObservedIsTrue ==
  ASSUME DInv, NEW k \in Keys, NEW status \in Observed(k)
  PROVE  /\ Sent(k) /\ IsTrue(k, status) /\ status \in ItemStatus \ {"none", "failed_dispatch"}
  <1>1. Types /\ Attempts /\ Effects /\ Submitted(k)
    BY DEF DInv, Orderly
  <1>2. load.ask[k].kind \in {"deploy", "rollback"}
    BY <1>1 DEF Types, Workload, Request
  <1>3. Done(k) = "succeeded" \/ (Done(k) = "rolled_back" /\ load.ask[k].kind = "rollback")
    BY DEF Done
  <1>4. CASE Github(k)
    <2> DEFINE last == Len(runs[k])
               state == runs[k][last].state
    <2>1. /\ Sent(k)
          /\ \/ state \in {"working", "restoring"} /\ status = "active"
             \/ state \in {"failing", "failed", "void"} /\ status = "failed"
             \/ state = "restored" /\ status = "rolled_back"
             \/ state = "succeeded" /\ status = Done(k)
      BY <1>4 DEF Observed, OfJobs, Sent
    <2>2. Settled(k) /\ last \in DOMAIN runs[k]
      <3>1. state \in Busy \cup Ended
        BY <2>1 DEF Busy, Ended
      <3> QED
        BY <1>1, <2>1, <3>1, LastSettles
    <2>3. /\ state = "succeeded" => Moved(k)
          /\ state = "restored" => load.ask[k].kind = "deploy"
      BY <1>1, <2>2 DEF Effects, Moved
    <2> HIDE DEF state, last
    <2>4. status = Done(k) => Moved(k)
      BY <1>3, <2>1, <2>3 DEF Done
    <2>5. status \in ItemStatus \ {"none", "failed_dispatch"}
      BY <1>3, <2>1 DEF ItemStatus, Terminal
    <2> QED
      BY <2>1, <2>2, <2>4, <2>5 DEF IsTrue
  <1>5. CASE ~Github(k)
    <2>1. exec[k].build = 1 /\ Sent(k) /\ runs[k][1].state # "inflight"
      BY <1>1, <1>5 DEF Submitted, Observed
    <2>2. DOMAIN runs[k] = {1} /\ runs[k][1].state \in RunState
      BY <1>1, <1>5, <2>1, OneBuild, Positions DEF RunRecord
    <2>3. CASE runs[k][1].state = "queued"
      <3>1. status = "queued"
        BY <1>5, <2>1, <2>3 DEF Observed, Busy, Ended
      <3> QED
        BY <1>3, <2>1, <3>1 DEF IsTrue, Told, Verdicts, ItemStatus
    <2>4. CASE runs[k][1].state \in Busy
      <3>1. status = "active"
        BY <1>5, <2>1, <2>4 DEF Observed, Busy, Ended
      <3> QED
        BY <1>3, <2>1, <3>1 DEF IsTrue, Told, Verdicts, ItemStatus
    <2>5. CASE runs[k][1].state \in Ended
      <3>1. \/ status = Done(k) /\ live = k
            \/ status \in {"failed", "unknown"}
        BY <1>5, <2>1, <2>5 DEF Observed, OfJob, OfTraffic, Healthy, Busy, Ended
      <3>2. Settled(k)
        BY <2>2, <2>5 DEF Settled
      <3>3. live = k => Moved(k)
        BY <1>1, NoneAssumption DEF Effects
      <3> QED
        BY <1>3, <2>1, <3>1, <3>2, <3>3 DEF IsTrue, ItemStatus, Terminal
    <2> QED
      BY <2>1, <2>2, <2>3, <2>4, <2>5 DEF RunState
  <1> QED
    BY <1>4, <1>5

----------------------------------------------------------------------------
(* The handlers.                                                           *)

\* A handler that reads: it holds what is true of a command that was sent, and
\* the failed dispatch of a command only with that command in doubt.
LEMMA ReaderKeeps ==
  ASSUME DInv, HandlerUnchanged, UNCHANGED <<item, exec, excused>>, mail' \subseteq mail,
         handler' \in [Handlers -> HandlerRecord], NEW h \in Handlers,
         \A g \in Handlers \ {h} : handler'[g] = handler[g],
         handler'[h].at # "idle" =>
           LET k == handler'[h].key IN
           /\ k \in Keys /\ handler'[h].status # "none"
           /\ Sent(k) /\ IsTrue(k, handler'[h].status)
           /\ k \notin excused /\ handler'[h].status = "failed_dispatch" => InDoubt(k)
  PROVE  DInv'
  <1> USE DEF HandlerUnchanged
  <1>1. Types /\ Attempts /\ Effects
    BY DEF DInv
  <1>2. TicketsExpire
    BY <1>1, TicketsKept
  <1>3. Attempts' /\ Effects' /\ Grows
    BY <1>1, <1>2, StillRuns
  <1>4. Types'
    BY <1>1 DEF Types
  <1>5. \A k \in Keys : /\ Github(k)' = Github(k) /\ (Sent(k)' <=> Sent(k))
                        /\ (Quiet(k) => Quiet(k)')
                        /\ \A status : IsTrue(k, status) => IsTrue(k, status)'
    BY <1>1, <1>2, <1>3, Forward
  <1>6. ASSUME NEW k \in Keys PROVE Orderly(k)'
    <2>1. Orderly(k)
      BY DEF DInv
    <2>2. Fenced(k)'
      BY <2>1 DEF Orderly, Fenced
    <2>3. k \notin excused' => \A g \in Handlers :
            (handler[g].at # "idle" /\ handler[g].key = k /\ handler[g].status = "failed_dispatch")'
              => InDoubt(k)
      BY <2>1 DEF Orderly, Promised
    <2> QED
      BY <1>1, <1>2, <1>3, <1>5, <2>1, <2>2, <2>3, OrderStays
  <1>7. Reports'
    <2>1. \A e \in mail : e.key \in Keys
      BY <1>1 DEF Types, Event
    <2>2. \A e \in mail' : PostedTruth(e)'
      BY <1>5, <2>1 DEF DInv, Reports, PostedTruth
    <2>3. ASSUME NEW g \in Handlers PROVE HeldTruth(g)'
      <3>1. CASE g = h
        BY <1>5, <3>1 DEF HeldTruth
      <3>2. CASE g # h
        BY <1>5, <3>2 DEF DInv, Reports, HeldTruth
      <3> QED
        BY <3>1, <3>2
    <2> QED
      BY <2>2, <2>3 DEF Reports
  <1>8. Exclusive'
    BY <1>5 DEF DInv, Exclusive, Engaged
  <1> QED
    BY <1>3, <1>4, <1>6, <1>7, <1>8 DEF DInv

LEMMA HoldsTyped ==
  ASSUME Types, NEW h \in Handlers, NEW at \in {"idle", "accept", "write"},
         NEW k \in Keys \cup {None}, NEW seq \in 0..4, NEW status \in ItemStatus,
         handler' = [handler EXCEPT ![h] = [at |-> at, key |-> k, seq |-> seq, status |-> status]]
  PROVE  /\ handler' \in [Handlers -> HandlerRecord]
         /\ \A g \in Handlers \ {h} : handler'[g] = handler[g]
         /\ handler'[h].at = at /\ handler'[h].key = k /\ handler'[h].seq = seq
         /\ handler'[h].status = status
  <1>1. [at |-> at, key |-> k, seq |-> seq, status |-> status] \in HandlerRecord
    BY DEF HandlerRecord
  <1> QED
    BY <1>1 DEF Types

LEMMA WriterTyped ==
  ASSUME Types, NEW h \in Handlers, NEW k \in Keys, NEW status \in ItemStatus,
         handler' = [handler EXCEPT ![h] = [at |-> "write", key |-> k, seq |-> 0,
                                            status |-> status]]
  PROVE  /\ handler' \in [Handlers -> HandlerRecord]
         /\ \A g \in Handlers \ {h} : handler'[g] = handler[g]
         /\ handler'[h].key = k /\ handler'[h].status = status
  <1>1. "write" \in {"idle", "accept", "write"} /\ 0 \in 0..4 /\ k \in Keys \cup {None}
    OBVIOUS
  <1> QED
    BY <1>1, HoldsTyped

LEMMA ReceiveEventKeeps ==
  ASSUME DInv, NEW h \in Handlers, NEW e \in mail, ReceiveEvent(h, e)
  PROVE  DInv'
  <1>1. /\ Types /\ HandlerUnchanged
        /\ UNCHANGED <<item, exec, excused>> /\ mail' \subseteq mail
        /\ handler[h].at = "idle"
    BY DEF DInv, ReceiveEvent
  <1>2. /\ e.key \in Keys /\ e.seq \in 0..4 /\ e.verdict \in ItemStatus
        /\ e.verdict \notin {"none", "failed_dispatch"}
    BY <1>1 DEF Types, Event, Told, Verdicts, ItemStatus, Terminal
  <1>3. Sent(e.key) /\ IsTrue(e.key, e.verdict)
    BY DEF DInv, Reports, PostedTruth
  <1>4. CASE handler' = [handler EXCEPT ![h] = [at |-> "accept", key |-> e.key, seq |-> e.seq,
                                                status |-> e.verdict]]
    <2>1. [at |-> "accept", key |-> e.key, seq |-> e.seq, status |-> e.verdict] \in HandlerRecord
      BY <1>2 DEF HandlerRecord
    <2>2. /\ handler' \in [Handlers -> HandlerRecord]
          /\ \A g \in Handlers \ {h} : handler'[g] = handler[g]
          /\ handler'[h].key = e.key /\ handler'[h].status = e.verdict
      BY <1>1, <1>4, <2>1 DEF Types
    <2> QED
      BY <1>1, <1>2, <1>3, <2>2, ReaderKeeps
  <1>5. CASE UNCHANGED handler
    BY <1>1, <1>5, ReaderKeeps DEF Types
  <1> QED
    BY <1>4, <1>5 DEF ReceiveEvent

LEMMA RefreshKeeps ==
  ASSUME DInv, NEW h \in Handlers, NEW k \in Keys, NEW status \in ItemStatus,
         Refresh(h, k, status)
  PROVE  DInv'
  <1>1. Types /\ HandlerUnchanged /\ UNCHANGED <<item, exec, excused>> /\ mail' \subseteq mail
    BY DEF DInv, Refresh
  <1>2. /\ handler' \in [Handlers -> HandlerRecord]
        /\ \A g \in Handlers \ {h} : handler'[g] = handler[g]
        /\ handler'[h].key = k /\ handler'[h].status = status
    BY <1>1, WriterTyped DEF Refresh
  <1>3. Sent(k) /\ IsTrue(k, status) /\ status \notin {"none", "failed_dispatch"}
    BY ObservedIsTrue DEF Refresh
  <1> QED
    BY <1>1, <1>2, <1>3, ReaderKeeps

LEMMA WorkflowRunEndedKeeps ==
  ASSUME DInv, NEW h \in Handlers, NEW k \in Keys, WorkflowRunEnded(h, k)
  PROVE  DInv'
  <1>1. /\ Types /\ Attempts /\ Orderly(k)
        /\ HandlerUnchanged /\ UNCHANGED <<item, exec, excused>> /\ mail' \subseteq mail
        /\ item[k] # "none" /\ item[k] \in ItemStatus
    BY DEF DInv, WorkflowRunEnded, Types
  <1>2. Sent(k)
    BY <1>1, Positions DEF WorkflowRunEnded, RunsIn
  <1>3. PICK status : /\ \/ status = item[k]
                         \/ status = "failed" /\ RunsIn(k, {"void"}) # {}
                      /\ handler' = [handler EXCEPT ![h] = [at |-> "write", key |-> k, seq |-> 0,
                                                            status |-> status]]
    BY DEF WorkflowRunEnded
  <1>4. status \in ItemStatus \ {"none"}
    BY <1>1, <1>3 DEF ItemStatus, Terminal
  <1>5. /\ handler' \in [Handlers -> HandlerRecord]
        /\ \A g \in Handlers \ {h} : handler'[g] = handler[g]
        /\ handler'[h].key = k /\ handler'[h].status = status
    BY <1>1, <1>3, <1>4, WriterTyped
  <1>6. IsTrue(k, status)
    <2>1. CASE status = item[k]
      BY <1>1, <2>1 DEF Orderly, Stored
    <2>2. CASE status = "failed" /\ RunsIn(k, {"void"}) # {}
      <3>1. PICK i \in DOMAIN runs[k] : runs[k][i].state = "void"
        BY <2>2 DEF RunsIn
      <3>2. i = Len(runs[k])
        BY <1>1, <3>1 DEF Attempts
      <3>3. runs[k][Len(runs[k])].state \in Busy \cup Ended
        BY <3>1, <3>2 DEF Ended
      <3>4. Settled(k)
        BY <1>1, <1>2, <3>3, LastSettles
      <3> QED
        BY <1>2, <2>2, <3>4 DEF IsTrue, Done
    <2> QED
      BY <1>3, <2>1, <2>2
  <1>7. k \notin excused /\ status = "failed_dispatch" => InDoubt(k)
    BY <1>1, <1>3 DEF Orderly, Promised
  <1> QED
    BY <1>1, <1>2, <1>4, <1>5, <1>6, <1>7, ReaderKeeps

LEMMA AcceptEventKeeps ==
  ASSUME DInv, NEW h \in Handlers, AcceptEvent(h)
  PROVE  DInv'
  <1> DEFINE k == handler[h].key
  <1>1. /\ Types /\ HandlerUnchanged /\ UNCHANGED <<item, mail, excused>>
        /\ handler[h].at = "accept" /\ handler[h] \in HandlerRecord
        /\ k \in Keys /\ handler[h].status # "none" /\ Sent(k) /\ IsTrue(k, handler[h].status)
        /\ Orderly(k)
    BY DEF DInv, AcceptEvent, Types, Reports, HeldTruth
  <1>2. CASE IsNewer(k, handler[h].seq)
    <2>1. /\ exec' = [exec EXCEPT ![k].seq = handler[h].seq]
          /\ handler' = [handler EXCEPT ![h].at = "write"]
      BY <1>2 DEF AcceptEvent
    <2>2. [handler[h] EXCEPT !.at = "write"] \in HandlerRecord
      BY <1>1, Zenon DEF HandlerRecord
    <2>3. /\ handler' \in [Handlers -> HandlerRecord]
          /\ \A g \in Handlers \ {h} : handler'[g] = handler[g]
          /\ handler'[h].key = k /\ handler'[h].status = handler[h].status
      BY <1>1, <2>1, <2>2 DEF Types, HandlerRecord
    <2>4. exec[k] \in ExecRecord /\ handler[h].seq \in 0..4
      BY <1>1 DEF Types, HandlerRecord
    <2>5. [exec[k] EXCEPT !.seq = handler[h].seq] \in ExecRecord
      BY <2>4, Zenon DEF ExecRecord
    <2>6. /\ exec' \in [Keys -> ExecRecord]
          /\ \A j \in Keys \ {k} : exec'[j] = exec[j]
          /\ \A j \in Keys : exec'[j].status = exec[j].status /\ exec'[j].build = exec[j].build
      BY <1>1, <2>1, <2>4, <2>5 DEF Types, ExecRecord
    <2> HIDE DEF k
    <2>7. Attempts' /\ Effects' /\ Grows /\ TicketsExpire
      <3>1. Attempts /\ Effects /\ TicketsExpire
        BY <1>1, TicketsKept DEF DInv, HandlerUnchanged
      <3> QED
        BY <1>1, <3>1, StillRuns DEF HandlerUnchanged
    <2>8. Types'
      BY <1>1, <2>3, <2>6 DEF Types, HandlerUnchanged
    <2>9. \A j \in Keys : /\ Github(j)' = Github(j) /\ (Sent(j)' <=> Sent(j))
                          /\ (Quiet(j) => Quiet(j)') /\ UNCHANGED runs[j]
                          /\ \A status : IsTrue(j, status) => IsTrue(j, status)'
      BY <1>1, <2>7, Forward DEF HandlerUnchanged
    <2>10. ASSUME NEW j \in Keys PROVE Orderly(j)'
      <3>1. Orderly(j)
        BY DEF DInv
      <3>2. Fenced(j)'
        BY <1>1, <3>1 DEF Orderly, Fenced, HandlerUnchanged
      <3>3. Unborn(j)'
        BY <1>1, <2>6, <2>9, <3>1 DEF Orderly, Unborn, HandlerUnchanged
      <3>4. Dispatched(j)'
        BY <1>1, <2>6, <2>9, <3>1 DEF Orderly, Dispatched, HandlerUnchanged
      <3>5. Submitted(j)'
        BY <1>1, <2>6, <2>9, <3>1 DEF Orderly, Submitted, HandlerUnchanged, CanClaimSubmission
      <3>6. Stored(j)'
        BY <1>1, <2>9, <3>1 DEF Orderly, Stored, HandlerUnchanged
      <3>7. ASSUME j \notin excused' PROVE Promised(j)'
        <4>1. Promised(j) /\ UNCHANGED <<item, caller>>
          BY <1>1, <3>1, <3>7 DEF Orderly, HandlerUnchanged
        <4>2. InDoubt(j)' <=> InDoubt(j)
          BY <2>6, <2>9 DEF InDoubt
        <4>3. \A g \in Handlers :
                 /\ handler'[g].at # "idle" => handler[g].at # "idle"
                 /\ handler'[g].key = handler[g].key /\ handler'[g].status = handler[g].status
          BY <1>1, <2>3 DEF k
        <4> QED
          BY <2>9, <4>1, <4>2, <4>3 DEF Promised
      <3> QED
        BY <3>2, <3>3, <3>4, <3>5, <3>6, <3>7 DEF Orderly
    <2>11. Reports'
      <3>1. \A e \in mail : e.key \in Keys
        BY <1>1 DEF Types, Event
      <3>2. \A e \in mail' : PostedTruth(e)'
        BY <1>1, <2>9, <3>1 DEF DInv, Reports, PostedTruth
      <3>3. ASSUME NEW g \in Handlers PROVE HeldTruth(g)'
        <4>1. CASE g = h
          BY <1>1, <2>3, <2>9, <4>1 DEF HeldTruth
        <4>2. CASE g # h
          BY <2>3, <2>9, <4>2 DEF DInv, Reports, HeldTruth
        <4> QED
          BY <4>1, <4>2
      <3> QED
        BY <3>2, <3>3 DEF Reports
    <2>12. Exclusive'
      BY <1>1, <2>9 DEF DInv, Exclusive, Engaged, HandlerUnchanged
    <2> QED
      BY <2>7, <2>8, <2>10, <2>11, <2>12 DEF DInv
  <1>3. CASE ~IsNewer(k, handler[h].seq)
    <2>1. handler' = [handler EXCEPT ![h] = Free] /\ UNCHANGED exec
      BY <1>3 DEF AcceptEvent
    <2>2. Free \in HandlerRecord /\ Free.at = "idle"
      BY DEF Free, HandlerRecord, ItemStatus
    <2>3. /\ handler' \in [Handlers -> HandlerRecord] /\ handler'[h].at = "idle"
          /\ \A g \in Handlers \ {h} : handler'[g] = handler[g]
      BY <1>1, <2>1, <2>2 DEF Types
    <2> QED
      BY <1>1, <2>1, <2>3, ReaderKeeps
  <1> QED
    BY <1>2, <1>3

LEMMA WriteItemKeeps ==
  ASSUME DInv, NEW h \in Handlers, WriteItem(h)
  PROVE  DInv'
  <1>. PICK k : k = handler[h].key
    OBVIOUS
  <1>. PICK status : status = handler[h].status
    OBVIOUS
  <1>1. /\ Types /\ Attempts /\ Effects /\ HandlerUnchanged /\ UNCHANGED <<exec, mail>>
        /\ handler[h].at = "write" /\ handler[h] \in HandlerRecord
        /\ k \in Keys /\ status # "none" /\ Sent(k) /\ IsTrue(k, status)
        /\ item' = [item EXCEPT ![k] = status] /\ handler' = [handler EXCEPT ![h] = Free]
        /\ excused' = IF status \in Terminal /\ IsBusy(k) THEN excused \cup {k} ELSE excused
    BY DEF DInv, WriteItem, Types, Reports, HeldTruth
  <1>2. TicketsExpire
    BY <1>1, TicketsKept DEF HandlerUnchanged
  <1>3. Attempts' /\ Effects' /\ Grows
    BY <1>1, <1>2, StillRuns DEF HandlerUnchanged
  <1>4. \A j \in Keys : /\ Github(j)' = Github(j) /\ (Sent(j)' <=> Sent(j))
                        /\ (Quiet(j) => Quiet(j)') /\ UNCHANGED runs[j]
                        /\ \A s : IsTrue(j, s) => IsTrue(j, s)'
    BY <1>1, <1>2, <1>3, Forward DEF HandlerUnchanged
  <1>5. /\ Free \in HandlerRecord /\ Free.at = "idle" /\ status \in ItemStatus
    BY <1>1 DEF Free, HandlerRecord, ItemStatus
  <1>6. /\ handler' \in [Handlers -> HandlerRecord] /\ handler'[h].at = "idle"
        /\ \A g \in Handlers \ {h} : handler'[g] = handler[g]
    BY <1>1, <1>5 DEF Types
  <1>7. /\ item' \in [Keys -> ItemStatus] /\ item'[k] = status
        /\ \A j \in Keys \ {k} : item'[j] = item[j]
    BY <1>1, <1>5 DEF Types
  <1>8. Types'
    BY <1>1, <1>6, <1>7 DEF Types, HandlerUnchanged
  <1>9. k \notin excused' /\ status \in Verdicts => Quiet(k)'
    <2>1. status \in Verdicts => status \in Terminal /\ Settled(k)
      BY <1>1 DEF Verdicts, Terminal, IsTrue
    <2>2. Settled(k) /\ ~IsBusy(k) => Quiet(k)
      BY DEF Settled, IsBusy, RunsIn, Quiet
    <2> QED
      BY <1>1, <1>4, <2>1, <2>2
  <1>10. ASSUME NEW j \in Keys PROVE Orderly(j)'
    <2>1. Orderly(j) /\ (j \notin excused' => j \notin excused)
      BY <1>1 DEF DInv
    <2>2. \A g \in Handlers : handler'[g].at # "idle" => handler'[g] = handler[g]
      BY <1>6
    <2>3. CASE j # k
      <3>1. Fenced(j)' /\ UNCHANGED <<load, caller[j], exec[j], item[j]>>
            /\ (j \in intent' <=> j \in intent)
        BY <1>1, <1>7, <2>1, <2>3 DEF Orderly, Fenced, HandlerUnchanged
      <3>2. j \notin excused' => \A g \in Handlers :
              (handler[g].at # "idle" /\ handler[g].key = j /\ handler[g].status = "failed_dispatch")'
                => InDoubt(j)
        BY <2>1, <2>2 DEF Orderly, Promised
      <3> QED
        BY <1>1, <1>2, <1>3, <1>4, <2>1, <3>1, <3>2, OrderStays
    <2>4. CASE j = k
      <3>1. item[k] # "none" /\ k \notin intent /\ Orderly(k)
        BY <1>1, <2>1, <2>4 DEF Orderly, Unborn
      <3>2. Fenced(k)'
        BY <1>1, <3>1 DEF Orderly, Fenced, HandlerUnchanged
      <3>3. Unborn(k)'
        BY <1>1, <1>4, <1>7, <3>1 DEF Orderly, Unborn, HandlerUnchanged
      <3>4. Dispatched(k)'
        BY <1>1, <1>4, <3>1 DEF Orderly, Dispatched, HandlerUnchanged
      <3>5. Submitted(k)'
        BY <1>1, <1>4, <3>1 DEF Orderly, Submitted, HandlerUnchanged, CanClaimSubmission
      <3>6. Stored(k)'
        BY <1>1, <1>4, <1>7, <3>1 DEF Orderly, Stored, HandlerUnchanged
      <3>7. k \notin excused /\ status = "failed_dispatch" => InDoubt(k)
        BY <1>1, <3>1 DEF Orderly, Promised
      <3>8. k \notin excused' => Promised(k)'
        <4>1. ASSUME k \notin excused' PROVE Promised(k)'
          <5>1. Promised(k)
            BY <2>1, <2>4, <4>1 DEF Orderly
          <5>2. InDoubt(k)' <=> InDoubt(k)
            BY <1>1, <1>4 DEF InDoubt
          <5>3. k \notin excused
            BY <2>1, <2>4, <4>1
          <5> HIDE DEF InDoubt
          <5> QED
            BY <1>1, <1>4, <1>7, <1>9, <2>2, <3>7, <4>1, <5>1, <5>2, <5>3
               DEF Promised, HandlerUnchanged
        <4> QED
          BY <4>1
      <3> QED
        BY <2>4, <3>2, <3>3, <3>4, <3>5, <3>6, <3>8 DEF Orderly
    <2> QED
      BY <2>3, <2>4
  <1>11. Reports'
    <2>1. \A e \in mail : e.key \in Keys
      BY <1>1 DEF Types, Event
    <2>2. \A e \in mail' : PostedTruth(e)'
      BY <1>1, <1>4, <2>1 DEF DInv, Reports, PostedTruth
    <2>3. \A g \in Handlers : HeldTruth(g)'
      BY <1>4, <1>6 DEF DInv, Reports, HeldTruth
    <2> QED
      BY <2>2, <2>3 DEF Reports
  <1>12. Exclusive'
    <2>1. excused \subseteq excused' /\ UNCHANGED fence
      BY <1>1 DEF HandlerUnchanged
    <2> QED
      BY <1>4, <2>1 DEF DInv, Exclusive, Engaged
  <1> QED
    BY <1>3, <1>8, <1>10, <1>11, <1>12 DEF DInv

\* An intent means that nothing was sent yet, so that there is nothing for it to
\* adopt: all the sweep does is drop the deployment.
LEMMA SweepIntentKeeps ==
  ASSUME DInv, NEW k \in Keys, SweepIntent(k)
  PROVE  DInv'
  <1>1. /\ Types /\ Attempts /\ Effects /\ Orderly(k) /\ k \in intent /\ item[k] # "none"
        /\ caller[k].at \in {"idle", "dead"} /\ ~Sent(k) /\ exec[k] = NoExec
        /\ UNCHANGED <<load, fence, token, runs, live, caller, handler, mail, calls, faults>>
    BY DEF DInv, SweepIntent, Orderly, Unborn
  <1>2. ~(Github(k) /\ Observed(k) # {})
    BY <1>1 DEF Observed, OfJobs, Sent
  <1>3. item' = [item EXCEPT ![k] = "none"] /\ UNCHANGED <<intent, exec, excused>>
    BY <1>2 DEF SweepIntent
  <1>4. TicketsExpire
    BY <1>1, TicketsKept
  <1>5. Attempts' /\ Effects' /\ Grows
    BY <1>1, <1>4, StillRuns
  <1>6. /\ item' \in [Keys -> ItemStatus] /\ item'[k] = "none"
        /\ \A j \in Keys \ {k} : item'[j] = item[j]
    BY <1>1, <1>3 DEF Types, ItemStatus
  <1>7. Alone(k) /\ Fenced(k)'
    BY <1>1, <1>3, <1>6 DEF DInv, Orderly, Alone, Types, Fenced
  <1>8. /\ Github(k)' = Github(k) /\ (Sent(k)' <=> Sent(k)) /\ (Quiet(k) => Quiet(k)')
        /\ \A status \in {"none", "queued", "failed_dispatch"} : IsTrue(k, status)'
    BY <1>1, <1>4, <1>5, Forward
  <1>9. Unborn(k)'
    BY <1>1, <1>3, <1>6, <1>8 DEF Unborn
  <1>10. Dispatched(k)' /\ Submitted(k)'
    BY <1>1, <1>3, <1>8 DEF Orderly, Dispatched, Submitted, WorkflowSteps, BuildSteps
  <1>11. Stored(k)'
    BY <1>1, <1>6, <1>8 DEF Stored
  <1>12. k \notin excused' => Promised(k)'
    BY <1>1, <1>3, <1>6, <1>8 DEF Orderly, Promised, Verdicts, InDoubt
  <1>13. Orderly(k)'
    BY <1>7, <1>9, <1>10, <1>11, <1>12 DEF Orderly
  <1>14. Exclusive'
    <2>1. \A j \in Keys : Quiet(j) => Quiet(j)'
      BY <1>1, <1>4, <1>5, Forward
    <2> QED
      BY <1>1, <1>3, <2>1 DEF DInv, Exclusive, Engaged
  <1> QED
    BY <1>4, <1>5, <1>7, <1>13, <1>14, Follows

----------------------------------------------------------------------------
(* The invariant.                                                          *)

LEMMA InitDInv == Init => DInv
  <1> SUFFICES ASSUME Init PROVE DInv
    OBVIOUS
  <1>1. /\ NoExec \in ExecRecord /\ Idle \in CallerRecord /\ Free \in HandlerRecord
        /\ Idle.at = "idle" /\ ~Idle.retry /\ Free.at = "idle"
    BY DEF NoExec, ExecRecord, ExecStatus, Idle, CallerRecord, CallerSteps, Free, HandlerRecord,
           ItemStatus
  <1>2. Types
    BY <1>1, WorkloadsAssumption DEF Init, Types, ItemStatus
  <1>3. \A k \in Keys : runs[k] = <<>> /\ DOMAIN runs[k] = {} /\ Len(runs[k]) = 0
    BY DEF Init
  <1>4. \A k \in Keys : ~Sent(k) /\ Quiet(k)
    BY <1>3 DEF Sent, Quiet
  <1>5. Attempts /\ Effects
    BY <1>3 DEF Init, Attempts, Effects
  <1>6. ASSUME NEW k \in Keys PROVE Orderly(k)
    <2>1. /\ item[k] = "none" /\ exec[k] = NoExec /\ caller[k] = Idle /\ k \notin intent
          /\ fence = None /\ fence # k /\ \A h \in Handlers : handler[h].at = "idle"
      BY <1>1, NoneAssumption DEF Init
    <2>2. Fenced(k) /\ Unborn(k)
      BY <1>1, <1>4, <2>1 DEF Fenced, Unborn
    <2>3. Dispatched(k)
      BY <1>1, <1>4, <2>1 DEF Dispatched, NoExec, WorkflowSteps, BuildSteps
    <2>4. Submitted(k)
      BY <1>1, <1>4, <2>1 DEF Submitted, NoExec
    <2>5. Stored(k)
      BY <1>1, <2>1 DEF Stored, IsTrue, Told, Verdicts, Done
    <2>6. Promised(k)
      BY <1>1, <1>4, <2>1 DEF Promised, Verdicts
    <2> QED
      BY <2>2, <2>3, <2>4, <2>5, <2>6 DEF Orderly
  <1>7. Reports
    BY <1>1 DEF Init, Reports, HeldTruth
  <1>8. Exclusive
    BY <1>4, NoneAssumption DEF Init, Exclusive, Engaged
  <1> QED
    BY <1>2, <1>5, <1>6, <1>7, <1>8 DEF DInv

LEMMA CommandKeeps ==
  ASSUME DInv, NEW k \in Keys, Command(k)
  PROVE  DInv'
  BY StartKeeps, RetryFailedDispatchKeeps, SaveIntentKeeps, CreateDeploymentKeeps,
     CreateManagedDeploymentKeeps, DropIntentKeeps, ReserveKeeps, ClaimDispatchKeeps,
     ReclaimDispatchKeeps, RetryLookupKeeps, DispatchKeeps, RecordDispatchKeeps,
     RevokeAuthorizationKeeps, SubmitKeeps, ClaimSubmissionKeeps, PostKeeps,
     RecordSubmissionKeeps, BindBuildKeeps, AnnounceKeeps, SaveKeeps, AbandonKeeps, CrashKeeps
     DEF Command

LEMMA RemoteKeeps ==
  ASSUME DInv, NEW k \in Keys, NEW i \in DOMAIN runs[k], Remote(k, i)
  PROVE  DInv'
  BY AppearKeeps, BeginRunKeeps, FinishRunKeeps, FailRunKeeps, QueueRestoreKeeps,
     RestoreRunKeeps, KillRunKeeps, LoseSummaryKeeps, RerunWorkflowKeeps DEF Remote

LEMMA HandleKeeps ==
  ASSUME DInv, NEW h \in Handlers, Handle(h)
  PROVE  DInv'
  BY ReceiveEventKeeps, AcceptEventKeeps, RefreshKeeps, WorkflowRunEndedKeeps, WriteItemKeeps
     DEF Handle

LEMMA StutterKeeps ==
  ASSUME DInv, UNCHANGED vars
  PROVE  DInv'
  <1>1. /\ Types /\ Attempts /\ Effects /\ RemoteUnchanged
        /\ UNCHANGED <<load, token, runs, live, mail, faults>>
    BY DEF DInv, vars, RemoteUnchanged
  <1>2. TicketsExpire
    BY <1>1, TicketsKept
  <1>3. Attempts' /\ Effects' /\ Grows /\ NoneSent
    BY <1>1, <1>2, StillRuns
  <1> QED
    BY <1>1, <1>2, <1>3, Beside DEF Types

LEMMA NextDInv == DInv /\ [Next]_vars => DInv'
  <1> SUFFICES ASSUME DInv, [Next]_vars PROVE DInv'
    OBVIOUS
  <1>1. CASE \E k \in Keys : Command(k)
    BY <1>1, CommandKeeps
  <1>2. CASE \E k \in Keys : \E i \in DOMAIN runs[k] : Remote(k, i)
    BY <1>2, RemoteKeeps
  <1>3. CASE \E e \in mail : LoseEvent(e)
    BY <1>3, LoseEventKeeps
  <1>4. CASE \E h \in load.handlers : Handle(h)
    <2>1. load.handlers \subseteq Handlers
      BY DEF DInv, Types, Workload
    <2> QED
      BY <1>4, <2>1, HandleKeeps
  <1>5. CASE \E k \in Keys : SweepIntent(k)
    BY <1>5, SweepIntentKeeps
  <1>6. CASE UNCHANGED vars
    BY <1>6, StutterKeeps
  <1> QED
    BY <1>1, <1>2, <1>3, <1>4, <1>5, <1>6 DEF Next

\* What is stored, fenced, authorized and under way belongs together in every
\* reachable state, for every number of commands, calls, faults and handlers
\* (start_deployment, submit_execution, consume, accept_event, the readers).
THEOREM CommandsAreOrderly == Spec => []DInv
  <1> HIDE DEF Init, Next, DInv
  <1> QED
    BY InitDInv, NextDInv, PTL DEF Spec

\* An open service has nothing under way but what is excused
\* (command_guard, _active_deployment, persist_before_dispatch).
THEOREM OpenServiceIsQuiet == Spec => []OpenMeansQuiet
  <1>1. DInv => OpenMeansQuiet
    BY OpenIsQuiet DEF OpenMeansQuiet, Quiet, Barred, Ticket
  <1> HIDE DEF DInv, OpenMeansQuiet
  <1> QED
    BY <1>1, CommandsAreOrderly, PTL

\* Every variable keeps its shape, and a deployment is recorded as successful
\* only when its run moved production (_bind_build, issue, _reconcile,
\* accept_event).
THEOREM RecordsTellTheTruth == Spec => []RecordsAreTrue
  <1>1. DInv => RecordsAreTrue
    <2> SUFFICES ASSUME DInv PROVE TypeOK /\ SuccessMovedProduction
      BY DEF RecordsAreTrue
    <2>1. TypeOK
      <3>1. ASSUME NEW k \in Keys
            PROVE  /\ exec[k].status \in ExecStatus /\ exec[k].seq \in 0..4
                   /\ exec[k].build \in 0..Len(runs[k])
                   /\ \A i \in DOMAIN token[k] : token[k][i] \in {"issued", "consumed", "revoked"}
                   /\ \A i \in DOMAIN runs[k] : /\ runs[k][i].state \in RunState
                                                /\ runs[k][i].token \in 0..Len(token[k])
                                                /\ Github(k) => runs[k][i].token > 0
        <4>1. Types /\ Attempts /\ Dispatched(k) /\ Submitted(k)
          BY DEF DInv, Orderly
        <4>2. exec[k].status \in ExecStatus /\ exec[k].seq \in 0..4
          BY <4>1 DEF Types, ExecRecord
        <4>3. exec[k].build \in 0..Len(runs[k])
          <5>1. Len(runs[k]) \in Nat
            BY <4>1, Positions
          <5>2. CASE exec[k].build = 0
            BY <5>1, <5>2
          <5>3. CASE exec[k].build # 0
            <6>1. exec[k].build = 1 /\ Sent(k) /\ ~Github(k)
              BY <4>1, <5>3 DEF Dispatched, Submitted
            <6>2. Len(runs[k]) = 1
              BY <4>1, <6>1, OneBuild
            <6> QED
              BY <6>1, <6>2
          <5> QED
            BY <5>2, <5>3
        <4>4. \A i \in DOMAIN token[k] : token[k][i] \in {"issued", "consumed", "revoked"}
          <5>1. token[k] \in Seq({"issued", "consumed", "revoked"})
            BY <4>1 DEF Types, Tickets
          <5> QED
            BY <5>1, LenProperties, ElementOfSeq
        <4>5. \A i \in DOMAIN runs[k] : /\ runs[k][i].state \in RunState
                                        /\ runs[k][i].token \in 0..Len(token[k])
                                        /\ Github(k) => runs[k][i].token > 0
          BY <4>1, Positions DEF Attempts, RunRecord
        <4> QED
          BY <4>2, <4>3, <4>4, <4>5
      <3> QED
        BY <3>1 DEF DInv, Types, TypeOK
    <2>2. SuccessMovedProduction
      BY DEF DInv, Orderly, Stored, IsTrue, SuccessMovedProduction, Moved
    <2> QED
      BY <2>1, <2>2
  <1> HIDE DEF DInv, RecordsAreTrue
  <1> QED
    BY <1>1, CommandsAreOrderly, PTL

----------------------------------------------------------------------------
(* The steps that the fences forbid.                                       *)

\* A run of a workflow that begins has an unused authorization, a staged one that
\* promotes still has it, and a record only counts up.
TicketServes(k, i) ==
  Github(k) =>
    /\ runs[k][i].state = "queued" /\ runs'[k][i].state \in Busy =>
         token[k][runs[k][i].token] = "issued"
    /\ load.staged /\ runs'[k][i].moved /\ ~runs[k][i].moved =>
         token[k][runs[k][i].token] = "consumed"

StepIsFenced ==
  /\ \A k \in Keys : \A i \in DOMAIN runs[k] : TicketServes(k, i)
  /\ \A k \in Keys : exec'[k] # NoExec => exec'[k].seq >= exec[k].seq

LEMMA NoRunActs ==
  ASSUME \A k \in Keys : \A i \in DOMAIN runs[k] : runs'[k][i] = runs[k][i]
  PROVE  \A k \in Keys : \A i \in DOMAIN runs[k] : TicketServes(k, i)
  BY DEF TicketServes, Busy

LEMMA UnchangedIsFenced ==
  ASSUME Types, UNCHANGED <<runs, exec>>
  PROVE  StepIsFenced
  <1>1. \A k \in Keys : exec[k].seq \in 0..4
    BY DEF Types, ExecRecord
  <1>2. \A k \in Keys : \A i \in DOMAIN runs[k] : TicketServes(k, i)
    BY NoRunActs
  <1> QED
    BY <1>1, <1>2 DEF StepIsFenced

\* What a caller writes to a record leaves its sequence alone.
LEMMA RecordingIsFenced ==
  ASSUME Types, UNCHANGED runs, NEW k \in Keys, NEW status \in ExecStatus, NEW build,
         Records(k, status, build)
  PROVE  StepIsFenced
  <1>1. \A j \in Keys : exec[j].seq \in 0..4 /\ exec'[j].seq = exec[j].seq
    BY DEF Types, ExecRecord, Records
  <1>2. \A j \in Keys : \A i \in DOMAIN runs[j] : TicketServes(j, i)
    BY NoRunActs
  <1> QED
    BY <1>1, <1>2 DEF StepIsFenced

LEMMA LaunchIsFenced ==
  ASSUME Types, Attempts, Effects, NEW k \in Keys, ~Sent(k), NEW state \in {"queued", "inflight"},
         Run(k, state), Github(k) => token[k] # <<>>, UNCHANGED <<load, token, live, exec>>
  PROVE  StepIsFenced
  <1>1. \A j \in Keys \ {k} : runs'[j] = runs[j]
    BY FirstRun
  <1>2. DOMAIN runs[k] = {}
    BY DEF Sent
  <1>3. \A j \in Keys : exec[j].seq \in 0..4
    BY DEF Types, ExecRecord
  <1>4. \A j \in Keys : \A i \in DOMAIN runs[j] : TicketServes(j, i)
    BY <1>1, <1>2, NoRunActs
  <1> QED
    BY <1>3, <1>4 DEF StepIsFenced

\* A run that goes on, with its authorization when it needs one.
LEMMA GoingOnIsFenced ==
  ASSUME Types, NEW k \in Keys, NEW i \in DOMAIN runs[k], NEW state \in RunState,
         NEW moved \in BOOLEAN, SetRun(k, i, state, moved), UNCHANGED exec,
         runs[k][i].state = "queued" /\ state \in Busy /\ Github(k) => CanConsume(k, i),
         moved => MayContinue(k, i)
  PROVE  StepIsFenced
  <1>1. OneChanges(k, i, state, moved)
    BY SetRunChangesOne
  <1>2. \A j \in Keys : exec[j].seq \in 0..4
    BY DEF Types, ExecRecord
  <1>3. ASSUME NEW j \in Keys, NEW n \in DOMAIN runs[j]
        PROVE  TicketServes(j, n)
    <2>1. CASE j = k /\ n = i
      BY <1>1, <2>1 DEF OneChanges, TicketServes, CanConsume, MayContinue, Ticket
    <2>2. CASE j # k \/ n # i
      BY <1>1, <2>2 DEF OneChanges, TicketServes, Busy
    <2> QED
      BY <2>1, <2>2
  <1> QED
    BY <1>2, <1>3 DEF StepIsFenced

LEMMA RemoteIsFenced ==
  ASSUME Types, NEW k \in Keys, NEW i \in DOMAIN runs[k], Remote(k, i)
  PROVE  StepIsFenced
  <1>1. UNCHANGED exec
    BY DEF Remote, Appear, BeginRun, FinishRun, FailRun, QueueRestore, RestoreRun, KillRun,
           LoseSummary, RerunWorkflow, RemoteUnchanged
  <1>2. CASE BeginRun(k, i)
    <2>1. PICK state \in {"working", "void"} :
            /\ SetRun(k, i, state, FALSE)
            /\ state = "working" /\ Github(k) => CanConsume(k, i)
      BY <1>2 DEF BeginRun
    <2>2. state \in RunState /\ (state \in Busy => state = "working")
      BY DEF RunState, Busy, Ended
    <2> QED
      BY <1>1, <2>1, <2>2, GoingOnIsFenced
  <1>3. CASE RerunWorkflow(k, i)
    <2> DEFINE r == [state |-> "queued", token |-> runs[k][i].token, moved |-> FALSE]
    <2>1. r \in RunRecord /\ runs' = [runs EXCEPT ![k] = Append(@, r)]
      BY <1>3, Positions DEF RunRecord, RunState, RerunWorkflow
    <2>2. OneIsAdded(k, r)
      BY <2>1, AppendAddsOne
    <2>3. \A j \in Keys : \A n \in DOMAIN runs[j] : runs'[j][n] = runs[j][n]
      BY <2>2 DEF OneIsAdded
    <2>4. \A j \in Keys : exec[j].seq \in 0..4
      BY DEF Types, ExecRecord
    <2>5. \A j \in Keys : \A n \in DOMAIN runs[j] : TicketServes(j, n)
      BY <2>3, NoRunActs
    <2> QED
      BY <1>1, <2>4, <2>5 DEF StepIsFenced
  <1>4. ASSUME NEW state \in RunState, NEW moved \in BOOLEAN, SetRun(k, i, state, moved),
               runs[k][i].state # "queued", moved => MayContinue(k, i)
        PROVE  StepIsFenced
    BY <1>1, <1>4, GoingOnIsFenced
  <1>5. {"queued", "void", "working", "succeeded", "failed", "failing", "restoring", "restored"}
          \subseteq RunState
        /\ Busy = {"working", "failing", "restoring"}
    BY DEF RunState, Busy, Ended
  <1>6. CASE FinishRun(k, i) \/ KillRun(k, i)
    BY <1>4, <1>5, <1>6 DEF FinishRun, KillRun
  <1>7. CASE Appear(k, i) \/ FailRun(k, i) \/ QueueRestore(k, i) \/ RestoreRun(k, i)
             \/ LoseSummary(k, i)
    BY <1>4, <1>5, <1>7 DEF Appear, FailRun, QueueRestore, RestoreRun, LoseSummary
  <1> QED
    BY <1>2, <1>3, <1>6, <1>7 DEF Remote

LEMMA CommandIsFenced ==
  ASSUME DInv, NEW k \in Keys, Command(k)
  PROVE  StepIsFenced
  <1>1. Types /\ Attempts /\ Effects /\ Orderly(k) /\ exec[k].build \in Nat
        /\ exec[k].status \in ExecStatus
    BY DEF DInv, Types, ExecRecord
  <1>2. /\ {"SUBMISSION_PENDING", "GITHUB_DISPATCHING", "GITHUB_ACCEPTED", "GITHUB_REJECTED",
            "GITHUB_UNCERTAIN", "SUBMITTING", "SUBMISSION_FAILED", "SUBMISSION_UNKNOWN",
            "BOUND"} \subseteq ExecStatus
    BY DEF ExecStatus
  <1>3. ASSUME NEW status \in ExecStatus, UNCHANGED runs,
               \/ Mark(k, status)
               \/ \E build \in Nat :
                    exec' = [exec EXCEPT ![k].status = status, ![k].build = build]
        PROVE  StepIsFenced
    BY <1>1, <1>3, ExecRecords, RecordingIsFenced
  <1>4. CASE UNCHANGED <<runs, exec>>
    BY <1>1, <1>4, UnchangedIsFenced
  <1>5. CASE Reserve(k)
    BY <1>2, <1>3, <1>5 DEF Reserve, Reserved, Mark
  <1>6. CASE ClaimDispatch(k) \/ ReclaimDispatch(k)
    BY <1>2, <1>3, <1>6 DEF ClaimDispatch, ReclaimDispatch
  <1>7. CASE RetryLookup(k)
    <2>1. caller[k].note \in ExecStatus
      BY <1>1, <1>2, <1>7 DEF Orderly, Dispatched, WorkflowSteps, RetryLookup, At
    <2> QED
      BY <1>3, <1>4, <1>7, <2>1 DEF RetryLookup
  <1>8. CASE RecordDispatch(k)
    <2>1. caller[k].note \in ExecStatus
      BY <1>1, <1>2, <1>8 DEF Orderly, Dispatched, WorkflowSteps, RecordDispatch, At
    <2> QED
      BY <1>3, <1>8, <2>1 DEF RecordDispatch
  <1>9. CASE Submit(k)
    <2>1. \A i \in Visible(k) : i \in Nat
      BY <1>1, Positions DEF Visible, RunsIn
    <2> QED
      BY <1>2, <1>3, <1>4, <1>9, <2>1 DEF Submit, Reserved, Mark
  <1>10. CASE ClaimSubmission(k)
    BY <1>2, <1>3, <1>4, <1>10 DEF ClaimSubmission
  <1>11. CASE RecordSubmission(k)
    <2>1. caller[k].note \in ExecStatus
      BY <1>1, <1>2, <1>11 DEF Orderly, Dispatched, Submitted, BuildSteps, RecordSubmission, At
    <2> QED
      BY <1>3, <1>11, <2>1 DEF RecordSubmission
  <1>12. CASE BindBuild(k)
    BY <1>1, <1>2, <1>3, <1>12, Positions DEF BindBuild
  <1>13. CASE Dispatch(k)
    <2>1. /\ ~Sent(k) /\ (Github(k) => token[k] # <<>>)
      BY <1>1, <1>13 DEF Orderly, Dispatched, Unborn, WorkflowSteps, Dispatch, At
    <2>2. UNCHANGED <<load, token, live, exec>>
      BY <1>13 DEF Dispatch
    <2> QED
      BY <1>1, <1>4, <1>13, <2>1, <2>2, LaunchIsFenced DEF Dispatch, Accepted, Refused
  <1>14. CASE Post(k)
    <2>1. /\ ~Sent(k) /\ (Github(k) => token[k] # <<>>)
      BY <1>1, <1>14 DEF Orderly, Dispatched, Submitted, BuildSteps, Post, At
    <2>2. UNCHANGED <<load, token, live, exec>>
      BY <1>14 DEF Post
    <2> QED
      BY <1>1, <1>4, <1>14, <2>1, <2>2, LaunchIsFenced DEF Post
  <1> QED
    BY <1>4, <1>5, <1>6, <1>7, <1>8, <1>9, <1>10, <1>11, <1>12, <1>13, <1>14
       DEF Command, Start, RetryFailedDispatch, Enter, SaveIntent, CreateDeployment,
           CreateManagedDeployment, DropIntent, RevokeAuthorization, Announce, Save, Abandon,
           Crash

LEMMA HandleIsFenced ==
  ASSUME DInv, NEW h \in Handlers, Handle(h)
  PROVE  StepIsFenced
  <1>1. Types /\ UNCHANGED runs
    BY DEF DInv, Handle, ReceiveEvent, AcceptEvent, Refresh, WorkflowRunEnded, WriteItem,
           HandlerUnchanged
  <1>2. CASE UNCHANGED exec
    BY <1>1, <1>2, UnchangedIsFenced
  <1>3. CASE AcceptEvent(h)
    <2> DEFINE k == handler[h].key
               seq == handler[h].seq
    <2>1. CASE IsNewer(k, seq)
      <3>1. seq > exec[k].seq /\ exec' = [exec EXCEPT ![k].seq = seq]
        BY <1>3, <2>1 DEF AcceptEvent, IsNewer
      <3>2. k \in Keys
        BY <1>3 DEF DInv, Reports, HeldTruth, AcceptEvent
      <3>3. seq \in 0..4 /\ \A j \in Keys : exec[j] \in ExecRecord /\ exec[j].seq \in 0..4
        BY <1>1 DEF Types, HandlerRecord, ExecRecord
      <3> HIDE DEF k, seq
      <3>4. \A j \in Keys : exec'[j].seq = IF j = k THEN seq ELSE exec[j].seq
        BY <1>1, <3>1, <3>2, <3>3 DEF Types, ExecRecord
      <3>5. \A j \in Keys : exec'[j].seq >= exec[j].seq
        BY <3>1, <3>3, <3>4
      <3> QED
        BY <1>1, <3>5, NoRunActs DEF StepIsFenced
    <2>2. CASE ~IsNewer(k, seq)
      BY <1>2, <1>3, <2>2 DEF AcceptEvent
    <2> QED
      BY <2>1, <2>2
  <1> QED
    BY <1>2, <1>3 DEF Handle, ReceiveEvent, Refresh, WorkflowRunEnded, WriteItem

LEMMA NextIsFenced == DInv /\ [Next]_vars => StepIsFenced
  <1> SUFFICES ASSUME DInv, [Next]_vars PROVE StepIsFenced
    OBVIOUS
  <1>1. Types
    BY DEF DInv
  <1>2. CASE \E k \in Keys : Command(k)
    BY <1>2, CommandIsFenced
  <1>3. CASE \E k \in Keys : \E i \in DOMAIN runs[k] : Remote(k, i)
    BY <1>1, <1>3, RemoteIsFenced
  <1>4. CASE (\E e \in mail : LoseEvent(e)) \/ UNCHANGED vars
    BY <1>1, <1>4, UnchangedIsFenced DEF LoseEvent, RemoteUnchanged, vars
  <1>5. CASE \E h \in load.handlers : Handle(h)
    BY <1>1, <1>5, HandleIsFenced DEF Types, Workload
  <1>6. ASSUME NEW k \in Keys, SweepIntent(k) PROVE StepIsFenced
    <2>1. \A j \in Keys : exec[j].seq \in 0..4
      BY <1>1 DEF Types, ExecRecord
    <2>2. UNCHANGED runs /\ \A j \in Keys : exec'[j] = NoExec \/ exec'[j] = exec[j]
      BY <1>1, <1>6 DEF SweepIntent, Types
    <2> QED
      BY <2>1, <2>2, NoRunActs DEF StepIsFenced
  <1> QED
    BY <1>2, <1>3, <1>4, <1>5, <1>6 DEF Next

\* No workflow run begins with an authorization that is used or revoked, none of a
\* staged workflow promotes when its authorization was revoked before its promoting
\* job asked, and no late event takes a record back (consume, verify_continuation,
\* accept_event).
THEOREM LateStepsAreFenced == Spec => LateIsFenced
  <1>1. DInv /\ [Next]_vars => StepIsFenced
    BY NextIsFenced
  <1>2. StepIsFenced =>
          /\ [\A k \in Keys : \A i \in DOMAIN runs[k] :
                Github(k) =>
                  /\ runs[k][i].state = "queued" /\ runs'[k][i].state \in Busy =>
                       token[k][runs[k][i].token] = "issued"
                  /\ load.staged /\ runs'[k][i].moved /\ ~runs[k][i].moved =>
                       token[k][runs[k][i].token] = "consumed"]_vars
          /\ [\A k \in Keys : exec'[k] # NoExec => exec'[k].seq >= exec[k].seq]_vars
    BY DEF StepIsFenced, TicketServes
  <1> HIDE DEF DInv, Next, StepIsFenced, Init
  <1> QED
    BY <1>1, <1>2, CommandsAreOrderly, PTL
       DEF Spec, LateIsFenced, RevokedIsFenced, SequenceGrows

----------------------------------------------------------------------------
(* The abstract promise of ServiceWork.                                    *)

HasBegun(k) == \E i \in DOMAIN runs[k] : runs[k][i].state \in Begun
Works(k) == \E i \in DOMAIN runs[k] : runs[k][i].state \in Busy

PromiseStep == Promise!Next \/ UNCHANGED Promise!vars

\* The work of a command begins, or ends, and no other command's does; or none does.
WorkBegins(k) ==
  /\ ~HasBegun(k) /\ (k \in excused \/ \A j \in Keys : Works(j) => j \in excused)
  /\ \A j \in Keys : /\ HasBegun(j)' <=> HasBegun(j) \/ j = k
                     /\ Works(j)' <=> Works(j) \/ j = k
WorkEnds(k) ==
  /\ Works(k)
  /\ \A j \in Keys : /\ HasBegun(j)' <=> HasBegun(j)
                     /\ Works(j)' <=> Works(j) /\ j # k
WorkStays ==
  \A j \in Keys : (HasBegun(j)' <=> HasBegun(j)) /\ (Works(j)' <=> Works(j))

LEMMA WorkFlags ==
  /\ \A k \in Keys : /\ RunsIn(k, Busy \cup (Ended \ {"void"})) # {} <=> HasBegun(k)
                     /\ IsBusy(k) <=> Works(k)
  /\ \A k \in Keys : /\ (RunsIn(k, Busy \cup (Ended \ {"void"})) # {})' <=> HasBegun(k)'
                     /\ IsBusy(k)' <=> Works(k)'
  <1>1. \A k \in Keys : /\ RunsIn(k, Busy \cup (Ended \ {"void"})) # {} <=> HasBegun(k)
                        /\ IsBusy(k) <=> Works(k)
    BY DEF RunsIn, HasBegun, Begun, IsBusy, Works
  <1>2. \A k \in Keys : /\ (RunsIn(k, Busy \cup (Ended \ {"void"})) # {})' <=> HasBegun(k)'
                        /\ IsBusy(k)' <=> Works(k)'
    BY DEF RunsIn, HasBegun, Begun, IsBusy, Works
  <1> QED
    BY <1>1, <1>2

LEMMA BeginsMaps ==
  ASSUME NEW k \in Keys, WorkBegins(k), UNCHANGED excused
  PROVE  PromiseStep
  <1> HIDE DEF HasBegun, Works, RunsIn, IsBusy
  <1>1. Promise!Begin(k)
    BY WorkFlags DEF WorkBegins, Promise!Begin
  <1> QED
    BY <1>1 DEF PromiseStep, Promise!Next

LEMMA EndsMaps ==
  ASSUME NEW k \in Keys, WorkEnds(k), UNCHANGED excused
  PROVE  PromiseStep
  <1>1. Promise!End(k)
    BY WorkFlags DEF WorkEnds, Promise!End
  <1> QED
    BY <1>1 DEF PromiseStep, Promise!Next

LEMMA StaysMaps ==
  ASSUME WorkStays, excused' = excused \/ \E k \in Keys : excused' = excused \cup {k}
  PROVE  PromiseStep
  <1>1. CASE excused' = excused
    <2>1. UNCHANGED Promise!vars
      BY <1>1, WorkFlags DEF WorkStays, Promise!vars
    <2> QED
      BY <2>1 DEF PromiseStep
  <1>2. ASSUME NEW k \in Keys, excused' = excused \cup {k} PROVE PromiseStep
    <2>1. Promise!Excuse(k)
      BY <1>2, WorkFlags DEF WorkStays, Promise!Excuse
    <2> QED
      BY <2>1 DEF PromiseStep, Promise!Next
  <1> QED
    BY <1>1, <1>2

LEMMA SameRunsStay ==
  ASSUME UNCHANGED runs
  PROVE  WorkStays
  BY DEF WorkStays, HasBegun, Works

\* A new run has not begun.
LEMMA LaunchStays ==
  ASSUME Types, NEW k \in Keys, NEW r \in RunRecord, r.state \notin Begun,
         runs' = [runs EXCEPT ![k] = Append(@, r)]
  PROVE  WorkStays
  <1>1. OneIsAdded(k, r)
    BY AppendAddsOne
  <1>2. ASSUME NEW j \in Keys
        PROVE  (HasBegun(j)' <=> HasBegun(j)) /\ (Works(j)' <=> Works(j))
    <2>1. CASE j = k
      <3>1. Len(runs[k]) \in Nat /\ DOMAIN runs[k] = 1..Len(runs[k])
        BY Positions
      <3>2. \A n : n \in DOMAIN runs'[k] <=> n \in DOMAIN runs[k] \/ n = Len(runs[k]) + 1
        BY <1>1, <3>1 DEF OneIsAdded
      <3>3. /\ \A n \in DOMAIN runs[k] : runs'[k][n] = runs[k][n]
            /\ runs'[k][Len(runs[k]) + 1].state \notin Begun
        BY <1>1 DEF OneIsAdded
      <3>4. runs'[k][Len(runs[k]) + 1].state \notin Busy
        BY <3>3 DEF Begun
      <3> QED
        BY <2>1, <3>2, <3>3, <3>4 DEF HasBegun, Works
    <2>2. CASE j # k
      <3>1. runs'[j] = runs[j]
        BY <1>1, <2>2 DEF OneIsAdded
      <3> QED
        BY <3>1 DEF HasBegun, Works
    <2> QED
      BY <2>1, <2>2
  <1> QED
    BY <1>2 DEF WorkStays

\* What a step may do to one run without touching the promise.
Mild(k, i, state) ==
  \/ runs[k][i].state \notin Begun /\ state \notin Begun
  \/ /\ runs[k][i].state \in Begun /\ state \in Begun
     /\ runs[k][i].state \in Ended => state \in Ended

LEMMA MildMaps ==
  ASSUME Types, Attempts, NEW k \in Keys, NEW i \in DOMAIN runs[k], NEW state \in RunState,
         NEW moved \in BOOLEAN, OneChanges(k, i, state, moved), Mild(k, i, state),
         UNCHANGED excused
  PROVE  PromiseStep
  <1>1. Busy \subseteq Begun /\ Busy \cap Ended = {}
    BY DEF Busy, Ended, Begun
  <1>2. \A j \in Keys : DOMAIN runs'[j] = DOMAIN runs[j]
    BY DEF OneChanges
  <1>3. /\ runs'[k][i].state = state
        /\ \A j \in Keys : \A n \in DOMAIN runs[j] :
             j # k \/ n # i => runs'[j][n].state = runs[j][n].state
    BY DEF OneChanges
  <1>4. \A j \in Keys : HasBegun(j)' <=> HasBegun(j)
    <2>1. \A j \in Keys : \A n \in DOMAIN runs[j] :
            runs'[j][n].state \in Begun <=> runs[j][n].state \in Begun
      BY <1>3 DEF Mild
    <2> QED
      BY <1>2, <2>1 DEF HasBegun
  <1>5. \A j \in Keys \ {k} : Works(j)' <=> Works(j)
    BY <1>2, <1>3 DEF Works
  <1>6. CASE runs[k][i].state \in Busy /\ state \notin Busy
    <2>1. i = Len(runs[k])
      BY <1>1, <1>6 DEF Attempts
    <2>2. \A n \in DOMAIN runs[k] : n # i => runs[k][n].state \notin Busy
      BY <1>1, <2>1 DEF Attempts
    <2>3. Works(k) /\ ~Works(k)'
      BY <1>2, <1>3, <1>6, <2>2 DEF Works
    <2>4. WorkEnds(k)
      BY <1>4, <1>5, <2>3 DEF WorkEnds
    <2> QED
      BY <2>4, EndsMaps
  <1>7. CASE runs[k][i].state \in Busy <=> state \in Busy
    <2>1. Works(k)' <=> Works(k)
      BY <1>2, <1>3, <1>7 DEF Works
    <2>2. WorkStays
      BY <1>4, <1>5, <2>1 DEF WorkStays
    <2> QED
      BY <2>2, StaysMaps
  <1>8. ~(runs[k][i].state \notin Busy /\ state \in Busy)
    BY <1>1 DEF Mild, Begun
  <1> QED
    BY <1>6, <1>7, <1>8

\* A run that an authorization lets begin is the first of its command to do so,
\* and no other command that is not excused is under way.
LEMMA FreshBegins ==
  ASSUME DInv, NEW k \in Keys, NEW i \in DOMAIN runs[k], NEW moved \in BOOLEAN,
         runs[k][i].state = "queued", ~Barred(k, i), OneChanges(k, i, "working", moved),
         UNCHANGED excused
  PROVE  PromiseStep
  <1>1. Types /\ Attempts /\ Exclusive
    BY DEF DInv
  <1>2. ~HasBegun(k)
    <2>1. ASSUME NEW n \in DOMAIN runs[k], runs[k][n].state \in Begun PROVE FALSE
      <3>1. CASE Github(k)
        <4>1. runs[k][n].token = runs[k][i].token
          BY <1>1 DEF Attempts
        <4>2. Ticket(k, n) # "issued"
          BY <1>1, <2>1, <3>1 DEF Attempts
        <4> QED
          BY <3>1, <4>1, <4>2 DEF Barred, Ticket
      <3>2. CASE ~Github(k)
        <4>1. DOMAIN runs[k] = {1}
          BY <1>1, <3>2, OneBuild, Positions
        <4>2. n = i
          BY <4>1
        <4> QED
          BY <2>1, <4>2 DEF Begun, Busy, Ended
      <3> QED
        BY <3>1, <3>2
    <2> QED
      BY <2>1 DEF HasBegun
  <1>3. \A j \in Keys : Works(j) => ~Quiet(j)
    BY DEF Works, Quiet, Busy, Ended, Barred
  <1>4. ~Quiet(k)
    BY DEF Quiet, Ended
  <1>5. ~Works(k)
    BY <1>2 DEF HasBegun, Works, Begun
  <1>6. k \in excused \/ \A j \in Keys : Works(j) => j \in excused
    BY <1>1, <1>3, <1>4, <1>5 DEF Exclusive, Engaged
  <1>7. \A j \in Keys : DOMAIN runs'[j] = DOMAIN runs[j]
    BY DEF OneChanges
  <1>8. /\ runs'[k][i].state = "working"
        /\ \A j \in Keys \ {k} : \A n \in DOMAIN runs[j] : runs'[j][n] = runs[j][n]
    BY DEF OneChanges
  <1>9. HasBegun(k)' /\ Works(k)'
    BY <1>7, <1>8 DEF HasBegun, Works, Begun, Busy
  <1>10. \A j \in Keys \ {k} : (HasBegun(j)' <=> HasBegun(j)) /\ (Works(j)' <=> Works(j))
    BY <1>7, <1>8 DEF HasBegun, Works
  <1>11. WorkBegins(k)
    BY <1>2, <1>6, <1>9, <1>10 DEF WorkBegins
  <1> QED
    BY <1>11, BeginsMaps

----------------------------------------------------------------------------
(* Every step keeps the promise.                                           *)

LEMMA RemoteMaps ==
  ASSUME DInv, NEW k \in Keys, NEW i \in DOMAIN runs[k], Remote(k, i)
  PROVE  PromiseStep
  <1>1. Types /\ Attempts
    BY DEF DInv
  <1>2. UNCHANGED excused
    BY DEF Remote, Appear, BeginRun, FinishRun, FailRun, QueueRestore, RestoreRun, KillRun,
           LoseSummary, RerunWorkflow, RemoteUnchanged
  <1>3. ASSUME NEW state \in RunState, NEW moved \in BOOLEAN, SetRun(k, i, state, moved),
               Mild(k, i, state)
        PROVE  PromiseStep
    BY <1>1, <1>2, <1>3, SetRunChangesOne, MildMaps
  <1>4. /\ {"succeeded", "restored", "failed", "working", "failing", "restoring"}
           \subseteq Begun
        /\ {"inflight", "queued", "void"} \cap Begun = {}
        /\ {"succeeded", "restored", "failed"} \subseteq Ended
        /\ {"working", "failing", "restoring"} \cap Ended = {}
        /\ {"inflight", "queued", "void", "succeeded", "restored", "failed", "working", "failing",
            "restoring"} \subseteq RunState
    BY DEF Begun, Busy, Ended, RunState
  <1>5. CASE Appear(k, i)
    BY <1>3, <1>4, <1>5 DEF Appear, Mild
  <1>6. CASE BeginRun(k, i)
    <2>1. runs[k][i].state = "queued"
      BY <1>6 DEF BeginRun
    <2>2. CASE Barred(k, i)
      <3>1. SetRun(k, i, "void", FALSE)
        BY <1>6, <2>2 DEF BeginRun, Barred, CanConsume
      <3> QED
        BY <1>3, <1>4, <2>1, <3>1 DEF Mild
    <2>3. CASE ~Barred(k, i)
      <3>1. SetRun(k, i, "working", FALSE)
        BY <1>6, <2>1, <2>3 DEF BeginRun, Barred, CanConsume
      <3>2. OneChanges(k, i, "working", FALSE)
        BY <1>1, <1>4, <3>1, SetRunChangesOne
      <3> QED
        BY <1>2, <2>1, <2>3, <3>2, FreshBegins
    <2> QED
      BY <2>2, <2>3
  <1>7. CASE FinishRun(k, i)
    BY <1>3, <1>4, <1>7 DEF FinishRun, Mild
  <1>8. CASE FailRun(k, i)
    BY <1>3, <1>4, <1>8 DEF FailRun, Mild
  <1>9. CASE QueueRestore(k, i) \/ RestoreRun(k, i)
    BY <1>3, <1>4, <1>9 DEF QueueRestore, RestoreRun, Mild
  <1>10. CASE KillRun(k, i) \/ LoseSummary(k, i)
    <2>1. /\ runs[k][i].state \in Begun
          /\ \E moved \in BOOLEAN : SetRun(k, i, "failed", moved)
      BY <1>4, <1>10 DEF KillRun, LoseSummary, Begun
    <2> QED
      BY <1>3, <1>4, <2>1 DEF Mild
  <1>11. CASE RerunWorkflow(k, i)
    <2> DEFINE r == [state |-> "queued", token |-> runs[k][i].token, moved |-> FALSE]
    <2>1. /\ r \in RunRecord /\ runs' = [runs EXCEPT ![k] = Append(@, r)]
          /\ r.state \notin Begun
      BY <1>1, <1>4, <1>11, Positions DEF RunRecord, RerunWorkflow
    <2> HIDE DEF r
    <2>2. WorkStays
      BY <1>1, <2>1, LaunchStays
    <2> QED
      BY <1>2, <2>2, StaysMaps
  <1> QED
    BY <1>5, <1>6, <1>7, <1>8, <1>9, <1>10, <1>11 DEF Remote

LEMMA CommandMaps ==
  ASSUME DInv, NEW k \in Keys, Command(k)
  PROVE  PromiseStep
  <1>1. Types
    BY DEF DInv
  <1>2. ASSUME NEW state \in {"queued", "inflight"}, Run(k, state), UNCHANGED excused
        PROVE  PromiseStep
    <2>1. /\ NewRun(k, state) \in RunRecord /\ NewRun(k, state).state \notin Begun
          /\ runs' = [runs EXCEPT ![k] = Append(@, NewRun(k, state))]
      BY <1>1, <1>2, Positions DEF NewRun, RunRecord, RunState, Begun, Busy, Ended, Run
    <2>2. WorkStays
      BY <1>1, <2>1, LaunchStays
    <2> QED
      BY <1>2, <2>2, StaysMaps
  <1>3. ASSUME UNCHANGED runs, excused' \in {excused, excused \cup {k}} PROVE PromiseStep
    BY <1>3, SameRunsStay, StaysMaps
  <1>4. CASE Dispatch(k)
    <2>1. /\ UNCHANGED excused
          /\ UNCHANGED runs \/ \E state \in {"queued", "inflight"} : Run(k, state)
      BY <1>4 DEF Dispatch, Accepted, Refused
    <2> QED
      BY <1>2, <1>3, <2>1
  <1>5. CASE Post(k)
    <2>1. /\ UNCHANGED excused
          /\ UNCHANGED runs \/ \E state \in {"queued", "inflight"} : Run(k, state)
      BY <1>5 DEF Post
    <2> QED
      BY <1>2, <1>3, <2>1
  <1>6. CASE Start(k) \/ RetryFailedDispatch(k)
    BY <1>3, <1>6 DEF Start, RetryFailedDispatch, Enter
  <1>7. CASE RecordSubmission(k)
    BY <1>3, <1>7 DEF RecordSubmission
  <1> QED
    BY <1>3, <1>4, <1>5, <1>6, <1>7
       DEF Command, SaveIntent, CreateDeployment, CreateManagedDeployment, DropIntent, Reserve,
           ClaimDispatch, ReclaimDispatch, RetryLookup, RecordDispatch, RevokeAuthorization,
           Submit, ClaimSubmission, BindBuild, Announce, Save, Abandon, Crash

LEMMA HandleMaps ==
  ASSUME DInv, NEW h \in Handlers, Handle(h)
  PROVE  PromiseStep
  <1>1. UNCHANGED runs
    BY DEF Handle, ReceiveEvent, AcceptEvent, Refresh, WorkflowRunEnded, WriteItem,
           HandlerUnchanged
  <1>2. WorkStays
    BY <1>1, SameRunsStay
  <1>3. CASE WriteItem(h)
    <2>1. handler[h].key \in Keys
      BY <1>3 DEF DInv, Reports, HeldTruth, WriteItem
    <2>2. excused' \in {excused, excused \cup {handler[h].key}}
      BY <1>3 DEF WriteItem
    <2> QED
      BY <1>2, <2>1, <2>2, StaysMaps
  <1>4. CASE UNCHANGED excused
    BY <1>2, <1>4, StaysMaps
  <1> QED
    BY <1>3, <1>4 DEF Handle, ReceiveEvent, AcceptEvent, Refresh, WorkflowRunEnded

LEMMA InitMaps == Init => Promise!Init
  <1> SUFFICES ASSUME Init PROVE Promise!Init
    OBVIOUS
  <1>1. \A k \in Keys : ~HasBegun(k) /\ ~Works(k)
    BY DEF Init, HasBegun, Works
  <1> QED
    BY <1>1, WorkFlags DEF Init, Promise!Init

LEMMA NextMaps == DInv /\ [Next]_vars => PromiseStep
  <1> SUFFICES ASSUME DInv, [Next]_vars PROVE PromiseStep
    OBVIOUS
  <1>1. CASE \E k \in Keys : Command(k)
    BY <1>1, CommandMaps
  <1>2. CASE \E k \in Keys : \E i \in DOMAIN runs[k] : Remote(k, i)
    BY <1>2, RemoteMaps
  <1>3. CASE \E h \in load.handlers : Handle(h)
    <2>1. load.handlers \subseteq Handlers
      BY DEF DInv, Types, Workload
    <2> QED
      BY <1>3, <2>1, HandleMaps
  <1>4. ASSUME UNCHANGED runs, UNCHANGED excused PROVE PromiseStep
    BY <1>4, SameRunsStay, StaysMaps
  <1>5. CASE (\E e \in mail : LoseEvent(e)) \/ UNCHANGED vars
    BY <1>4, <1>5 DEF LoseEvent, RemoteUnchanged, vars
  <1>6. ASSUME NEW k \in Keys, SweepIntent(k) PROVE PromiseStep
    <2>1. UNCHANGED runs /\ excused' \in {excused, excused \cup {k}}
      BY <1>6 DEF SweepIntent
    <2> QED
      BY <2>1, SameRunsStay, StaysMaps
  <1> QED
    BY <1>1, <1>2, <1>3, <1>5, <1>6 DEF Next

\* The commands implement the promise of ServiceWork: the remote work of a
\* command begins at most once, and two commands work at the same time only if
\* one of them is excused (start_deployment, start_rollback, command_guard,
\* consume, submit_execution).
THEOREM CommandsKeepThePromise == Spec => EffectsOnce
  <1>1. Init => Promise!Init
    BY InitMaps
  <1>2. DInv /\ [Next]_vars => [Promise!Next]_(Promise!vars)
    BY NextMaps DEF PromiseStep
  <1> HIDE DEF DInv, Next, Init, vars
  <1> QED
    BY <1>1, <1>2, CommandsAreOrderly, PTL DEF Spec, EffectsOnce, Promise!Spec
=============================================================================
