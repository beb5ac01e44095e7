-------------------------- MODULE DatabaseJobsProofs --------------------------
(***************************************************************************)
(* The private results of the database console, for every number of        *)
(* executions, exports, views and requests, every workload and every       *)
(* number of crashes and lost answers.                                     *)
(***************************************************************************)
EXTENDS DatabaseJobs, FiniteSetTheorems, TLAPS

(* Where the processes can be.                                             *)

\* A worker that was authorized after its claim and may still write.
Writing == {"authorized", "ready", "working", "writing", "uploaded", "finishing"}
WorkerSteps == {"idle", "claimed", "verify", "closing", "failing", "purging", "wiping",
                "releasing", "done", "lost"} \cup Writing
CreatorSteps == {"idle", "reserved", "staged", "inserted", "undispatched", "failed", "drop",
                 "dropped", "done"}
\* The janitor cleans an execution with its exports and views, a view, or one
\* job by itself.
ViewSteps == {"view", "purge_view", "release_view"}
CleaningSteps == {"expire", "views", "purge", "release", "cleaned"} \cup ViewSteps
AloneSteps == {"erase", "free"}
JanitorSteps == {"idle", "next", "exports"} \cup CleaningSteps \cup AloneSteps

JobRecord == [state : States, open : BOOLEAN, expired : BOOLEAN, lapsed : BOOLEAN,
              clean : BOOLEAN, source : Executions \cup {None}]
JanitorRecord == [step : JanitorSteps, job : Jobs \cup {None}, view : Views \cup {None},
                  seen : BOOLEAN, whole : BOOLEAN]

Steps ==
    /\ worker \in [Jobs -> WorkerSteps] /\ creator \in [Jobs -> CreatorSteps]
    /\ janitor \in JanitorRecord
    /\ asks \in [Executions -> Requests]
    /\ \A j \in Jobs :
          /\ creator[j] \in {"reserved", "staged"} => j \in Executions
          /\ creator[j] \in {"undispatched", "failed", "drop", "dropped"} => j \notin Views
          /\ worker[j] \in {"authorized", "verify", "purging"} => j \in Executions
          /\ worker[j] = "wiping" => j \in Derived
    /\ janitor.step \in {"expire", "exports", "views", "purge", "release", "cleaned"} =>
          janitor.job \in Executions
    /\ janitor.step \in ViewSteps => janitor.view \in Views /\ janitor.job \in Executions \cup {None}
    /\ janitor.step \in AloneSteps => janitor.job \in Executions \cup Exports

-----------------------------------------------------------------------------
(* A job.                                                                  *)

\* Nothing that is shown can come of the job any more and nobody writes for it:
\* once this is so, it stays so.
Over(j) == \/ job[j].state \notin Live \cup {"completed"} \/ job[j].expired
           \/ j \in Derived /\ ~Ready(job[j].source)
Stopped(j) == Over(j) /\ worker[j] \notin Writing
\* Nor can it be claimed any more.
Spent(j) == Stopped(j) /\ (job[j].state \in Live => job[j].expired /\ worker[j] # "claimed")

\* The source of an export or view was complete once.
Sourced ==
    \A j \in Jobs :
       IF j \in Executions \/ job[j].state \in Absent THEN job[j].source = None
       ELSE /\ job[j].source \in Executions
            /\ job[job[j].source].state \in {"completed", "expired", "purged", "deleted"}

\* What the worker of a job knows at each of its steps.
Worked ==
    \A j \in Jobs :
       /\ job[j].state \in {"none", "queued"} => worker[j] = "idle"
       /\ worker[j] = "idle" => ~job[j].open
       /\ worker[j] \in Writing => job[j].open /\ job[j].state \notin Absent /\ ~job[j].clean
       /\ worker[j] = "claimed" /\ job[j].state = "running" => job[j].open
       /\ worker[j] \in Writing \cup {"claimed"} => job[j].state # "completed"
       /\ worker[j] \in Writing => j \in reserved \cup misled
       /\ worker[j] \in {"uploaded", "finishing"} => "result" \in objects[j] \/ j \in misled
       /\ worker[j] \in {"failing", "purging", "releasing"} /\ job[j].state = "completed" =>
             j \in Exports \cup Views \cup misled
       /\ worker[j] \in {"verify", "purging", "releasing"} => job[j].state \notin Live
       /\ worker[j] \in {"wiping", "releasing"} /\ j \in Derived =>
             job[j].state \in Terminal \cup {"deleted"}
       /\ worker[j] = "releasing" => objects[j] = {}

\* What the call that creates a job knows.
Created ==
    \A j \in Jobs :
       /\ creator[j] \in {"idle", "reserved", "staged"} => job[j].state = "none"
       /\ creator[j] \in {"reserved", "staged"} => j \in reserved
       /\ creator[j] \in {"undispatched", "failed"} /\ j \in Executions => j \in misled
       /\ creator[j] \in {"drop", "dropped"} =>
             IF j \in Executions THEN j \in misled \/ job[j].state = "none"
             ELSE Spent(j)
       /\ creator[j] = "dropped" => objects[j] = {} \/ j \in misled

\* What waits or runs is reserved, unless nothing can come of it.
Reserved ==
    \A j \in Jobs : job[j].state \in Live =>
        j \in reserved \cup misled \/ (j \in Derived /\ ~Ready(job[j].source))

\* A permit is with one derived job, and with a worker that may still use it.
Permitted ==
    /\ \A a, b \in permits \cap Derived : a = b
    /\ \A j \in permits : worker[j] \in {"working", "writing", "uploaded", "finishing", "lost"}

\* Only a job that ended is marked clean, and none that is gone expires.
Tidied == \A j \in Jobs : /\ job[j].clean => job[j].state \in Terminal \cup {"deleted"}
                          /\ job[j].state \in Absent => ~job[j].expired

-----------------------------------------------------------------------------
(* The janitor.                                                            *)

\* What it cleans has stopped, and what it has erased stays erased.
Cleaning ==
    janitor.step \in CleaningSteps /\ janitor.job # None =>
       LET e == janitor.job IN
       /\ Stopped(e) /\ job[e].state \notin Absent
       /\ janitor.step # "expire" => job[e].state \in {"expired", "purged"}
       /\ \A x \in ExportsOf(e) : Stopped(x)
       /\ janitor.step \in {"release", "cleaned"} =>
             \A j \in {e} \cup ExportsOf(e) : objects[j] = {}
       /\ janitor.step = "cleaned" => \A j \in {e} \cup ExportsOf(e) : j \notin reserved

CleaningView ==
    janitor.step \in ViewSteps =>
       LET v == janitor.view IN
       /\ job[v].state \notin Absent
       /\ IF janitor.job # None THEN job[v].source = janitor.job
                               ELSE job[v].state \in Terminal \/ job[v].expired
       /\ janitor.step = "view" /\ ~janitor.seen => Stopped(v)
       /\ janitor.step # "view" => Stopped(v) /\ job[v].state \in Terminal
       /\ janitor.step = "release_view" => objects[v] = {}

CleaningAlone ==
    /\ janitor.step \in AloneSteps =>
          LET j == janitor.job IN
          /\ Spent(j)
          /\ job[j].state = "none" => creator[j] = "done"
          /\ j \in Executions => job[j].state \notin Live
          /\ janitor.step = "free" => objects[j] = {}
    /\ janitor.step = "exports" => job[janitor.job].state = "purged"

JInv == /\ TypeOK /\ Steps /\ Sourced /\ Worked /\ Created /\ Reserved /\ Tidied
        /\ Cleaning /\ CleaningView /\ CleaningAlone
        /\ Permitted /\ ObjectsAreReserved /\ CleanedIsEmpty
        /\ OneCapture /\ CompletedIsReadable
-----------------------------------------------------------------------------
(* What the updates of a document leave of it.                             *)

\* Every other document is as it was.
Alone(j) == \A k \in Jobs \ {j} : job'[k] = job[k]

\* The document of a job but for its state, the mark of its dispatch aside.
Keeps(j) == /\ job'[j].open = job[j].open /\ job'[j].expired = job[j].expired
            /\ job'[j].clean = job[j].clean /\ job'[j].source = job[j].source

\* The updates the steps make give documents again.
LEMMA Records ==
    ASSUME NEW r \in JobRecord, NEW s \in States
    PROVE  /\ [r EXCEPT !.state = s, !.lapsed = FALSE] \in JobRecord
           /\ [r EXCEPT !.state = s, !.open = TRUE] \in JobRecord
           /\ [r EXCEPT !.open = FALSE, !.state = s] \in JobRecord
           /\ [r EXCEPT !.state = s, !.expired = TRUE] \in JobRecord
           /\ [r EXCEPT !.state = s] \in JobRecord
           /\ [r EXCEPT !.lapsed = TRUE] \in JobRecord
           /\ [r EXCEPT !.open = FALSE] \in JobRecord
           /\ [r EXCEPT !.expired = TRUE] \in JobRecord
  BY Zenon DEF JobRecord

\* A new document, and what is left of one that was deleted.
LEMMA NewRecords ==
    ASSUME NEW e \in Executions \cup {None}
    PROVE  /\ Queued(e) \in JobRecord
           /\ Queued(e).state = "queued" /\ ~Queued(e).open /\ ~Queued(e).expired
           /\ ~Queued(e).clean /\ Queued(e).source = e
  <1>1. NoJob \in JobRecord
    BY SMT DEF NoJob, JobRecord, States
  <1>2. Queued(e) \in JobRecord
    <2>1. "queued" \in States
      BY DEF States
    <2> QED
      BY <1>1, <2>1, Zenon DEF Queued, JobRecord
  <1>3. /\ Queued(e).state = "queued" /\ ~Queued(e).open /\ ~Queued(e).expired
        /\ ~Queued(e).clean /\ Queued(e).source = e
    BY SMT DEF Queued, NoJob
  <1> QED
    BY <1>2, <1>3

\* A deleted document says nothing of results (_delete_tombstone).
LEMMA DeletedRecord ==
    LET r == [NoJob EXCEPT !.state = "deleted"] IN
    r \in JobRecord /\ r.state = "deleted" /\ ~r.open /\ ~r.expired /\ ~r.clean /\ r.source = None
  <1>1. NoJob \in JobRecord /\ "deleted" \in States
    BY SMT DEF NoJob, JobRecord, States
  <1>2. [NoJob EXCEPT !.state = "deleted"] \in JobRecord
    BY <1>1, Records
  <1> QED
    BY <1>2, SMT DEF NoJob

\* What a cleanup writes is a document, and says that it is clean.
LEMMA CleanedRecords ==
    ASSUME NEW r \in JobRecord
    PROVE  /\ CleanedExport(r) \in JobRecord /\ CleanedView(r) \in JobRecord
           /\ CleanedExecution(r) \in JobRecord
           /\ \A q \in {CleanedExport(r), CleanedView(r), CleanedExecution(r)} :
                 q.source = r.source
           /\ CleanedExport(r).state \in {r.state, "expired"} /\ ~CleanedExport(r).open
           /\ IF r.expired \/ r.state \in {"expired", "purged"}
              THEN CleanedExport(r).state = "expired" /\ CleanedExport(r).clean
              ELSE CleanedExport(r).state = r.state /\ CleanedExport(r).clean = r.clean
           /\ CleanedView(r).state = r.state /\ CleanedView(r).clean
           /\ CleanedView(r).open = r.open
           /\ CleanedView(r).expired => r.expired
           /\ CleanedExecution(r).state = (IF r.state = "purged" THEN "purged" ELSE "expired")
           /\ CleanedExecution(r).clean /\ CleanedExecution(r).open = r.open
  <1>1. "expired" \in States /\ "purged" \in States
    BY DEF States
  <1>2. CleanedExport(r) \in JobRecord
    BY <1>1, Zenon DEF CleanedExport, JobRecord
  <1>3. CleanedView(r) \in JobRecord
    BY <1>1, Zenon DEF CleanedView, JobRecord
  <1>4. CleanedExecution(r) \in JobRecord
    BY <1>1, Zenon DEF CleanedExecution, JobRecord
  <1>5. /\ CleanedExport(r).source = r.source /\ CleanedView(r).source = r.source
        /\ CleanedExecution(r).source = r.source
    BY DEF CleanedExport, CleanedView, CleanedExecution, JobRecord
  <1>6. /\ CleanedExport(r).state \in {r.state, "expired"} /\ ~CleanedExport(r).open
        /\ IF r.expired \/ r.state \in {"expired", "purged"}
           THEN CleanedExport(r).state = "expired" /\ CleanedExport(r).clean
           ELSE CleanedExport(r).state = r.state /\ CleanedExport(r).clean = r.clean
    BY DEF CleanedExport, JobRecord
  <1>7. /\ CleanedView(r).state = r.state /\ CleanedView(r).clean
        /\ CleanedView(r).open = r.open
        /\ CleanedView(r).expired => r.expired
    BY DEF CleanedView, JobRecord
  <1>8. /\ CleanedExecution(r).state = (IF r.state = "purged" THEN "purged" ELSE "expired")
        /\ CleanedExecution(r).clean /\ CleanedExecution(r).open = r.open
    BY DEF CleanedExecution, JobRecord
  <1> QED
    BY <1>2, <1>3, <1>4, <1>5, <1>6, <1>7, <1>8

\* _finish writes the state and clears the dispatch mark, or nothing at all.
LEMMA FinishEffect ==
    ASSUME job \in [Jobs -> JobRecord], NEW j \in Jobs, NEW owned \in BOOLEAN,
           NEW s \in {"completed", "failed", "cancelled"}, Finish(j, owned, s)
    PROVE  /\ job' \in [Jobs -> JobRecord] /\ Alone(j) /\ Keeps(j)
           /\ IF CanFinish(j, owned, s) THEN job'[j].state = FinishState(j, s)
                                        ELSE job'[j] = job[j]
  <1>1. CASE ~CanFinish(j, owned, s)
    BY <1>1 DEF Finish, Alone, Keeps
  <1>2. CASE CanFinish(j, owned, s)
    <2> DEFINE r == [job[j] EXCEPT !.state = FinishState(j, s), !.lapsed = FALSE]
    <2>1. FinishState(j, s) \in States
      BY DEF FinishState, States
    <2>2. r \in JobRecord
      BY <2>1, Records
    <2>3. job' = [job EXCEPT ![j] = r]
      BY <1>2, Zenon DEF Finish
    <2>4. /\ r.state = FinishState(j, s) /\ r.open = job[j].open
          /\ r.expired = job[j].expired /\ r.clean = job[j].clean
          /\ r.source = job[j].source
      BY DEF JobRecord
    <2> HIDE DEF r
    <2> QED
      BY <1>2, <2>2, <2>3, <2>4 DEF Alone, Keeps
  <1> QED
    BY <1>1, <1>2

\* What the janitor notes when it starts: nothing, a workspace, a job or a view.
LEMMA StartsIdle ==
    /\ Idle \in JanitorRecord /\ Idle.step = "idle"
    /\ LET r == [Idle EXCEPT !.step = "next", !.whole = TRUE] IN
       r \in JanitorRecord /\ r.step = "next"
  <1>1. Idle \in JanitorRecord /\ "next" \in JanitorSteps
    BY SMT DEF Idle, JanitorRecord, JanitorSteps
  <1>2. [Idle EXCEPT !.step = "next", !.whole = TRUE] \in JanitorRecord
    BY <1>1, Zenon DEF JanitorRecord
  <1> QED
    BY <1>1, <1>2 DEF Idle

\* A cleanup of a job begins.
LEMMA StartsJob ==
    ASSUME NEW s \in JanitorSteps, NEW k \in Jobs
    PROVE  LET r == [Idle EXCEPT !.step = s, !.job = k] IN
           r \in JanitorRecord /\ r.step = s /\ r.job = k
  <1>1. [Idle EXCEPT !.step = s, !.job = k] \in JanitorRecord
    BY StartsIdle, Zenon DEF JanitorRecord
  <1> QED
    BY <1>1 DEF Idle

\* A cleanup of a view found by the sweep begins.
LEMMA StartsLost ==
    ASSUME NEW s \in JanitorSteps, NEW v \in Views
    PROVE  LET r == [Idle EXCEPT !.step = s, !.view = v] IN
           r \in JanitorRecord /\ r.step = s /\ r.view = v /\ r.job = None
  <1>1. [Idle EXCEPT !.step = s, !.view = v] \in JanitorRecord
    BY StartsIdle, Zenon DEF JanitorRecord
  <1> QED
    BY <1>1 DEF Idle

\* What _finish makes of a job: nothing, an end without a capture, or the completed
\* job of a worker whose outcome was admitted.
Ended(j) ==
    /\ job' \in [Jobs -> JobRecord] /\ Alone(j) /\ Keeps(j)
    /\ \/ job'[j] = job[j]
       \/ job[j].state \in Live /\ job'[j].state \in Terminal
       \/ /\ job[j].state \in Live /\ job'[j].state = "completed" /\ worker[j] = "finishing"
          /\ Admitted /\ ~job[j].expired /\ (j \in Derived => Ready(job[j].source))

\* _finish brings no job back: what had stopped has still stopped.
LEMMA EndedStaysOver ==
    ASSUME JInv, NEW j \in Jobs, Ended(j),
           \A k \in Jobs : worker'[k] \in Writing => worker[k] \in Writing
    PROVE  /\ \A k \in Jobs : Stopped(k) => Stopped(k)'
           /\ \A k \in Jobs : /\ job'[k].source = job[k].source /\ job'[k].expired = job[k].expired
                              /\ job'[k].state \in Absent <=> job[k].state \in Absent
                              /\ job[k].state \notin Live => job'[k].state = job[k].state
                              /\ job[k].state \in Terminal => job'[k].state = job[k].state
  <1> USE KindsAreDistinct DEF Jobs, Derived
  <1>1. \A k \in Jobs : job[k].source = j /\ job[k].state \notin Absent => job'[j] = job[j]
    BY DEF Ended, JInv, Sourced, Live, Absent
  <1>2. \A k \in Jobs : Stopped(k) => Stopped(k)'
    BY <1>1 DEF Ended, Alone, Keeps, JInv, Stopped, Over, Ready, Writing, Live, Absent,
       Terminal, Steps, Sourced
  <1>3. \A k \in Jobs : /\ job'[k].source = job[k].source /\ job'[k].expired = job[k].expired
                        /\ job'[k].state \in Absent <=> job[k].state \in Absent
                        /\ job[k].state \notin Live => job'[k].state = job[k].state
                        /\ job[k].state \in Terminal => job'[k].state = job[k].state
    BY DEF Ended, Alone, Keeps, Live, Absent, Terminal
  <1> QED BY <1>2, <1>3

\* So a _finish in the middle of a cleanup does it no harm.
LEMMA EndedKeepsCleaning ==
    ASSUME JInv, NEW j \in Jobs, Ended(j),
           \A k \in Jobs : /\ worker'[k] \in Writing => worker[k] \in Writing
                           /\ worker'[k] = "claimed" => worker[k] = "claimed",
           \A k \in Jobs : creator[k] = "done" => creator'[k] = "done",
           UNCHANGED <<janitor, objects, reserved>>
    PROVE  Cleaning' /\ CleaningView' /\ CleaningAlone'
  <1> USE KindsAreDistinct DEF Jobs, Derived
  <1>1. \A k \in Jobs : /\ Stopped(k) => Stopped(k)'
                        /\ job'[k].source = job[k].source /\ job'[k].expired = job[k].expired
                        /\ job'[k].state \in Absent <=> job[k].state \in Absent
                        /\ job[k].state \notin Live => job'[k].state = job[k].state
                        /\ job[k].state \in Terminal => job'[k].state = job[k].state
    BY EndedStaysOver
  <1>2. Cleaning'
    <2> SUFFICES ASSUME janitor.step \in CleaningSteps, janitor.job # None
                 PROVE  Cleaning'
      BY DEF Cleaning
    <2>1. janitor.job \in Executions /\ Cleaning
      BY DEF JInv, Steps, CleaningSteps, ViewSteps
    <2> QED
      BY <2>1, <1>1 DEF Cleaning, ExportsOf, Live
  <1>3. CleaningView'
    BY <1>1 DEF JInv, Steps, CleaningView, ViewSteps, Absent, Terminal
  <1>4. CleaningAlone'
    BY <1>1 DEF JInv, Steps, CleaningAlone, Spent, AloneSteps, Absent, Live
  <1> QED BY <1>2, <1>3, <1>4

\* _finish ends a job, except that only the worker that writes can complete it.
LEMMA FinishEnds ==
    ASSUME JInv, NEW j \in Jobs, NEW owned \in BOOLEAN,
           NEW s \in {"completed", "failed", "cancelled"}, Finish(j, owned, s),
           s = "completed" => worker[j] = "finishing"
    PROVE  Ended(j) /\ (owned => job'[j].state \notin Live)
  <1>1. job \in [Jobs -> JobRecord]
    BY DEF JInv, TypeOK, JobRecord
  <1>2. /\ job' \in [Jobs -> JobRecord] /\ Alone(j) /\ Keeps(j)
        /\ IF CanFinish(j, owned, s) THEN job'[j].state = FinishState(j, s)
                                     ELSE job'[j] = job[j]
    BY <1>1, FinishEffect
  <1> QED
    BY <1>2 DEF Ended, CanFinish, FinishState, Terminal, Live

-----------------------------------------------------------------------------
(* The parts that a step does not touch.                                   *)

\* A part of the invariant holds after a step that leaves alone what it reads.
LEMMA Frame ==
    ASSUME JInv
    PROVE  /\ UNCHANGED <<job, objects, reserved, permits, dispatched, misled, request, place,
                        faults>> => TypeOK'
           /\ UNCHANGED <<worker, creator, janitor, asks>> => Steps'
           /\ UNCHANGED job => Sourced' /\ Tidied'
           /\ UNCHANGED <<job, worker, reserved, misled, objects>> => Worked'
           /\ UNCHANGED <<creator, job, reserved, misled, objects, worker>> => Created'
           /\ UNCHANGED <<job, reserved, misled>> => Reserved'
           /\ UNCHANGED <<janitor, job, worker, objects, reserved>> => Cleaning'
           /\ UNCHANGED <<janitor, job, worker, objects>> => CleaningView'
           /\ UNCHANGED <<janitor, job, worker, creator, objects>> => CleaningAlone'
           /\ UNCHANGED <<permits, worker>> => Permitted'
           /\ UNCHANGED <<objects, reserved, misled>> => ObjectsAreReserved'
           /\ UNCHANGED <<job, objects, reserved>> => CleanedIsEmpty'
           /\ UNCHANGED <<job, request, asks>> => OneCapture'
           /\ UNCHANGED <<job, place, objects, misled>> => CompletedIsReadable'
  <1>1. UNCHANGED <<worker, creator, janitor, asks>> => Steps'
    BY DEF JInv, Steps
  <1>2. UNCHANGED job => Sourced' /\ Tidied'
    BY DEF JInv, Sourced, Tidied
  <1>3. UNCHANGED <<job, worker, reserved, misled, objects>> => Worked'
    BY DEF JInv, Worked
  <1>4. UNCHANGED <<creator, job, reserved, misled, objects, worker>> => Created'
    BY DEF JInv, Created, Spent, Stopped, Over, Ready
  <1>5. UNCHANGED <<job, reserved, misled>> => Reserved'
    BY DEF JInv, Reserved, Ready
  <1>6. UNCHANGED <<janitor, job, worker, objects, reserved>> => Cleaning'
    BY DEF JInv, Cleaning, Stopped, Over, Ready, ExportsOf
  <1>7. UNCHANGED <<janitor, job, worker, objects>> => CleaningView'
    BY DEF JInv, CleaningView, Stopped, Over, Ready
  <1>8. UNCHANGED <<janitor, job, worker, creator, objects>> => CleaningAlone'
    BY DEF JInv, CleaningAlone, Spent, Stopped, Over, Ready
  <1>9. UNCHANGED <<permits, worker>> => Permitted'
    BY DEF JInv, Permitted
  <1>10. /\ UNCHANGED <<objects, reserved, misled>> => ObjectsAreReserved'
         /\ UNCHANGED <<job, objects, reserved>> => CleanedIsEmpty'
    BY DEF JInv, ObjectsAreReserved, CleanedIsEmpty
  <1>11. UNCHANGED <<job, request, asks>> => OneCapture'
    BY DEF JInv, OneCapture
  <1>12. UNCHANGED <<job, place, objects, misled>> => CompletedIsReadable'
    BY DEF JInv, CompletedIsReadable, Served, Ready, Admitted
  <1>13. UNCHANGED <<job, objects, reserved, permits, dispatched, misled, request, place,
                     faults>> => TypeOK'
    BY DEF JInv, TypeOK
  <1> QED
    BY <1>1, <1>2, <1>3, <1>4, <1>5, <1>6, <1>7, <1>8, <1>9, <1>10, <1>11, <1>12, <1>13

-----------------------------------------------------------------------------
(* Every action keeps JInv: one lemma per action, and in it one step per     *)
(* part of JInv that the action can disturb. First the calls that create     *)
(* jobs.                                                                     *)

LEMMA StartExecutionKeeps ==
    ASSUME NEW e \in Executions, JInv, StartExecution(e)
    PROVE  JInv'
  <1> USE KindsAreDistinct DEF StartExecution, Admitted, CanReserve, At, world, calm
  <1>1. TypeOK'
    BY DEF JInv, TypeOK, Jobs, States, Derived
  <1>2. Steps'
    BY DEF JInv, TypeOK, Steps, Jobs, States, WorkerSteps, CreatorSteps, JanitorRecord, Derived,
      ViewSteps, AloneSteps, Writing, JanitorSteps, CleaningSteps
  <1>3. Worked'
    BY DEF JInv, TypeOK, Worked, Jobs, States, Writing, Absent, Live, Derived, Terminal
  <1>4. Created'
    BY DEF JInv, TypeOK, Created, Jobs, States, Spent, Derived, Stopped, Live, Over, Writing,
      Ready
  <1>5. Reserved'
    BY DEF JInv, TypeOK, Reserved, Jobs, States, Live, Derived, Ready
  <1>6. Cleaning'
    BY DEF JInv, TypeOK, Cleaning, Created, Jobs, States, CleaningSteps, Stopped, Absent,
      ExportsOf, Spent, Derived, ViewSteps, Over, Writing, Live, Ready
  <1>7. CleaningAlone'
    BY DEF JInv, TypeOK, CleaningAlone, Jobs, States, AloneSteps, Spent, Live, Derived, Stopped,
      Over, Writing, Ready
  <1>8. ObjectsAreReserved'
    BY DEF JInv, TypeOK, ObjectsAreReserved, Jobs, States, Derived
  <1>9. CleanedIsEmpty'
    BY DEF JInv, TypeOK, CleanedIsEmpty, Created, Tidied, Jobs, States, Spent, Terminal, Absent,
      Derived, Stopped, Live, Over, Writing, Ready
  <1> QED
    BY <1>1, <1>2, <1>3, <1>4, <1>5, <1>6, <1>7, <1>8, <1>9, Frame DEF JInv

LEMMA StageSqlKeeps ==
    ASSUME NEW e \in Executions, JInv, StageSql(e)
    PROVE  JInv'
  <1> USE KindsAreDistinct, WorkloadAssumption DEF StageSql, At, Fault, world
  <1>1. TypeOK'
    BY DEF JInv, TypeOK, Jobs, States, Derived
  <1>2. Steps'
    BY DEF JInv, TypeOK, Steps, Jobs, States, WorkerSteps, CreatorSteps, JanitorRecord, Derived,
      ViewSteps, AloneSteps, Writing, JanitorSteps, CleaningSteps
  <1>3. Worked'
    BY DEF JInv, TypeOK, Worked, Created, Jobs, States, Writing, Absent, Live, Derived,
      Terminal, Spent, Stopped, Over, Ready
  <1>4. Created'
    BY DEF JInv, TypeOK, Created, Steps, Jobs, States, Spent, WorkerSteps, CreatorSteps,
      JanitorRecord, Derived, ViewSteps, AloneSteps, Stopped, Live, Writing, JanitorSteps, Over,
      CleaningSteps, Ready
  <1>5. Cleaning'
    BY DEF JInv, TypeOK, Cleaning, Steps, Created, Jobs, States, CleaningSteps, Stopped, Absent,
      ExportsOf, WorkerSteps, CreatorSteps, JanitorRecord, Derived, ViewSteps, AloneSteps,
      Spent, Over, Writing, JanitorSteps, Live, Ready
  <1>6. CleaningView'
    BY DEF JInv, TypeOK, CleaningView, Steps, Jobs, States, ViewSteps, Absent, Terminal,
      Stopped, WorkerSteps, CreatorSteps, JanitorRecord, Derived, AloneSteps, Over, Writing,
      JanitorSteps, Live, Ready, CleaningSteps
  <1>7. CleaningAlone'
    BY DEF JInv, TypeOK, CleaningAlone, Steps, Created, Jobs, States, AloneSteps, Spent, Live,
      WorkerSteps, CreatorSteps, JanitorRecord, Derived, ViewSteps, Stopped, Writing,
      JanitorSteps, Over, CleaningSteps, Ready
  <1>8. ObjectsAreReserved'
    BY DEF JInv, TypeOK, ObjectsAreReserved, Created, Jobs, States, Spent, Derived, Stopped,
      Live, Over, Writing, Ready
  <1>9. CleanedIsEmpty'
    BY DEF JInv, TypeOK, CleanedIsEmpty, Created, Tidied, Jobs, States, Spent, Terminal, Absent,
      Derived, Stopped, Live, Over, Writing, Ready
  <1>10. CompletedIsReadable'
    BY DEF JInv, TypeOK, CompletedIsReadable, Created, Jobs, States, Served, Spent, Derived,
      Ready, Admitted, Stopped, Live, Over, Writing
  <1> QED
    BY <1>1, <1>2, <1>3, <1>4, <1>5, <1>6, <1>7, <1>8, <1>9, <1>10, Frame DEF JInv

\* The row and its claim on the storage appear together, for a call that is not over.
LEMMA InsertExecutionKeeps ==
    ASSUME NEW e \in Executions, JInv, InsertExecution(e)
    PROVE  JInv'
  <1>1. job' \in [Jobs -> JobRecord] /\ Alone(e) /\ job'[e] \in {job[e], Queued(None)}
    BY NewRecords DEF InsertExecution, InsertedExecution, Alone, JInv, TypeOK, JobRecord, Jobs
  <1>2. job[e].state = "none" /\ worker[e] = "idle" /\ ~job[e].open /\ ~job[e].clean
    BY KindsAreDistinct DEF InsertExecution, JInv, Created, Worked, Tidied, Terminal, Jobs
  <1>3. /\ job'[e].state \in {"none", "queued"} /\ job'[e].source = None
        /\ ~job'[e].open /\ ~job'[e].clean /\ ~job'[e].expired
    BY <1>1, <1>2, NewRecords DEF JInv, Sourced, Tidied, Jobs, Absent
  <1>4. /\ reserved \subseteq reserved' /\ reserved' \subseteq reserved \cup {e}
        /\ UNCHANGED <<worker, objects, misled>>
    BY DEF InsertExecution, InsertedExecution
  <1>5. Worked'
    BY <1>1, <1>2, <1>3, <1>4, KindsAreDistinct
       DEF Alone, JInv, Worked, Jobs, Derived, Writing, Live, Absent, Terminal
  <1>6. CleanedIsEmpty'
    BY <1>1, <1>3, <1>4, KindsAreDistinct DEF Alone, JInv, CleanedIsEmpty, Jobs, Derived
  <1>7. Sourced'
    BY <1>1, <1>2, <1>3, <1>4, KindsAreDistinct DEF Alone, JInv, Sourced, Jobs, Derived, Absent
  <1>8. Tidied'
    BY <1>1, <1>3 DEF Alone, JInv, Tidied, Absent
  <1>9. TypeOK'
    BY <1>1, <1>4, WorkloadAssumption DEF InsertExecution, InsertedExecution, Fault, world,
       JInv, TypeOK, JobRecord, Steps, Jobs, Derived
  <1>10. CompletedIsReadable'
    BY <1>1, <1>2, <1>3, <1>4, KindsAreDistinct DEF Alone, InsertExecution, world, JInv,
       CompletedIsReadable, Served, Ready, Admitted, Sourced, Jobs, Derived, Absent
  <1>11. \A k \in Jobs : Stopped(k) /\ k # e => Stopped(k)'
    BY <1>1, <1>2, <1>3, <1>4, KindsAreDistinct
       DEF Alone, JInv, Stopped, Over, Ready, Sourced, Jobs, Derived, Absent
  <1>12. Cleaning'
    <2>1. UNCHANGED janitor /\ (janitor.step \in CleaningSteps /\ janitor.job # None =>
             janitor.job \in Executions \ {e} /\ Cleaning)
      BY <1>2 DEF InsertExecution, JInv, Steps, Cleaning, CleaningSteps, ViewSteps, Absent
    <2> QED
      BY <1>1, <1>3, <1>4, <1>11, <2>1, KindsAreDistinct
         DEF Alone, Cleaning, ExportsOf, Jobs, Derived, Absent
  <1> USE KindsAreDistinct, WorkloadAssumption DEF InsertExecution, CanInsert,
      InsertedExecution, At, Fault, world, Admitted, CanReserve, Queued, NoJob
  <1>13. Steps'
    BY SMTT(30) DEF JInv, TypeOK, Steps, Jobs, States, WorkerSteps, CreatorSteps, JanitorRecord, Derived,
      ViewSteps, AloneSteps, Writing, JanitorSteps, CleaningSteps
  <1>14. Created'
    <2>1. creator' \in [Jobs -> CreatorSteps] /\ creator'[e] \in {"inserted", "done", "drop"}
          /\ \A k \in Jobs \ {e} : creator'[k] = creator[k]
      BY DEF JInv, Steps, CreatorSteps, Jobs
    <2>2. creator'[e] = "drop" => UNCHANGED job
      BY DEF JInv, Steps, Jobs
    <2>3. \A k \in Jobs : Spent(k) /\ k # e => Spent(k)'
      BY <1>1, <1>4, <1>11 DEF Alone, Spent
    <2> QED
      BY <1>1, <1>2, <1>4, <2>1, <2>2, <2>3 DEF Alone, JInv, Created, Jobs
  <1>15. Reserved'
    <2>1. job'[e].state = "queued" => e \in reserved'
      BY <1>2
    <2>2. \A k \in Jobs \ {e} : job[k].state \in Live /\ k \in Derived /\ ~Ready(job[k].source)
             => ~Ready(job[k].source)'
      BY <1>1, <1>3 DEF Alone, JInv, Sourced, Ready, Jobs, Derived, Live, Absent
    <2> QED
      BY <1>1, <1>3, <1>4, <2>1, <2>2 DEF Alone, JInv, Reserved, Live
  <1>16. CleaningView'
    BY DEF JInv, TypeOK, CleaningView, Steps, Cleaning, Created, Jobs, States, ViewSteps,
      Absent, Terminal, Stopped, WorkerSteps, CreatorSteps, JanitorRecord, Derived, AloneSteps,
      CleaningSteps, ExportsOf, Spent, Over, Writing, JanitorSteps, Live, Ready
  <1>17. CleaningAlone'
    <2>1. UNCHANGED janitor /\ creator[e] = "staged" /\ job[e].state = "none"
      BY <1>2
    <2>2. \A k \in Jobs \ {e} : creator'[k] = creator[k]
      BY DEF JInv, Steps
    <2> HIDE DEF InsertExecution
    <2>3. janitor.step \in AloneSteps \cup {"exports"} => janitor.job \in Jobs \ {e}
      BY <2>1 DEF JInv, Steps, CleaningAlone, Jobs, Derived
    <2> QED
      BY <2>3, <1>1, <1>4, <1>11, <2>1, <2>2 DEF Alone, JInv, CleaningAlone, Spent, AloneSteps
  <1>18. ObjectsAreReserved'
    BY DEF JInv, TypeOK, ObjectsAreReserved, Jobs, States, Derived
  <1>19. OneCapture'
    BY DEF JInv, TypeOK, OneCapture, Steps, Jobs, States, WorkerSteps, CreatorSteps,
      JanitorRecord, Derived, ViewSteps, AloneSteps, Writing, JanitorSteps, CleaningSteps
  <1> QED
    BY <1>5, <1>6, <1>7, <1>8, <1>9, <1>10, <1>12, <1>13, <1>14, <1>15, <1>16, <1>17, <1>18,
      <1>19, Frame DEF JInv

LEMMA DropInputKeeps ==
    ASSUME NEW j \in Jobs, JInv, DropInput(j)
    PROVE  JInv'
  <1> USE KindsAreDistinct DEF DropInput, At, world, calm
  <1>1. TypeOK'
    BY DEF JInv, TypeOK, Jobs, States, Derived
  <1>2. Steps'
    BY DEF JInv, TypeOK, Steps, Jobs, States, WorkerSteps, CreatorSteps, JanitorRecord, Derived,
      ViewSteps, AloneSteps, Writing, JanitorSteps, CleaningSteps
  <1>3. Worked'
    BY DEF JInv, TypeOK, Worked, Created, Jobs, States, Writing, Absent, Live, Derived,
      Terminal, Spent, Stopped, Over, Ready
  <1>4. Created'
    BY DEF JInv, TypeOK, Created, Jobs, States, Spent, Derived, Stopped, Live, Over, Writing,
      Ready
  <1>5. Cleaning'
    BY DEF JInv, TypeOK, Cleaning, Jobs, States, CleaningSteps, Stopped, Absent, ExportsOf,
      Derived, ViewSteps, Over, Writing, Live, Ready
  <1>6. CleaningView'
    BY DEF JInv, TypeOK, CleaningView, Jobs, States, ViewSteps, Absent, Terminal, Stopped,
      Derived, Over, Writing, Live, Ready
  <1>7. CleaningAlone'
    BY DEF JInv, TypeOK, CleaningAlone, Jobs, States, AloneSteps, Spent, Live, Derived, Stopped,
      Over, Writing, Ready
  <1>8. ObjectsAreReserved'
    BY DEF JInv, TypeOK, ObjectsAreReserved, Jobs, States, Derived
  <1>9. CleanedIsEmpty'
    BY DEF JInv, TypeOK, CleanedIsEmpty, Jobs, States, Derived
  <1>10. CompletedIsReadable'
    BY DEF JInv, TypeOK, CompletedIsReadable, Created, Jobs, States, Served, Spent, Derived,
      Ready, Admitted, Stopped, Live, Over, Writing
  <1> QED
    BY <1>1, <1>2, <1>3, <1>4, <1>5, <1>6, <1>7, <1>8, <1>9, <1>10, Frame DEF JInv

\* The reservation given back is that of a job with no objects, unless its dispatch
\* took effect although the call was told that it failed.
LEMMA DropReservationKeeps ==
    ASSUME NEW j \in Jobs, JInv, DropReservation(j)
    PROVE  JInv'
  <1>1. job' \in [Jobs -> JobRecord] /\ Alone(j)
        /\ job'[j] = IF j \in Exports THEN CleanedExport(job[j]) ELSE job[j]
    BY CleanedRecords DEF DropReservation, Alone, JInv, TypeOK, JobRecord
  <1>2. job'[j].source = job[j].source /\ (job'[j].open => job[j].open)
        /\ job'[j].state \in {job[j].state, "expired"}
        /\ (job'[j].state # job[j].state => job[j].state \notin Absent)
    BY <1>1, CleanedRecords DEF JInv, TypeOK, JobRecord, Tidied, Absent
  <1>3. j \in Exports => Stopped(j)
    BY KindsAreDistinct DEF DropReservation, JInv, Created, Spent, Jobs, Derived
  <1>4. worker[j] \in Writing => job' = job /\ j \in misled
    BY <1>3, KindsAreDistinct DEF DropReservation, JInv, Created, Spent, Worked, Stopped,
       Jobs, Derived, Writing, Absent
  <1>8. worker[j] = "claimed" /\ j \in Exports => job[j].state # "running"
    BY KindsAreDistinct DEF DropReservation, JInv, Created, Spent, Worked, Jobs, Derived, Live
  <1>5. reserved' = reserved \ {j} /\ UNCHANGED <<worker, objects, misled>>
    BY DEF DropReservation, calm
  <1>6. Worked'
    BY <1>1, <1>2, <1>4, <1>5, <1>8, KindsAreDistinct
       DEF Alone, JInv, Worked, Writing, Live, Absent, Terminal
  <1>7. Sourced'
    BY <1>1, <1>2, <1>5, KindsAreDistinct DEF Alone, JInv, Sourced, Jobs, Derived, Absent
  <1>9. TypeOK'
    BY <1>1, <1>5 DEF DropReservation, world, calm, JInv, TypeOK, JobRecord
  <1> USE KindsAreDistinct DEF DropReservation, CleanedExport, At, world, calm
  <1>10. Steps'
    BY DEF JInv, TypeOK, Steps, Jobs, States, WorkerSteps, CreatorSteps, JanitorRecord, Derived,
      ViewSteps, AloneSteps, Writing, JanitorSteps, CleaningSteps
  <1>11. Created'
    BY DEF JInv, TypeOK, Created, Jobs, States, Spent, Derived, Stopped, Live, Over, Writing,
      Ready
  <1>12. Reserved'
    BY DEF JInv, TypeOK, Reserved, Steps, Created, Jobs, States, Live, Derived, Ready,
      WorkerSteps, CreatorSteps, JanitorRecord, ViewSteps, AloneSteps, Spent, Writing,
      JanitorSteps, Stopped, CleaningSteps, Over
  <1>13. Tidied'
    BY DEF JInv, TypeOK, Tidied, Jobs, States, Terminal, Absent, Derived
  <1>14. Cleaning'
    BY SMTT(30) DEF JInv, TypeOK, Cleaning, Created, Jobs, States, CleaningSteps, Stopped, Absent,
      ExportsOf, Spent, Derived, ViewSteps, Over, Writing, Live, Ready
  <1>15. CleaningView'
    BY SMTT(30) DEF JInv, TypeOK, CleaningView, Jobs, States, ViewSteps, Absent, Terminal, Stopped,
      Derived, Over, Writing, Live, Ready
  <1>16. CleaningAlone'
    BY DEF JInv, TypeOK, CleaningAlone, Steps, Jobs, States, AloneSteps, Spent, Live,
      WorkerSteps, CreatorSteps, JanitorRecord, Derived, ViewSteps, Stopped, Writing,
      JanitorSteps, Over, CleaningSteps, Ready
  <1>17. ObjectsAreReserved'
    BY DEF JInv, TypeOK, ObjectsAreReserved, Created, Jobs, States, Spent, Derived, Stopped,
      Live, Over, Writing, Ready
  <1>18. CleanedIsEmpty'
    BY DEF JInv, TypeOK, CleanedIsEmpty, Created, Jobs, States, Spent, Derived, Stopped, Live,
      Over, Writing, Ready
  <1>19. OneCapture'
    BY DEF JInv, TypeOK, OneCapture, Jobs, States, Derived
  <1>20. CompletedIsReadable'
    BY DEF JInv, TypeOK, CompletedIsReadable, Jobs, States, Served, Derived, Ready, Admitted
  <1> QED
    BY <1>6, <1>7, <1>9, <1>10, <1>11, <1>12, <1>13, <1>14, <1>15, <1>16, <1>17, <1>18, <1>19,
      <1>20, Frame DEF JInv

LEMMA DispatchKeeps ==
    ASSUME NEW j \in Jobs, JInv, Dispatch(j)
    PROVE  JInv'
  <1> USE KindsAreDistinct, WorkloadAssumption DEF Dispatch, At, calm, Fault, Mislead, world
  <1>1. TypeOK'
    BY DEF JInv, TypeOK, Jobs, States, Derived
  <1>2. Steps'
    BY DEF JInv, TypeOK, Steps, Jobs, States, WorkerSteps, CreatorSteps, JanitorRecord, Derived,
      ViewSteps, AloneSteps, Writing, JanitorSteps, CleaningSteps
  <1>3. Worked'
    BY DEF JInv, TypeOK, Worked, Jobs, States, Writing, Absent, Live, Derived, Terminal
  <1>4. Created'
    BY DEF JInv, TypeOK, Created, Steps, Jobs, States, Spent, WorkerSteps, CreatorSteps,
      JanitorRecord, Derived, ViewSteps, AloneSteps, Stopped, Live, Writing, JanitorSteps, Over,
      CleaningSteps, Ready
  <1>5. Reserved'
    BY DEF JInv, TypeOK, Reserved, Jobs, States, Live, Derived, Ready
  <1>6. CleaningAlone'
    BY DEF JInv, TypeOK, CleaningAlone, Steps, Jobs, States, AloneSteps, Spent, Live,
      WorkerSteps, CreatorSteps, JanitorRecord, Derived, ViewSteps, Stopped, Writing,
      JanitorSteps, Over, CleaningSteps, Ready
  <1>7. ObjectsAreReserved'
    BY DEF JInv, TypeOK, ObjectsAreReserved, Jobs, States, Derived
  <1>8. CompletedIsReadable'
    BY DEF JInv, TypeOK, CompletedIsReadable, Jobs, States, Served, Derived, Ready, Admitted
  <1> QED
    BY <1>1, <1>2, <1>3, <1>4, <1>5, <1>6, <1>7, <1>8, Frame DEF JInv

LEMMA FailDispatchKeeps ==
    ASSUME NEW j \in Jobs, JInv, FailDispatch(j)
    PROVE  JInv'
  <1>1. Ended(j)
    BY FinishEnds DEF FailDispatch
  <1>2. TypeOK'
    BY <1>1 DEF FailDispatch, world, calm, Ended, JInv, TypeOK, JobRecord
  <1>3. Cleaning' /\ CleaningView' /\ CleaningAlone'
    <2>1. /\ UNCHANGED <<janitor, objects, reserved, worker>>
          /\ \A k \in Jobs : creator[k] = "done" => creator'[k] = "done"
      BY DEF FailDispatch, At, JInv, Steps
    <2> QED
      BY <1>1, <2>1, EndedKeepsCleaning
  <1> USE KindsAreDistinct DEF FailDispatch, Finish, At, world, calm, CanFinish, FinishState,
      Live, Admitted, Derived, Ready
  <1>4. Steps'
    BY DEF JInv, TypeOK, Steps, Jobs, States, WorkerSteps, CreatorSteps, JanitorRecord,
      ViewSteps, AloneSteps, Writing, JanitorSteps, CleaningSteps
  <1>5. Sourced'
    BY DEF JInv, TypeOK, Sourced, Jobs, States, Absent
  <1>6. Worked'
    BY DEF JInv, TypeOK, Worked, Jobs, States, Writing, Absent, Terminal
  <1>7. Created'
    BY SMTT(30) DEF JInv, TypeOK, Created, Jobs, States, Spent, Stopped, Over, Writing
  <1>8. Reserved'
    BY SMTT(30) DEF JInv, TypeOK, Reserved, Jobs, States
  <1>9. Tidied'
    BY DEF JInv, TypeOK, Tidied, Jobs, States, Terminal, Absent
  <1>10. CleanedIsEmpty'
    BY DEF JInv, TypeOK, CleanedIsEmpty, Jobs, States
  <1>11. OneCapture'
    BY DEF JInv, TypeOK, OneCapture, Jobs, States
  <1>12. CompletedIsReadable'
    BY DEF JInv, TypeOK, CompletedIsReadable, Jobs, States, Served
  <1> QED
    BY <1>2, <1>3, <1>4, <1>5, <1>6, <1>7, <1>8, <1>9, <1>10, <1>11, <1>12, Frame DEF JInv

LEMMA AfterFailedDispatchKeeps ==
    ASSUME NEW j \in Jobs, JInv, AfterFailedDispatch(j)
    PROVE  JInv'
  <1> USE KindsAreDistinct DEF AfterFailedDispatch, Spared, world, calm, Live
  <1>1. Steps'
    BY DEF JInv, TypeOK, Steps, Jobs, States, WorkerSteps, CreatorSteps, JanitorRecord, Derived,
      ViewSteps, AloneSteps, Writing, JanitorSteps, CleaningSteps
  <1>2. Created'
    BY DEF JInv, TypeOK, Created, Worked, Jobs, States, Spent, Writing, Absent, Derived,
      Terminal, Stopped, Over, Ready
  <1>3. CleaningAlone'
    BY DEF JInv, TypeOK, CleaningAlone, Jobs, States, AloneSteps, Spent, Derived, Stopped, Over,
      Writing, Ready
  <1> QED
    BY <1>1, <1>2, <1>3, Frame DEF JInv

\* The source was complete and unexpired in the transaction that made the row.
LEMMA DeriveKeeps ==
    ASSUME NEW d \in Derived, NEW e \in Executions, JInv, Derive(d, e)
    PROVE  JInv'
  <1> USE KindsAreDistinct DEF Jobs, Derived
  <1>1. job' \in [Jobs -> JobRecord]
    BY NewRecords DEF Derive, JInv, TypeOK, JobRecord
  <1>2. TypeOK'
    BY <1>1 DEF Derive, world, calm, JInv, TypeOK, JobRecord
  <1> USE KindsAreDistinct DEF Derive, CanDerive, Queued, At, world, calm, Ready, Admitted,
      CanReserve, ExportsOf, Live, NoJob, Absent
  <1>3. Steps'
    BY DEF JInv, TypeOK, Steps, Jobs, States, WorkerSteps, CreatorSteps, JanitorRecord, Derived,
      ViewSteps, AloneSteps, Writing, JanitorSteps, CleaningSteps
  <1>4. Sourced'
    BY DEF JInv, TypeOK, Sourced, Jobs, States, Derived
  <1>5. Worked'
    BY DEF JInv, TypeOK, Worked, Jobs, States, Writing, Derived, Terminal
  <1>6. Created'
    BY DEF JInv, TypeOK, Created, Steps, Jobs, States, Spent, WorkerSteps, CreatorSteps,
      JanitorRecord, Derived, ViewSteps, AloneSteps, Stopped, Writing, JanitorSteps, Over,
      CleaningSteps
  <1>7. Reserved'
    BY DEF JInv, TypeOK, Reserved, Jobs, States, Derived
  <1>8. Tidied'
    BY DEF JInv, TypeOK, Tidied, Jobs, States, Terminal, Derived
  <1>9. Cleaning'
    BY DEF JInv, TypeOK, Cleaning, Jobs, States, CleaningSteps, Stopped, Derived, ViewSteps,
      Over, Writing
  <1>10. CleaningView'
    BY DEF JInv, TypeOK, CleaningView, Jobs, States, ViewSteps, Terminal, Stopped, Derived,
      Over, Writing
  <1>11. CleaningAlone'
    BY DEF JInv, TypeOK, CleaningAlone, Jobs, States, AloneSteps, Spent, Derived, Stopped, Over,
      Writing
  <1>12. ObjectsAreReserved'
    BY DEF JInv, TypeOK, ObjectsAreReserved, Jobs, States, Derived
  <1>13. CleanedIsEmpty'
    BY DEF JInv, TypeOK, CleanedIsEmpty, Jobs, States, Derived
  <1>14. OneCapture'
    BY DEF JInv, TypeOK, OneCapture, Jobs, States, Derived
  <1>15. CompletedIsReadable'
    BY DEF JInv, TypeOK, CompletedIsReadable, Jobs, States, Served, Derived
  <1> QED
    BY <1>2, <1>3, <1>4, <1>5, <1>6, <1>7, <1>8, <1>9, <1>10, <1>11, <1>12, <1>13, <1>14, <1>15,
      Frame DEF JInv

LEMMA CrashCreatorKeeps ==
    ASSUME NEW j \in Jobs, JInv, CrashCreator(j)
    PROVE  JInv'
  <1> USE KindsAreDistinct, WorkloadAssumption DEF CrashCreator, Fault, At, world
  <1>1. TypeOK'
    BY DEF JInv, TypeOK, Jobs, States, Derived
  <1>2. Steps'
    BY DEF JInv, TypeOK, Steps, Jobs, States, WorkerSteps, CreatorSteps, JanitorRecord, Derived,
      ViewSteps, AloneSteps, Writing, JanitorSteps, CleaningSteps
  <1>3. Created'
    BY DEF JInv, TypeOK, Created, Jobs, States, Spent, Derived, Stopped, Live, Over, Writing,
      Ready
  <1>4. CleaningAlone'
    BY DEF JInv, TypeOK, CleaningAlone, Jobs, States, AloneSteps, Spent, Live, Derived, Stopped,
      Over, Writing, Ready
  <1> QED
    BY <1>1, <1>2, <1>3, <1>4, Frame DEF JInv

-----------------------------------------------------------------------------
(* The workers.                                                            *)

\* A job is claimed once; one claimed too late ends instead.
LEMMA ClaimKeeps ==
    ASSUME NEW j \in Jobs, JInv, Claim(j)
    PROVE  JInv'
  <1>1. /\ Alone(j) /\ job[j].state = "queued"
        /\ job'[j].state \in {"expired", "failed", "running"}
        /\ job'[j].expired = job[j].expired /\ job'[j].source = job[j].source
        /\ UNCHANGED <<janitor, objects, reserved>>
    BY DEF Claim, JInv, TypeOK, Alone
  <1>2. \A k \in Jobs : worker'[k] \in Writing => worker[k] \in Writing
    BY DEF Claim, At, Writing, JInv, Steps
  <1>3. \A k \in Jobs : Stopped(k) => Stopped(k)'
    BY <1>1, <1>2, KindsAreDistinct
       DEF Alone, JInv, Stopped, Over, Ready, Sourced, Live, Absent, Jobs, Derived
  <1>4. Cleaning'
    <2>1. janitor.step \in CleaningSteps /\ janitor.job # None => janitor.job \in Executions /\ Cleaning
      BY DEF JInv, Steps, CleaningSteps, ViewSteps
    <2> QED
      BY <1>1, <1>3, <2>1 DEF Alone, Cleaning, ExportsOf, Jobs, Derived, Absent
  <1> USE KindsAreDistinct DEF Claim, At, world, calm
  <1>5. TypeOK'
    BY DEF JInv, TypeOK, Jobs, States, Derived
  <1>6. Steps'
    BY DEF JInv, TypeOK, Steps, Jobs, States, WorkerSteps, CreatorSteps, JanitorRecord, Derived,
      ViewSteps, AloneSteps, Writing, JanitorSteps, CleaningSteps
  <1>7. Sourced'
    BY DEF JInv, TypeOK, Sourced, Jobs, States, Absent, Derived
  <1>8. Worked'
    BY DEF JInv, TypeOK, Worked, Jobs, States, Writing, Absent, Live, Derived, Terminal
  <1>9. Created'
    BY DEF JInv, TypeOK, Created, Steps, Jobs, States, Spent, WorkerSteps, CreatorSteps,
      JanitorRecord, Derived, ViewSteps, AloneSteps, Stopped, Live, Writing, JanitorSteps, Over,
      CleaningSteps, Ready
  <1>10. Reserved'
    BY DEF JInv, TypeOK, Reserved, Jobs, States, Live, Derived, Ready
  <1>11. Tidied'
    BY DEF JInv, TypeOK, Tidied, Jobs, States, Terminal, Absent, Derived
  <1>12. CleaningView'
    BY DEF JInv, TypeOK, CleaningView, Steps, Jobs, States, ViewSteps, Absent, Terminal,
      Stopped, WorkerSteps, CreatorSteps, JanitorRecord, Derived, AloneSteps, Over, Writing,
      JanitorSteps, Live, Ready, CleaningSteps
  <1>13. CleaningAlone'
    BY SMTT(30) DEF JInv, TypeOK, CleaningAlone, Steps, Jobs, States, AloneSteps, Spent, Live,
      WorkerSteps, CreatorSteps, JanitorRecord, Derived, ViewSteps, Stopped, Writing,
      JanitorSteps, Over, CleaningSteps, Ready
  <1>14. CleanedIsEmpty'
    BY DEF JInv, TypeOK, CleanedIsEmpty, Jobs, States, Derived
  <1>15. Permitted'
    BY DEF JInv, TypeOK, Permitted, Steps, Jobs, States, Derived, WorkerSteps, CreatorSteps,
      JanitorRecord, ViewSteps, AloneSteps, Writing, JanitorSteps, CleaningSteps
  <1>16. OneCapture'
    BY DEF JInv, TypeOK, OneCapture, Jobs, States, Derived
  <1>17. CompletedIsReadable'
    BY DEF JInv, TypeOK, CompletedIsReadable, Jobs, States, Served, Derived, Ready, Admitted
  <1> QED
    BY <1>4, <1>5, <1>6, <1>7, <1>8, <1>9, <1>10, <1>11, <1>12, <1>13, <1>14, <1>15, <1>16,
      <1>17, Frame DEF JInv

LEMMA RaiseKeeps ==
    ASSUME NEW j \in Jobs, JInv, Raise(j)
    PROVE  JInv'
  <1> USE KindsAreDistinct DEF Raise, At, calm, WorkerOnly, world
  <1>1. TypeOK'
    BY DEF JInv, TypeOK, Jobs, States, Derived
  <1>2. Steps'
    BY DEF JInv, TypeOK, Steps, Jobs, States, WorkerSteps, CreatorSteps, JanitorRecord, Derived,
      ViewSteps, AloneSteps, Writing, JanitorSteps, CleaningSteps
  <1>3. Worked'
    BY DEF JInv, TypeOK, Worked, Jobs, States, Writing, Absent, Live, Derived, Terminal
  <1>4. Created'
    BY DEF JInv, TypeOK, Created, Jobs, States, Spent, Derived, Stopped, Live, Over, Writing,
      Ready
  <1>5. Cleaning'
    BY DEF JInv, TypeOK, Cleaning, Jobs, States, CleaningSteps, Stopped, Absent, ExportsOf,
      Derived, ViewSteps, Over, Writing, Live, Ready
  <1>6. CleaningView'
    BY DEF JInv, TypeOK, CleaningView, Jobs, States, ViewSteps, Absent, Terminal, Stopped,
      Derived, Over, Writing, Live, Ready
  <1>7. CleaningAlone'
    BY DEF JInv, TypeOK, CleaningAlone, Jobs, States, AloneSteps, Spent, Live, Derived, Stopped,
      Over, Writing, Ready
  <1>8. Permitted'
    BY DEF JInv, TypeOK, Permitted, Steps, Jobs, States, Derived, WorkerSteps, CreatorSteps,
      JanitorRecord, ViewSteps, AloneSteps, Writing, JanitorSteps, CleaningSteps
  <1> QED
    BY <1>1, <1>2, <1>3, <1>4, <1>5, <1>6, <1>7, <1>8, Frame DEF JInv

LEMMA TakeSqlKeeps ==
    ASSUME NEW j \in Jobs, JInv, TakeSql(j)
    PROVE  JInv'
  <1> USE KindsAreDistinct DEF TakeSql, At, calm, WorkerOnly, world
  <1>1. TypeOK'
    BY DEF JInv, TypeOK, Jobs, States, Derived
  <1>2. Steps'
    BY DEF JInv, TypeOK, Steps, Jobs, States, WorkerSteps, CreatorSteps, JanitorRecord, Derived,
      ViewSteps, AloneSteps, Writing, JanitorSteps, CleaningSteps
  <1>3. Worked'
    BY DEF JInv, TypeOK, Worked, Jobs, States, Writing, Absent, Live, Derived, Terminal
  <1>4. Created'
    BY DEF JInv, TypeOK, Created, Jobs, States, Spent, Derived, Stopped, Live, Over, Writing,
      Ready
  <1>5. Cleaning'
    BY DEF JInv, TypeOK, Cleaning, Jobs, States, CleaningSteps, Stopped, Absent, ExportsOf,
      Derived, ViewSteps, Over, Writing, Live, Ready
  <1>6. CleaningView'
    BY DEF JInv, TypeOK, CleaningView, Jobs, States, ViewSteps, Absent, Terminal, Stopped,
      Derived, Over, Writing, Live, Ready
  <1>7. CleaningAlone'
    BY DEF JInv, TypeOK, CleaningAlone, Jobs, States, AloneSteps, Spent, Live, Derived, Stopped,
      Over, Writing, Ready
  <1>8. ObjectsAreReserved'
    BY DEF JInv, TypeOK, ObjectsAreReserved, Jobs, States, Derived
  <1>9. CleanedIsEmpty'
    BY DEF JInv, TypeOK, CleanedIsEmpty, Jobs, States, Derived
  <1>10. Permitted'
    BY DEF JInv, TypeOK, Permitted, Steps, Jobs, States, Derived, WorkerSteps, CreatorSteps,
      JanitorRecord, ViewSteps, AloneSteps, Writing, JanitorSteps, CleaningSteps
  <1>11. CompletedIsReadable'
    BY DEF JInv, TypeOK, CompletedIsReadable, Jobs, States, Served, Derived, Ready, Admitted
  <1> QED
    BY <1>1, <1>2, <1>3, <1>4, <1>5, <1>6, <1>7, <1>8, <1>9, <1>10, <1>11, Frame DEF JInv

\* The worker may write from here on: the source is still ready and the job unclean.
LEMMA AuthorizeKeeps ==
    ASSUME NEW j \in Jobs, JInv, Authorize(j)
    PROVE  JInv'
  <1> USE KindsAreDistinct DEF Authorize, Authorized, At, calm, WorkerOnly, Admitted, Derived,
      Ready, world
  <1>1. Steps'
    BY DEF JInv, TypeOK, Steps, Jobs, States, WorkerSteps, CreatorSteps, JanitorRecord,
      ViewSteps, AloneSteps, Writing, JanitorSteps, CleaningSteps
  <1>2. Worked'
    <2>1. /\ job[j].state = "running" /\ ~job[j].clean
          /\ worker[j] = "claimed" => job[j].open /\ j \in reserved \cup misled
      BY DEF JInv, Worked, Tidied, Reserved, Terminal, Live
    <2>2. worker' \in [Jobs -> WorkerSteps] /\ \A k \in Jobs \ {j} : worker'[k] = worker[k]
      BY <1>1 DEF JInv, Steps
    <2>3. \/ worker[j] = "claimed" /\ worker'[j] \in {"authorized", "ready"}
          \/ worker[j] = "working" /\ worker'[j] = "writing"
          \/ worker[j] = "uploaded" /\ worker'[j] = "finishing"
      BY DEF JInv, Steps
    <2> QED
      BY <2>1, <2>2, <2>3 DEF JInv, Worked, Writing, Absent
  <1>3. Created'
    BY DEF JInv, TypeOK, Created, Steps, Jobs, States, Spent, WorkerSteps, CreatorSteps,
      JanitorRecord, ViewSteps, AloneSteps, Stopped, Live, Writing, JanitorSteps, Over,
      CleaningSteps
  <1>4. Cleaning'
    BY DEF JInv, TypeOK, Cleaning, Steps, Jobs, States, CleaningSteps, Stopped, Absent,
      ExportsOf, WorkerSteps, CreatorSteps, JanitorRecord, ViewSteps, AloneSteps, Over, Writing,
      JanitorSteps, Live
  <1>5. CleaningView'
    BY DEF JInv, TypeOK, CleaningView, Steps, Jobs, States, ViewSteps, Absent, Terminal,
      Stopped, WorkerSteps, CreatorSteps, JanitorRecord, AloneSteps, Over, Writing,
      JanitorSteps, Live, CleaningSteps
  <1>6. CleaningAlone'
    BY DEF JInv, TypeOK, CleaningAlone, Steps, Jobs, States, AloneSteps, Spent, Live,
      WorkerSteps, CreatorSteps, JanitorRecord, ViewSteps, Stopped, Writing, JanitorSteps, Over,
      CleaningSteps
  <1>7. Permitted'
    BY DEF JInv, TypeOK, Permitted, Steps, Jobs, States, WorkerSteps, CreatorSteps,
      JanitorRecord, ViewSteps, AloneSteps, Writing, JanitorSteps, CleaningSteps
  <1> QED
    BY <1>1, <1>2, <1>3, <1>4, <1>5, <1>6, <1>7, Frame DEF JInv

\* One permit for all derived jobs.
LEMMA TakePermitKeeps ==
    ASSUME NEW j \in Jobs, JInv, TakePermit(j)
    PROVE  JInv'
  <1> USE KindsAreDistinct DEF TakePermit, CanPermit, At, calm, WorkerOnly, Derived, world
  <1>1. TypeOK'
    BY DEF JInv, TypeOK, Jobs, States
  <1>2. Steps'
    BY DEF JInv, TypeOK, Steps, Jobs, States, WorkerSteps, CreatorSteps, JanitorRecord,
      ViewSteps, AloneSteps, Writing, JanitorSteps, CleaningSteps
  <1>3. Worked'
    BY DEF JInv, TypeOK, Worked, Jobs, States, Writing, Absent, Live, Terminal
  <1>4. Created'
    BY DEF JInv, TypeOK, Created, Jobs, States, Spent, Stopped, Live, Over, Writing, Ready
  <1>5. Cleaning'
    BY DEF JInv, TypeOK, Cleaning, Jobs, States, CleaningSteps, Stopped, Absent, ExportsOf,
      ViewSteps, Over, Writing, Live, Ready
  <1>6. CleaningView'
    BY DEF JInv, TypeOK, CleaningView, Jobs, States, ViewSteps, Absent, Terminal, Stopped, Over,
      Writing, Live, Ready
  <1>7. CleaningAlone'
    BY DEF JInv, TypeOK, CleaningAlone, Jobs, States, AloneSteps, Spent, Live, Stopped, Over,
      Writing, Ready
  <1>8. Permitted'
    BY DEF JInv, TypeOK, Permitted, Steps, Jobs, States, WorkerSteps, CreatorSteps,
      JanitorRecord, ViewSteps, AloneSteps, Writing, JanitorSteps, CleaningSteps
  <1> QED
    BY <1>1, <1>2, <1>3, <1>4, <1>5, <1>6, <1>7, <1>8, Frame DEF JInv

\* Objects appear only under a reservation, or for a job reported failed before.
LEMMA UploadKeeps ==
    ASSUME NEW j \in Jobs, JInv, Upload(j)
    PROVE  JInv'
  <1> USE KindsAreDistinct DEF Upload, At, calm, WorkerOnly, world
  <1>1. TypeOK'
    BY DEF JInv, TypeOK, Jobs, States, Derived
  <1>2. Steps'
    BY DEF JInv, TypeOK, Steps, Jobs, States, WorkerSteps, CreatorSteps, JanitorRecord, Derived,
      ViewSteps, AloneSteps, Writing, JanitorSteps, CleaningSteps
  <1>3. Worked'
    BY DEF JInv, TypeOK, Worked, Jobs, States, Writing, Absent, Live, Derived, Terminal
  <1>4. Created'
    BY DEF JInv, TypeOK, Created, Worked, Jobs, States, Spent, Writing, Absent, Live, Derived,
      Terminal, Stopped, Over, Ready
  <1>5. Cleaning'
    BY DEF JInv, TypeOK, Cleaning, Jobs, States, CleaningSteps, Stopped, Absent, ExportsOf,
      Derived, ViewSteps, Over, Writing, Live, Ready
  <1>6. CleaningView'
    BY DEF JInv, TypeOK, CleaningView, Jobs, States, ViewSteps, Absent, Terminal, Stopped,
      Derived, Over, Writing, Live, Ready
  <1>7. CleaningAlone'
    BY DEF JInv, TypeOK, CleaningAlone, Jobs, States, AloneSteps, Spent, Live, Derived, Stopped,
      Over, Writing, Ready
  <1>8. ObjectsAreReserved'
    BY DEF JInv, TypeOK, ObjectsAreReserved, Worked, Jobs, States, Writing, Absent, Live,
      Derived, Terminal
  <1>9. CleanedIsEmpty'
    BY DEF JInv, TypeOK, CleanedIsEmpty, Worked, Jobs, States, Writing, Absent, Live, Derived,
      Terminal
  <1>10. Permitted'
    BY DEF JInv, TypeOK, Permitted, Steps, Jobs, States, Derived, WorkerSteps, CreatorSteps,
      JanitorRecord, ViewSteps, AloneSteps, Writing, JanitorSteps, CleaningSteps
  <1>11. CompletedIsReadable'
    BY DEF JInv, TypeOK, CompletedIsReadable, Jobs, States, Served, Derived, Ready, Admitted
  <1> QED
    BY <1>1, <1>2, <1>3, <1>4, <1>5, <1>6, <1>7, <1>8, <1>9, <1>10, <1>11, Frame DEF JInv

\* Completion is admitted in one transaction: nothing ended the job or its source.
LEMMA CompleteKeeps ==
    ASSUME NEW j \in Jobs, JInv, Complete(j)
    PROVE  JInv'
  <1> USE KindsAreDistinct DEF Jobs, Derived
  <1>1. Ended(j) /\ job'[j].state \notin Live
    BY FinishEnds DEF Complete
  <1>2. /\ UNCHANGED <<objects, reserved, request, dispatched, creator, janitor, asks, place>>
        /\ misled \subseteq misled' /\ misled' \subseteq misled \cup ({j} \cap Executions)
        /\ permits' = permits \ {j} /\ faults' \in {faults, faults + 1} /\ faults' <= MaxFaults
    BY WorkloadAssumption DEF Complete, WorkerOnly, world, calm, Mislead, Fault, JInv, TypeOK
  <1>3. PICK w \in {"verify", "closing", "failing"} :
          /\ worker' = [worker EXCEPT ![j] = w]
          /\ w = "verify" => j \in Executions
          /\ w = "closing" => j \in Derived
          /\ w = "failing" /\ j \in Executions => j \in misled'
    BY DEF Complete, At, Mislead, Jobs
  <1>4. /\ worker[j] = "finishing" /\ job[j].open /\ ~job[j].clean
        /\ job[j].state \in Live \cup Terminal
        /\ j \in reserved \cup misled /\ ("result" \in objects[j] \/ j \in misled)
    BY DEF Complete, JInv, Worked, Writing, TypeOK, Live, Terminal, Absent, States
  <1>5. \A k \in Jobs : job[k].source = j /\ job[k].state \notin Absent => job'[j] = job[j]
    BY <1>1 DEF Ended, JInv, Absent, Sourced, Live, Jobs
  <1>6. TypeOK'
    BY <1>1, <1>2, WorkloadAssumption DEF Ended, JInv, TypeOK, JobRecord
  <1>7. Steps'
    BY <1>2, <1>3 DEF JInv, Steps, WorkerSteps, Writing
  <1>8. Sourced'
    BY <1>1, <1>5, <1>4 DEF Ended, Alone, Keeps, JInv, Sourced, TypeOK, Absent, Live, Terminal
  <1>9. Worked'
    BY <1>1, <1>2, <1>3, <1>4
       DEF Ended, Alone, Keeps, JInv, Worked, Steps, Writing, Live, Absent, Terminal
  <1>10. Reserved'
    BY <1>1, <1>2, <1>5 DEF Ended, Alone, Keeps, JInv, Reserved, Sourced, Ready, Live, Absent
  <1>11. Created'
    BY <1>1, <1>2, <1>3, <1>4, <1>5 DEF Ended, Alone, Keeps, JInv, Created, Spent, Steps,
       Stopped, Over, Ready, Writing, Live, Absent, Terminal, Sourced
  <1>12. Cleaning' /\ CleaningView' /\ CleaningAlone'
    <2>1. \A k \in Jobs : /\ worker'[k] \in Writing => worker[k] \in Writing
                          /\ worker'[k] = "claimed" => worker[k] = "claimed"
      BY <1>3 DEF Writing, JInv, Steps
    <2> QED
      BY <1>1, <1>2, <2>1, EndedKeepsCleaning
  <1>15. CompletedIsReadable'
    BY <1>1, <1>2, <1>4, <1>5 DEF Ended, Alone, Keeps, JInv, CompletedIsReadable, Served,
       Ready, Admitted, Sourced, Live, Absent
  <1> USE KindsAreDistinct, WorkloadAssumption DEF Complete, Finish, At, calm, Fault, Mislead,
      WorkerOnly, CanFinish, FinishState, world, Live, Admitted, Derived, Ready
  <1>16. Tidied'
    BY SMTT(30) DEF JInv, TypeOK, Tidied, Jobs, States, Terminal, Absent
  <1>17. ObjectsAreReserved'
    BY DEF JInv, TypeOK, ObjectsAreReserved, Jobs, States
  <1>18. CleanedIsEmpty'
    BY DEF JInv, TypeOK, CleanedIsEmpty, Jobs, States
  <1>19. Permitted'
    BY DEF JInv, TypeOK, Permitted, Steps, Jobs, States, WorkerSteps, CreatorSteps,
      JanitorRecord, ViewSteps, AloneSteps, Writing, JanitorSteps, CleaningSteps
  <1>20. OneCapture'
    BY DEF JInv, TypeOK, OneCapture, Jobs, States
  <1> QED
    BY <1>6, <1>7, <1>8, <1>9, <1>10, <1>11, <1>12, <1>15, <1>16, <1>17, <1>18, <1>19, <1>20,
      Frame DEF JInv

LEMMA VerifyKeeps ==
    ASSUME NEW j \in Jobs, JInv, Verify(j)
    PROVE  JInv'
  <1> USE KindsAreDistinct DEF Verify, At, calm, WorkerOnly, world
  <1>1. Steps'
    BY DEF JInv, TypeOK, Steps, Jobs, States, WorkerSteps, CreatorSteps, JanitorRecord, Derived,
      ViewSteps, AloneSteps, Writing, JanitorSteps, CleaningSteps
  <1>2. Worked'
    BY DEF JInv, TypeOK, Worked, Jobs, States, Writing, Absent, Live, Derived, Terminal
  <1>3. Created'
    BY DEF JInv, TypeOK, Created, Jobs, States, Spent, Derived, Stopped, Live, Over, Writing,
      Ready
  <1>4. Cleaning'
    BY DEF JInv, TypeOK, Cleaning, Jobs, States, CleaningSteps, Stopped, Absent, ExportsOf,
      Derived, ViewSteps, Over, Writing, Live, Ready
  <1>5. CleaningView'
    BY DEF JInv, TypeOK, CleaningView, Jobs, States, ViewSteps, Absent, Terminal, Stopped,
      Derived, Over, Writing, Live, Ready
  <1>6. CleaningAlone'
    BY DEF JInv, TypeOK, CleaningAlone, Jobs, States, AloneSteps, Spent, Live, Derived, Stopped,
      Over, Writing, Ready
  <1>7. Permitted'
    BY DEF JInv, TypeOK, Permitted, Steps, Jobs, States, Derived, WorkerSteps, CreatorSteps,
      JanitorRecord, ViewSteps, AloneSteps, Writing, JanitorSteps, CleaningSteps
  <1> QED
    BY <1>1, <1>2, <1>3, <1>4, <1>5, <1>6, <1>7, Frame DEF JInv

LEMMA FailKeeps ==
    ASSUME NEW j \in Jobs, JInv, Fail(j)
    PROVE  JInv'
  <1>1. Ended(j)
    BY FinishEnds DEF Fail
  <1>2. TypeOK'
    BY <1>1 DEF Fail, WorkerOnly, world, calm, Ended, JInv, TypeOK, JobRecord
  <1>3. Cleaning' /\ CleaningView' /\ CleaningAlone'
    <2>1. /\ UNCHANGED <<janitor, objects, reserved, creator>>
          /\ \A k \in Jobs : /\ worker'[k] \in Writing => worker[k] \in Writing
                             /\ worker'[k] = "claimed" => worker[k] = "claimed"
      BY DEF Fail, WorkerOnly, At, Writing, JInv, Steps
    <2> QED
      BY <1>1, <2>1, EndedKeepsCleaning
  <1> USE KindsAreDistinct DEF Fail, Finish, At, calm, WorkerOnly, CanFinish, FinishState,
      world, Live, Admitted, Derived, Ready
  <1>4. Steps'
    BY DEF JInv, TypeOK, Steps, Jobs, States, WorkerSteps, CreatorSteps, JanitorRecord,
      ViewSteps, AloneSteps, Writing, JanitorSteps, CleaningSteps
  <1>5. Sourced'
    BY DEF JInv, TypeOK, Sourced, Jobs, States, Absent
  <1>6. Worked'
    BY DEF JInv, TypeOK, Worked, Jobs, States, Writing, Absent, Terminal
  <1>7. Created'
    BY SMTT(30) DEF JInv, TypeOK, Created, Jobs, States, Spent, Stopped, Over, Writing
  <1>8. Reserved'
    BY SMTT(30) DEF JInv, TypeOK, Reserved, Jobs, States
  <1>9. Tidied'
    BY DEF JInv, TypeOK, Tidied, Jobs, States, Terminal, Absent
  <1>10. CleanedIsEmpty'
    BY DEF JInv, TypeOK, CleanedIsEmpty, Jobs, States
  <1>11. Permitted'
    BY DEF JInv, TypeOK, Permitted, Steps, Jobs, States, WorkerSteps, CreatorSteps,
      JanitorRecord, ViewSteps, AloneSteps, Writing, JanitorSteps, CleaningSteps
  <1>12. OneCapture'
    BY DEF JInv, TypeOK, OneCapture, Jobs, States
  <1>13. CompletedIsReadable'
    BY DEF JInv, TypeOK, CompletedIsReadable, Jobs, States, Served
  <1> QED
    BY <1>2, <1>3, <1>4, <1>5, <1>6, <1>7, <1>8, <1>9, <1>10, <1>11, <1>12, <1>13,
      Frame DEF JInv

LEMMA PurgeFailedKeeps ==
    ASSUME NEW j \in Jobs, JInv, PurgeFailed(j)
    PROVE  JInv'
  <1> USE KindsAreDistinct DEF PurgeFailed, At, calm, WorkerOnly, world
  <1>1. TypeOK'
    BY DEF JInv, TypeOK, Jobs, States, Derived
  <1>2. Steps'
    BY DEF JInv, TypeOK, Steps, Jobs, States, WorkerSteps, CreatorSteps, JanitorRecord, Derived,
      ViewSteps, AloneSteps, Writing, JanitorSteps, CleaningSteps
  <1>3. Worked'
    BY DEF JInv, TypeOK, Worked, Steps, Jobs, States, Writing, Absent, Live, Derived, Terminal,
      WorkerSteps, CreatorSteps, JanitorRecord, ViewSteps, AloneSteps, JanitorSteps,
      CleaningSteps
  <1>4. Created'
    BY DEF JInv, TypeOK, Created, Jobs, States, Spent, Derived, Stopped, Live, Over, Writing,
      Ready
  <1>5. Cleaning'
    BY DEF JInv, TypeOK, Cleaning, Jobs, States, CleaningSteps, Stopped, Absent, ExportsOf,
      Derived, ViewSteps, Over, Writing, Live, Ready
  <1>6. CleaningView'
    BY DEF JInv, TypeOK, CleaningView, Jobs, States, ViewSteps, Absent, Terminal, Stopped,
      Derived, Over, Writing, Live, Ready
  <1>7. CleaningAlone'
    BY DEF JInv, TypeOK, CleaningAlone, Jobs, States, AloneSteps, Spent, Live, Derived, Stopped,
      Over, Writing, Ready
  <1>8. ObjectsAreReserved'
    BY DEF JInv, TypeOK, ObjectsAreReserved, Jobs, States, Derived
  <1>9. CleanedIsEmpty'
    BY DEF JInv, TypeOK, CleanedIsEmpty, Jobs, States, Derived
  <1>10. Permitted'
    BY DEF JInv, TypeOK, Permitted, Steps, Jobs, States, Derived, WorkerSteps, CreatorSteps,
      JanitorRecord, ViewSteps, AloneSteps, Writing, JanitorSteps, CleaningSteps
  <1>11. CompletedIsReadable'
    BY DEF JInv, TypeOK, CompletedIsReadable, Steps, Worked, Jobs, States, Served, WorkerSteps,
      CreatorSteps, JanitorRecord, Derived, ViewSteps, AloneSteps, Writing, Absent, Live,
      Terminal, Ready, Admitted, JanitorSteps, CleaningSteps
  <1> QED
    BY <1>1, <1>2, <1>3, <1>4, <1>5, <1>6, <1>7, <1>8, <1>9, <1>10, <1>11, Frame DEF JInv

\* The storage is given back after the objects are gone.
LEMMA ReleaseFailedKeeps ==
    ASSUME NEW j \in Jobs, JInv, ReleaseFailed(j)
    PROVE  JInv'
  <1> USE KindsAreDistinct DEF Jobs, Derived
  <1>1. job' \in [Jobs -> JobRecord] /\ Alone(j)
        /\ job'[j] = IF j \in Exports THEN CleanedExport(job[j])
                     ELSE IF j \in Views THEN CleanedView(job[j]) ELSE job[j]
    BY CleanedRecords DEF ReleaseFailed, Alone, JInv, TypeOK, JobRecord
  <1>2. /\ job'[j].source = job[j].source /\ job'[j].state \in {job[j].state, "expired"}
        /\ job'[j].state # job[j].state => job[j].state \notin Absent
    BY <1>1, CleanedRecords DEF JInv, TypeOK, JobRecord, Tidied, Absent
  <1>3. TypeOK'
    BY <1>1 DEF ReleaseFailed, WorkerOnly, world, calm, JInv, TypeOK, JobRecord
  <1>4. Sourced'
    BY <1>1, <1>2 DEF Alone, JInv, Sourced, Absent
  <1> USE KindsAreDistinct DEF ReleaseFailed, CleanedExport, CleanedView, At, calm, WorkerOnly,
      world
  <1>5. Steps'
    BY DEF JInv, TypeOK, Steps, Jobs, States, WorkerSteps, CreatorSteps, JanitorRecord, Derived,
      ViewSteps, AloneSteps, Writing, JanitorSteps, CleaningSteps
  <1>6. Worked'
    BY DEF JInv, TypeOK, Worked, Jobs, States, Writing, Absent, Live, Derived, Terminal
  <1>7. Created'
    BY DEF JInv, TypeOK, Created, Worked, Jobs, States, Spent, Writing, Absent, Live, Derived,
      Terminal, Stopped, Over, Ready
  <1>8. Reserved'
    BY DEF JInv, TypeOK, Reserved, Worked, Jobs, States, Live, Derived, Ready, Writing, Absent,
      Terminal
  <1>9. Tidied'
    BY DEF JInv, TypeOK, Tidied, Worked, Jobs, States, Terminal, Absent, Writing, Live, Derived
  <1>10. Cleaning'
    BY SMTT(30) DEF JInv, TypeOK, Cleaning, Worked, Jobs, States, CleaningSteps, Stopped, Absent,
      ExportsOf, Writing, Live, Derived, Terminal, ViewSteps, Over, Ready
  <1>11. CleaningView'
    BY SMTT(30) DEF JInv, TypeOK, CleaningView, Jobs, States, ViewSteps, Absent, Terminal, Stopped,
      Derived, Over, Writing, Live, Ready
  <1>12. CleaningAlone'
    BY SMTT(30) DEF JInv, TypeOK, CleaningAlone, Steps, Jobs, States, AloneSteps, Spent, Live,
      WorkerSteps, CreatorSteps, JanitorRecord, Derived, ViewSteps, Stopped, Writing,
      JanitorSteps, Over, CleaningSteps, Ready
  <1>13. ObjectsAreReserved'
    BY DEF JInv, TypeOK, ObjectsAreReserved, Worked, Jobs, States, Writing, Absent, Live,
      Derived, Terminal
  <1>14. CleanedIsEmpty'
    BY DEF JInv, TypeOK, CleanedIsEmpty, Worked, Jobs, States, Writing, Absent, Live, Derived,
      Terminal
  <1>15. Permitted'
    BY DEF JInv, TypeOK, Permitted, Steps, Jobs, States, Derived, WorkerSteps, CreatorSteps,
      JanitorRecord, ViewSteps, AloneSteps, Writing, JanitorSteps, CleaningSteps
  <1>16. OneCapture'
    BY DEF JInv, TypeOK, OneCapture, Jobs, States, Derived
  <1>17. CompletedIsReadable'
    BY DEF JInv, TypeOK, CompletedIsReadable, Jobs, States, Served, Derived, Ready, Admitted
  <1> QED
    BY <1>3, <1>4, <1>5, <1>6, <1>7, <1>8, <1>9, <1>10, <1>11, <1>12, <1>13, <1>14, <1>15,
      <1>16, <1>17, Frame DEF JInv

\* After the worker closed its job, it writes no more.
LEMMA CloseKeeps ==
    ASSUME NEW j \in Jobs, JInv, Close(j)
    PROVE  JInv'
  <1>1. job' \in [Jobs -> JobRecord]
    <2> DEFINE s == IF /\ j \in Views /\ job[j].state \in Terminal \ {"purged"} /\ job[j].expired
                    THEN "expired" ELSE job[j].state
    <2>1. job' = [job EXCEPT ![j] = [job[j] EXCEPT !.open = FALSE, !.state = s]]
      BY Zenon DEF Close
    <2>2. job \in [Jobs -> JobRecord] /\ s \in States
      BY DEF JInv, TypeOK, JobRecord, States
    <2> HIDE DEF s
    <2> QED
      BY <2>1, <2>2, Records
  <1>2. TypeOK'
    BY <1>1 DEF Close, WorkerOnly, world, calm, JInv, TypeOK, JobRecord
  <1> USE KindsAreDistinct DEF Close, Terminal, At, calm, WorkerOnly, world
  <1>3. Steps'
    BY DEF JInv, TypeOK, Steps, Jobs, States, WorkerSteps, CreatorSteps, JanitorRecord, Derived,
      ViewSteps, AloneSteps, Writing, JanitorSteps, CleaningSteps
  <1>4. Sourced'
    BY DEF JInv, TypeOK, Sourced, Jobs, States, Absent, Derived
  <1>5. Worked'
    BY DEF JInv, TypeOK, Worked, Jobs, States, Writing, Absent, Live, Derived
  <1>6. Created'
    BY DEF JInv, TypeOK, Created, Jobs, States, Spent, Derived, Stopped, Live, Over, Writing,
      Ready
  <1>7. Reserved'
    BY DEF JInv, TypeOK, Reserved, Jobs, States, Live, Derived, Ready
  <1>8. Tidied'
    BY DEF JInv, TypeOK, Tidied, Jobs, States, Absent, Derived
  <1>9. Cleaning'
    BY SMTT(30) DEF JInv, TypeOK, Cleaning, Steps, Jobs, States, CleaningSteps, Stopped, Absent,
      ExportsOf, WorkerSteps, CreatorSteps, JanitorRecord, Derived, ViewSteps, AloneSteps, Over,
      Writing, JanitorSteps, Live, Ready
  <1>10. CleaningView'
    BY SMTT(30) DEF JInv, TypeOK, CleaningView, Steps, Jobs, States, ViewSteps, Absent, Stopped,
      WorkerSteps, CreatorSteps, JanitorRecord, Derived, AloneSteps, Over, Writing,
      JanitorSteps, Live, Ready, CleaningSteps
  <1>11. CleaningAlone'
    BY DEF JInv, TypeOK, CleaningAlone, Steps, Jobs, States, AloneSteps, Spent, Live,
      WorkerSteps, CreatorSteps, JanitorRecord, Derived, ViewSteps, Stopped, Writing,
      JanitorSteps, Over, CleaningSteps, Ready
  <1>12. CleanedIsEmpty'
    BY DEF JInv, TypeOK, CleanedIsEmpty, Jobs, States, Derived
  <1>13. Permitted'
    BY DEF JInv, TypeOK, Permitted, Steps, Jobs, States, Derived, WorkerSteps, CreatorSteps,
      JanitorRecord, ViewSteps, AloneSteps, Writing, JanitorSteps, CleaningSteps
  <1>14. OneCapture'
    BY DEF JInv, TypeOK, OneCapture, Jobs, States, Derived
  <1>15. CompletedIsReadable'
    BY DEF JInv, TypeOK, CompletedIsReadable, Jobs, States, Served, Derived, Ready, Admitted
  <1> QED
    BY <1>2, <1>3, <1>4, <1>5, <1>6, <1>7, <1>8, <1>9, <1>10, <1>11, <1>12, <1>13, <1>14, <1>15,
      Frame DEF JInv

LEMMA CrashWorkerKeeps ==
    ASSUME NEW j \in Jobs, JInv, CrashWorker(j)
    PROVE  JInv'
  <1> USE KindsAreDistinct, WorkloadAssumption DEF CrashWorker, Fault, At, WorkerOnly, world
  <1>1. TypeOK'
    BY DEF JInv, TypeOK, Jobs, States, Derived
  <1>2. Steps'
    BY DEF JInv, TypeOK, Steps, Jobs, States, WorkerSteps, CreatorSteps, JanitorRecord, Derived,
      ViewSteps, AloneSteps, Writing, JanitorSteps, CleaningSteps
  <1>3. Worked'
    BY DEF JInv, TypeOK, Worked, Jobs, States, Writing, Absent, Live, Derived, Terminal
  <1>4. Created'
    BY DEF JInv, TypeOK, Created, Jobs, States, Spent, Derived, Stopped, Live, Over, Writing,
      Ready
  <1>5. Cleaning'
    BY DEF JInv, TypeOK, Cleaning, Jobs, States, CleaningSteps, Stopped, Absent, ExportsOf,
      Derived, ViewSteps, Over, Writing, Live, Ready
  <1>6. CleaningView'
    BY DEF JInv, TypeOK, CleaningView, Jobs, States, ViewSteps, Absent, Terminal, Stopped,
      Derived, Over, Writing, Live, Ready
  <1>7. CleaningAlone'
    BY DEF JInv, TypeOK, CleaningAlone, Jobs, States, AloneSteps, Spent, Live, Derived, Stopped,
      Over, Writing, Ready
  <1>8. Permitted'
    BY DEF JInv, TypeOK, Permitted, Steps, Jobs, States, Derived, WorkerSteps, CreatorSteps,
      JanitorRecord, ViewSteps, AloneSteps, Writing, JanitorSteps, CleaningSteps
  <1> QED
    BY <1>1, <1>2, <1>3, <1>4, <1>5, <1>6, <1>7, <1>8, Frame DEF JInv

-----------------------------------------------------------------------------
(* The janitor.                                                            *)

LEMMA CleanupUnownedKeeps ==
    ASSUME NEW e \in Executions, JInv, CleanupUnowned(e)
    PROVE  JInv'
  <1>1. janitor' \in JanitorRecord /\ janitor'.step = "erase" /\ janitor'.job = e
    BY StartsJob DEF CleanupUnowned, JanitorSteps, AloneSteps, Jobs
  <1>2. Steps'
    BY <1>1 DEF CleanupUnowned, Quiet, JanitorOnly, JInv, Steps, ViewSteps, AloneSteps
  <1> USE KindsAreDistinct DEF CleanupUnowned, Idle, Absent, Quiet, JanitorOnly
  <1>3. Cleaning'
    BY DEF JInv, TypeOK, Cleaning, Jobs, States, CleaningSteps, Stopped, ExportsOf, Derived,
      ViewSteps, Over, Writing, Live, Ready
  <1>4. CleaningView'
    BY DEF JInv, TypeOK, CleaningView, Jobs, States, ViewSteps, Terminal, Stopped, Derived,
      Over, Writing, Live, Ready
  <1>5. CleaningAlone'
    BY DEF JInv, TypeOK, CleaningAlone, Worked, Jobs, States, AloneSteps, Spent, Live, Writing,
      Derived, Terminal, Stopped, Over, Ready
  <1> QED
    BY <1>2, <1>3, <1>4, <1>5, Frame DEF JInv

LEMMA CleanupKeeps ==
    ASSUME NEW e \in Executions, JInv, Cleanup(e)
    PROVE  JInv'
  <1>1. janitor' \in JanitorRecord /\ janitor'.step = "expire" /\ janitor'.job = e
    BY StartsJob DEF Cleanup, JanitorSteps, CleaningSteps, Jobs
  <1>2. Steps'
    BY <1>1 DEF Cleanup, Quiet, JanitorOnly, JInv, Steps, ViewSteps, AloneSteps
  <1> USE KindsAreDistinct DEF Cleanup, Idle, CanClean, Quiet, Absent, Terminal, ExportsOf,
      JanitorOnly
  <1>3. Cleaning'
    BY DEF JInv, TypeOK, Cleaning, Worked, Jobs, States, CleaningSteps, Stopped, Writing, Live,
      Derived, ViewSteps, Over, Ready
  <1>4. CleaningView'
    BY DEF JInv, TypeOK, CleaningView, Jobs, States, ViewSteps, Stopped, Derived, Over, Writing,
      Live, Ready
  <1>5. CleaningAlone'
    BY DEF JInv, TypeOK, CleaningAlone, Jobs, States, AloneSteps, Spent, Live, Derived, Stopped,
      Over, Writing, Ready
  <1> QED
    BY <1>2, <1>3, <1>4, <1>5, Frame DEF JInv

\* The janitor cleans only an execution whose worker can no longer write.
LEMMA ExpireExecutionKeeps ==
    ASSUME JInv, ExpireExecution
    PROVE  JInv'
  <1> USE KindsAreDistinct DEF ExpireExecution, Go, Quiet, JanitorOnly
  <1>1. TypeOK'
    BY DEF JInv, TypeOK, Steps, Jobs, States, WorkerSteps, CreatorSteps, JanitorRecord, Derived,
      ViewSteps, AloneSteps, Writing, JanitorSteps, CleaningSteps
  <1>2. Steps'
    BY DEF JInv, TypeOK, Steps, Jobs, States, WorkerSteps, CreatorSteps, JanitorRecord, Derived,
      ViewSteps, AloneSteps, Writing, JanitorSteps, CleaningSteps
  <1>3. Sourced'
    BY DEF JInv, TypeOK, Sourced, Steps, Jobs, States, Absent, WorkerSteps, CreatorSteps,
      JanitorRecord, Derived, ViewSteps, AloneSteps, Writing, JanitorSteps, CleaningSteps
  <1>4. Worked'
    BY DEF JInv, TypeOK, Worked, Jobs, States, Writing, Absent, Live, Derived, Terminal
  <1>5. Created'
    BY DEF JInv, TypeOK, Created, Steps, Cleaning, Jobs, States, Spent, WorkerSteps,
      CreatorSteps, JanitorRecord, Derived, ViewSteps, AloneSteps, CleaningSteps, Stopped,
      Absent, ExportsOf, Live, Writing, JanitorSteps, Over, Ready
  <1>6. Reserved'
    BY DEF JInv, TypeOK, Reserved, Jobs, States, Live, Derived, Ready
  <1>7. Tidied'
    BY DEF JInv, TypeOK, Tidied, Jobs, States, Terminal, Absent, Derived
  <1>8. Cleaning'
    BY DEF JInv, TypeOK, Cleaning, Steps, Jobs, States, CleaningSteps, Stopped, Absent,
      ExportsOf, WorkerSteps, CreatorSteps, JanitorRecord, Derived, ViewSteps, AloneSteps, Over,
      Writing, JanitorSteps, Live, Ready
  <1>9. CleaningView'
    BY DEF JInv, TypeOK, CleaningView, Jobs, States, ViewSteps, Absent, Terminal, Stopped,
      Derived, Over, Writing, Live, Ready
  <1>10. CleaningAlone'
    BY DEF JInv, TypeOK, CleaningAlone, Jobs, States, AloneSteps, Spent, Live, Derived, Stopped,
      Over, Writing, Ready
  <1>11. CleanedIsEmpty'
    BY DEF JInv, TypeOK, CleanedIsEmpty, Jobs, States, Derived
  <1>12. OneCapture'
    BY DEF JInv, TypeOK, OneCapture, Steps, Cleaning, Jobs, States, WorkerSteps, CreatorSteps,
      JanitorRecord, Derived, ViewSteps, AloneSteps, CleaningSteps, Stopped, Absent, ExportsOf,
      Writing, JanitorSteps, Over, Live, Ready
  <1>13. CompletedIsReadable'
    BY DEF JInv, TypeOK, CompletedIsReadable, Jobs, States, Served, Derived, Ready, Admitted
  <1> QED
    BY <1>1, <1>2, <1>3, <1>4, <1>5, <1>6, <1>7, <1>8, <1>9, <1>10, <1>11, <1>12, <1>13,
      Frame DEF JInv

LEMMA PurgeWorkspaceIdKeeps ==
    ASSUME JInv, PurgeWorkspaceId
    PROVE  JInv'
  <1>1. janitor' \in JanitorRecord /\ janitor'.step = "next"
    BY StartsIdle DEF PurgeWorkspaceId
  <1>2. Steps'
    BY <1>1 DEF PurgeWorkspaceId, Quiet, JanitorOnly, JInv, Steps, ViewSteps, AloneSteps
  <1> USE KindsAreDistinct DEF PurgeWorkspaceId, Idle, JanitorOnly
  <1>3. TypeOK'
    BY DEF JInv, TypeOK, Jobs, States, Derived
  <1>4. Cleaning'
    BY DEF JInv, TypeOK, Cleaning, Jobs, States, CleaningSteps, Stopped, Absent, ExportsOf,
      Derived, ViewSteps, Over, Writing, Live, Ready
  <1>5. CleaningView'
    BY DEF JInv, TypeOK, CleaningView, Jobs, States, ViewSteps, Absent, Terminal, Stopped,
      Derived, Over, Writing, Live, Ready
  <1>6. CleaningAlone'
    BY DEF JInv, TypeOK, CleaningAlone, Jobs, States, AloneSteps, Spent, Live, Derived, Stopped,
      Over, Writing, Ready
  <1>7. CompletedIsReadable'
    BY DEF JInv, TypeOK, CompletedIsReadable, Jobs, States, Served, Derived, Ready, Admitted
  <1> QED
    BY <1>2, <1>3, <1>4, <1>5, <1>6, <1>7, Frame DEF JInv

\* From the expiry on, no export or view of the execution can complete.
LEMMA InvalidateExecutionKeeps ==
    ASSUME NEW e \in Executions, JInv, InvalidateExecution(e)
    PROVE  JInv'
  <1>1. janitor' \in JanitorRecord /\ janitor'.step = "exports" /\ janitor'.job = e
    <2>1. "exports" \in JanitorSteps /\ janitor \in JanitorRecord /\ e \in Jobs
      BY DEF JanitorSteps, JInv, Steps, Jobs
    <2>2. janitor' = [janitor EXCEPT !.step = "exports", !.job = e]
      BY DEF InvalidateExecution
    <2>3. [janitor EXCEPT !.step = "exports", !.job = e] \in JanitorRecord
      BY <2>1, Zenon DEF JanitorRecord
    <2> QED
      BY <2>1, <2>2, <2>3 DEF JanitorRecord
  <1>2. Steps'
    BY <1>1 DEF InvalidateExecution, Quiet, JanitorOnly, JInv, Steps, ViewSteps, AloneSteps
  <1> USE KindsAreDistinct DEF InvalidateExecution, Uncleaned, Quiet, Absent, JanitorOnly
  <1>3. TypeOK'
    BY DEF JInv, TypeOK, Jobs, States, Derived
  <1>4. Sourced'
    BY DEF JInv, TypeOK, Sourced, Jobs, States, Derived
  <1>5. Worked'
    BY DEF JInv, TypeOK, Worked, Jobs, States, Writing, Live, Derived, Terminal
  <1>6. Created'
    BY DEF JInv, TypeOK, Created, Jobs, States, Spent, Derived, Stopped, Live, Over, Writing,
      Ready
  <1>7. Reserved'
    BY DEF JInv, TypeOK, Reserved, Jobs, States, Live, Derived, Ready
  <1>8. Tidied'
    BY DEF JInv, TypeOK, Tidied, Jobs, States, Terminal, Derived
  <1>9. Cleaning'
    BY DEF JInv, TypeOK, Cleaning, Jobs, States, CleaningSteps, Stopped, ExportsOf, Derived,
      ViewSteps, Over, Writing, Live, Ready
  <1>10. CleaningView'
    BY DEF JInv, TypeOK, CleaningView, Jobs, States, ViewSteps, Terminal, Stopped, Derived,
      Over, Writing, Live, Ready
  <1>11. CleaningAlone'
    BY DEF JInv, TypeOK, CleaningAlone, Jobs, States, AloneSteps, Spent, Live, Derived, Stopped,
      Over, Writing, Ready
  <1>12. CleanedIsEmpty'
    BY DEF JInv, TypeOK, CleanedIsEmpty, Jobs, States, Derived
  <1>13. OneCapture'
    BY DEF JInv, TypeOK, OneCapture, Jobs, States, Derived
  <1>14. CompletedIsReadable'
    BY DEF JInv, TypeOK, CompletedIsReadable, Jobs, States, Served, Derived, Ready, Admitted
  <1> QED
    BY <1>2, <1>3, <1>4, <1>5, <1>6, <1>7, <1>8, <1>9, <1>10, <1>11, <1>12, <1>13, <1>14,
      Frame DEF JInv

\* The exports of a purged execution stop with it.
LEMMA InvalidateExportsKeeps ==
    ASSUME JInv, InvalidateExports
    PROVE  JInv'
  <1> USE KindsAreDistinct DEF Jobs, Derived
  <1> DEFINE e == janitor.job
  <1>1. /\ janitor.step = "exports" /\ e \in Executions /\ job[e].state = "purged"
    BY DEF InvalidateExports, JInv, Steps, CleaningAlone
  <1>2. UNCHANGED <<worker, creator, objects, reserved, asks>>
    BY DEF InvalidateExports, Quiet, JanitorOnly
  <1>3. /\ \A k \in Jobs : /\ job'[k].source = job[k].source /\ job'[k].expired = job[k].expired
                           /\ job'[k].open = job[k].open /\ job'[k].clean = job[k].clean
                           /\ job'[k].state = IF k \in ExportsOf(e) THEN "purged" ELSE job[k].state
    BY DEF InvalidateExports, JInv, TypeOK
  <1>4. \/ janitor' = Idle
        \/ /\ janitor' = [janitor EXCEPT !.step = "views"]
           /\ ~job[e].open /\ \A x \in ExportsOf(e) : ~job[x].open
    BY DEF InvalidateExports, Go
  <1>5. /\ janitor' \in JanitorRecord
        /\ \/ janitor'.step = "idle"
           \/ /\ janitor'.step = "views" /\ janitor'.job = e
              /\ ~job[e].open /\ \A x \in ExportsOf(e) : ~job[x].open
    <2>1. janitor \in JanitorRecord
      BY DEF JInv, Steps
    <2>2. "views" \in JanitorSteps
      BY DEF JanitorSteps, CleaningSteps
    <2>3. [janitor EXCEPT !.step = "views"] \in JanitorRecord
      BY <2>1, <2>2, Zenon DEF JanitorRecord
    <2>4. Idle \in JanitorRecord
      BY DEF Idle, JanitorRecord, JanitorSteps
    <2>5. Idle.step = "idle"
      BY DEF Idle
    <2>6. [janitor EXCEPT !.step = "views"].step = "views" /\ [janitor EXCEPT !.step = "views"].job = e
      BY <2>1 DEF JanitorRecord
    <2> QED
      BY <1>4, <2>3, <2>4, <2>5, <2>6
  <1>6. Steps'
    BY <1>1, <1>2, <1>5 DEF JInv, Steps, ViewSteps, AloneSteps
  <1>7. CleaningView' /\ CleaningAlone'
    BY <1>5 DEF CleaningView, CleaningAlone, ViewSteps, AloneSteps
  <1>8. Cleaning'
    <2>0. CASE janitor'.step = "idle"
      BY <2>0 DEF Cleaning, CleaningSteps, ViewSteps
    <2>00. CASE janitor'.step = "views"
      <3>1. janitor'.job = e /\ ~job[e].open /\ \A x \in ExportsOf(e) : ~job[x].open
        BY <2>00, <1>5
      <3>2. e \notin ExportsOf(e)
        BY <1>1 DEF ExportsOf
      <3>3. job'[e].state = "purged" /\ job'[e].open = job[e].open
        BY <1>1, <1>3, <3>2
      <3>4. Stopped(e)'
        BY <1>1, <1>2, <3>1, <3>3 DEF JInv, Worked, Stopped, Over, Live
      <3>5. \A x \in Exports : job'[x].source = e /\ job'[x].state \notin Absent => x \in ExportsOf(e)
        BY <1>3 DEF ExportsOf
      <3>6. \A x \in ExportsOf(e) : Stopped(x)'
        BY <1>2, <1>3, <3>1 DEF JInv, Worked, Stopped, Over, Live, ExportsOf
      <3> QED
        BY <3>1, <3>3, <3>4, <3>5, <3>6, <2>00 DEF Cleaning, ExportsOf, CleaningSteps, Absent
    <2> QED BY <2>0, <2>00, <1>5
  <1> USE KindsAreDistinct DEF InvalidateExports, Jobs, ExportsOf, Idle, Go, Quiet, Derived,
      Absent, JanitorOnly
  <1>9. TypeOK'
    BY DEF JInv, TypeOK, States
  <1>10. Sourced'
    BY DEF JInv, TypeOK, Sourced, States
  <1>11. Worked'
    BY DEF JInv, TypeOK, Worked, States, Writing, Live, Terminal
  <1>12. Created'
    BY DEF JInv, TypeOK, Created, States, Spent, Stopped, Live, Over, Writing, Ready
  <1>13. Reserved'
    BY DEF JInv, TypeOK, Reserved, States, Live, Ready
  <1>14. Tidied'
    BY DEF JInv, TypeOK, Tidied, States, Terminal
  <1>15. CleanedIsEmpty'
    BY DEF JInv, TypeOK, CleanedIsEmpty, States
  <1>16. OneCapture'
    BY DEF JInv, TypeOK, OneCapture, States
  <1>17. CompletedIsReadable'
    BY DEF JInv, TypeOK, CompletedIsReadable, States, Served, Ready, Admitted
  <1> QED
    BY <1>6, <1>7, <1>8, <1>9, <1>10, <1>11, <1>12, <1>13, <1>14, <1>15, <1>16, <1>17,
      Frame DEF JInv

LEMMA TombstoneKeeps ==
    ASSUME JInv, Tombstone
    PROVE  JInv'
  <1> USE KindsAreDistinct DEF Tombstone, Uncleaned, Idle, JanitorOnly, Absent
  <1>1. TypeOK'
    BY DEF JInv, TypeOK, Jobs, States, Derived
  <1>2. Steps'
    BY DEF JInv, TypeOK, Steps, Jobs, States, WorkerSteps, CreatorSteps, JanitorRecord, Derived,
      ViewSteps, AloneSteps, Writing, JanitorSteps, CleaningSteps
  <1>3. Cleaning'
    BY DEF JInv, TypeOK, Cleaning, Jobs, States, CleaningSteps, Stopped, ExportsOf, Derived,
      ViewSteps, Over, Writing, Live, Ready
  <1>4. CleaningView'
    BY DEF JInv, TypeOK, CleaningView, Jobs, States, ViewSteps, Terminal, Stopped, Derived,
      Over, Writing, Live, Ready
  <1>5. CleaningAlone'
    BY DEF JInv, TypeOK, CleaningAlone, Jobs, States, AloneSteps, Spent, Live, Derived, Stopped,
      Over, Writing, Ready
  <1>6. CompletedIsReadable'
    BY DEF JInv, TypeOK, CompletedIsReadable, Jobs, States, Served, Derived, Ready, Admitted
  <1> QED
    BY <1>1, <1>2, <1>3, <1>4, <1>5, <1>6, Frame DEF JInv

LEMMA NextViewKeeps ==
    ASSUME JInv, NextView
    PROVE  JInv'
  <1> USE KindsAreDistinct DEF Jobs, Derived
  <1>1. UNCHANGED <<job, objects, reserved, permits, request, dispatched, creator, worker,
                    asks, place, misled, faults>>
    BY DEF NextView, Quiet, JanitorOnly
  <1>2. /\ janitor.step = "views" /\ janitor.job \in Executions /\ Cleaning
        /\ Stopped(janitor.job) /\ job[janitor.job].state \in {"expired", "purged"}
    BY DEF NextView, JInv, Steps, Cleaning, CleaningSteps
  <1>3. ASSUME janitor' = [janitor EXCEPT !.step = "purge"]
        PROVE  Steps' /\ Cleaning' /\ CleaningView' /\ CleaningAlone'
    <2>1. /\ janitor'.step = "purge" /\ janitor'.job = janitor.job /\ janitor' \in JanitorRecord
      BY <1>3 DEF JInv, Steps, JanitorRecord, JanitorSteps, CleaningSteps
    <2>2. Steps'
      BY <1>1, <1>2, <2>1 DEF JInv, Steps, ViewSteps, AloneSteps
    <2>3. Cleaning'
      BY <1>1, <1>2, <2>1 DEF Cleaning, Stopped, Over, Ready, ExportsOf, CleaningSteps
    <2>4. CleaningView' /\ CleaningAlone'
      BY <2>1 DEF CleaningView, CleaningAlone, ViewSteps, AloneSteps
    <2> QED
      BY <2>2, <2>3, <2>4
  <1>4. ASSUME \E v \in {w \in ViewsOf(janitor.job) : ~job[w].clean} :
                  janitor' = [janitor EXCEPT !.step = "view", !.view = v, !.seen = job[v].open]
        PROVE  Steps' /\ Cleaning' /\ CleaningView' /\ CleaningAlone'
    <2>1. PICK v \in Views : /\ v \in ViewsOf(janitor.job)
                              /\ janitor' = [janitor EXCEPT !.step = "view", !.view = v, !.seen = job[v].open]
      BY <1>4 DEF ViewsOf
    <2>2. /\ janitor'.step = "view" /\ janitor'.job = janitor.job /\ janitor'.view = v
           /\ janitor'.seen = job[v].open
      BY <2>1 DEF JInv, Steps, JanitorRecord
    <2>8. "view" \in JanitorSteps /\ janitor \in JanitorRecord /\ job[v].open \in BOOLEAN
      BY DEF JanitorSteps, CleaningSteps, ViewSteps, JInv, Steps, TypeOK
    <2>5. janitor' \in JanitorRecord
      BY <2>1, <2>8, Zenon DEF JanitorRecord
    <2>3. Steps'
      BY <1>1, <1>2, <2>2, <2>5 DEF JInv, Steps, ViewSteps, AloneSteps
    <2>4. Cleaning'
      BY <1>1, <1>2, <2>2 DEF Cleaning, Stopped, Over, Ready, ExportsOf, CleaningSteps,
         ViewSteps
    <2>6. CleaningView'
      BY <1>1, <1>2, <2>1, <2>2
         DEF JInv, CleaningView, ViewsOf, ViewSteps, Stopped, Over, Ready, Worked, Writing
    <2>7. CleaningAlone'
      BY <2>2 DEF CleaningAlone, AloneSteps
    <2> QED
      BY <2>3, <2>4, <2>6, <2>7
  <1>5. Steps' /\ Cleaning' /\ CleaningView' /\ CleaningAlone'
    BY <1>3, <1>4 DEF NextView, Go
  <1> USE KindsAreDistinct DEF NextView, ViewsOf, Go, Quiet, Absent, JanitorOnly
  <1> QED
    BY <1>5, Frame DEF JInv

LEMMA CleanupViewKeeps ==
    ASSUME NEW v \in Views, JInv, CleanupView(v)
    PROVE  JInv'
  <1>1. janitor' \in JanitorRecord /\ janitor'.step = "view" /\ janitor'.view = v /\ janitor'.job = None
    <2>1. "view" \in JanitorSteps /\ job[v].open \in BOOLEAN
      BY DEF JanitorSteps, CleaningSteps, ViewSteps, JInv, TypeOK, Jobs, Derived
    <2>2. [Idle EXCEPT !.step = "view", !.view = v, !.seen = job[v].open] \in JanitorRecord
      BY <2>1, StartsIdle, Zenon DEF JanitorRecord
    <2>3. janitor' = [Idle EXCEPT !.step = "view", !.view = v, !.seen = job[v].open]
      BY DEF CleanupView
    <2> QED
      BY <2>2, <2>3 DEF Idle
  <1>2. Steps'
    BY <1>1 DEF CleanupView, Quiet, JanitorOnly, JInv, Steps, ViewSteps, AloneSteps
  <1> USE KindsAreDistinct DEF CleanupView, Idle, Absent, Terminal, Quiet, JanitorOnly
  <1>3. Cleaning'
    BY DEF JInv, TypeOK, Cleaning, Jobs, States, CleaningSteps, Stopped, ExportsOf, Derived,
      ViewSteps, Over, Writing, Live, Ready
  <1>4. CleaningView'
    BY DEF JInv, TypeOK, CleaningView, Worked, Jobs, States, ViewSteps, Stopped, Writing, Live,
      Derived, Over, Ready
  <1>5. CleaningAlone'
    BY DEF JInv, TypeOK, CleaningAlone, Jobs, States, AloneSteps, Spent, Live, Derived, Stopped,
      Over, Writing, Ready
  <1> QED
    BY <1>2, <1>3, <1>4, <1>5, Frame DEF JInv

\* A view is erased only after it was seen closed and can come to nothing.
LEMMA InvalidateViewKeeps ==
    ASSUME JInv, InvalidateView
    PROVE  JInv'
  <1> USE KindsAreDistinct DEF Jobs, Derived
  <1> DEFINE v == janitor.view
  <1>1. /\ janitor.step = "view" /\ v \in Views /\ janitor \in JanitorRecord
        /\ job[v].state \notin Absent /\ (~janitor.seen => Stopped(v))
        /\ (janitor.job # None => job[v].source = janitor.job)
        /\ janitor.job \in Executions \cup {None}
        /\ (janitor.job = None => job[v].state \in Terminal \/ job[v].expired)
    BY DEF InvalidateView, JInv, Steps, CleaningView, ViewSteps
  <1>2. UNCHANGED <<worker, creator, objects, reserved, asks>>
    BY DEF InvalidateView, Quiet, JanitorOnly
  <1>3. /\ Alone(v) /\ job'[v].source = job[v].source /\ job'[v].expired = job[v].expired
        /\ job'[v].state = IF janitor.job # None \/ job[v].state = "purged" THEN "purged"
                           ELSE IF job[v].expired THEN "expired" ELSE job[v].state
    BY <1>1 DEF InvalidateView, JInv, TypeOK, Alone
  <1>4. /\ janitor' \in JanitorRecord
        /\ \/ janitor' = Idle
           \/ ~janitor.seen /\ janitor'.step = "purge_view" /\ janitor'.job = janitor.job /\ janitor'.view = v
    <2>1. janitor' = Idle \/ (~janitor.seen /\ janitor' = [janitor EXCEPT !.step = "purge_view"])
      BY DEF InvalidateView, Go
    <2>2. "purge_view" \in JanitorSteps
      BY DEF JanitorSteps, CleaningSteps, ViewSteps
    <2>3. [janitor EXCEPT !.step = "purge_view"] \in JanitorRecord
      BY <1>1, <2>2, Zenon DEF JanitorRecord
    <2>4. Idle \in JanitorRecord
      BY DEF Idle, JanitorRecord, JanitorSteps
    <2> QED
      BY <1>1, <2>1, <2>3, <2>4 DEF JanitorRecord
  <1>5. Steps'
    BY <1>1, <1>2, <1>4 DEF JInv, Steps, ViewSteps, AloneSteps, Idle
  <1>6. CleaningView'
    <2>1. CASE janitor' = Idle
      BY <2>1 DEF CleaningView, ViewSteps, Idle
    <2>2. CASE janitor' # Idle
      <3>1. ~janitor.seen /\ janitor'.step = "purge_view" /\ janitor'.job = janitor.job /\ janitor'.view = v /\ Stopped(v)
        BY <2>2, <1>4, <1>1
      <3>2. Stopped(v)'
        BY <1>1, <1>2, <1>3, <3>1 DEF Alone, Stopped, Over, Ready, Live, JInv, Sourced
      <3>3. job'[v].state \in Terminal
        BY <1>1, <1>3 DEF Terminal
      <3> QED
        BY <1>1, <1>2, <1>3, <3>1, <3>2, <3>3 DEF CleaningView, ViewSteps, Terminal, Absent
    <2> QED BY <2>1, <2>2
  <1> USE KindsAreDistinct DEF InvalidateView, Absent, Idle, Go, Quiet, JanitorOnly
  <1>7. TypeOK'
    BY DEF JInv, TypeOK, Steps, Jobs, States, WorkerSteps, CreatorSteps, JanitorRecord, Derived,
      ViewSteps, AloneSteps, Writing, JanitorSteps, CleaningSteps
  <1>8. Sourced'
    BY DEF JInv, TypeOK, Sourced, Jobs, States, Derived
  <1>9. Worked'
    BY DEF JInv, TypeOK, Worked, Jobs, States, Writing, Live, Derived, Terminal
  <1>10. Created'
    BY DEF JInv, TypeOK, Created, Jobs, States, Spent, Derived, Stopped, Live, Over, Writing,
      Ready
  <1>11. Reserved'
    BY DEF JInv, TypeOK, Reserved, Jobs, States, Live, Derived, Ready
  <1>12. Tidied'
    BY DEF JInv, TypeOK, Tidied, Jobs, States, Terminal, Derived
  <1>13. Cleaning'
    BY SMTT(30) DEF JInv, TypeOK, Cleaning, Steps, Jobs, States, CleaningSteps, Stopped, ExportsOf,
      WorkerSteps, CreatorSteps, JanitorRecord, Derived, ViewSteps, AloneSteps, Over, Writing,
      JanitorSteps, Live, Ready
  <1>14. CleaningAlone'
    BY DEF JInv, TypeOK, CleaningAlone, Steps, Jobs, States, AloneSteps, Spent, Live,
      WorkerSteps, CreatorSteps, JanitorRecord, Derived, ViewSteps, Stopped, Writing,
      JanitorSteps, Over, CleaningSteps, Ready
  <1>15. CleanedIsEmpty'
    BY DEF JInv, TypeOK, CleanedIsEmpty, Jobs, States, Derived
  <1>16. OneCapture'
    BY DEF JInv, TypeOK, OneCapture, Jobs, States, Derived
  <1>17. CompletedIsReadable'
    BY DEF JInv, TypeOK, CompletedIsReadable, Jobs, States, Served, Derived, Ready, Admitted
  <1> QED
    BY <1>5, <1>6, <1>7, <1>8, <1>9, <1>10, <1>11, <1>12, <1>13, <1>14, <1>15, <1>16, <1>17,
      Frame DEF JInv

LEMMA PurgeViewKeeps ==
    ASSUME JInv, PurgeView
    PROVE  JInv'
  <1> USE KindsAreDistinct DEF PurgeView, Go, Quiet, JanitorOnly
  <1>1. TypeOK'
    BY DEF JInv, TypeOK, Steps, Jobs, States, WorkerSteps, CreatorSteps, JanitorRecord, Derived,
      ViewSteps, AloneSteps, Writing, JanitorSteps, CleaningSteps
  <1>2. Steps'
    BY DEF JInv, TypeOK, Steps, Jobs, States, WorkerSteps, CreatorSteps, JanitorRecord, Derived,
      ViewSteps, AloneSteps, Writing, JanitorSteps, CleaningSteps
  <1>3. Worked'
    BY DEF JInv, TypeOK, Worked, Steps, CleaningView, Jobs, States, Writing, Absent, Live,
      Derived, Terminal, WorkerSteps, CreatorSteps, JanitorRecord, ViewSteps, AloneSteps,
      Stopped, JanitorSteps, Over, CleaningSteps, Ready
  <1>4. Created'
    BY DEF JInv, TypeOK, Created, Jobs, States, Spent, Derived, Stopped, Live, Over, Writing,
      Ready
  <1>5. Cleaning'
    BY DEF JInv, TypeOK, Cleaning, Jobs, States, CleaningSteps, Stopped, Absent, ExportsOf,
      Derived, ViewSteps, Over, Writing, Live, Ready
  <1>6. CleaningView'
    BY DEF JInv, TypeOK, CleaningView, Steps, Jobs, States, ViewSteps, Absent, Terminal,
      Stopped, WorkerSteps, CreatorSteps, JanitorRecord, Derived, AloneSteps, Over, Writing,
      JanitorSteps, Live, Ready, CleaningSteps
  <1>7. CleaningAlone'
    BY DEF JInv, TypeOK, CleaningAlone, Jobs, States, AloneSteps, Spent, Live, Derived, Stopped,
      Over, Writing, Ready
  <1>8. ObjectsAreReserved'
    BY DEF JInv, TypeOK, ObjectsAreReserved, Jobs, States, Derived
  <1>9. CleanedIsEmpty'
    BY DEF JInv, TypeOK, CleanedIsEmpty, Jobs, States, Derived
  <1>10. CompletedIsReadable'
    BY DEF JInv, TypeOK, CompletedIsReadable, Steps, CleaningView, Jobs, States, Served,
      WorkerSteps, CreatorSteps, JanitorRecord, Derived, ViewSteps, AloneSteps, Absent,
      Terminal, Stopped, Ready, Admitted, Writing, JanitorSteps, Over, CleaningSteps, Live
  <1> QED
    BY <1>1, <1>2, <1>3, <1>4, <1>5, <1>6, <1>7, <1>8, <1>9, <1>10, Frame DEF JInv

\* The view is marked clean after its objects are gone.
LEMMA ReleaseViewKeeps ==
    ASSUME JInv, ReleaseView
    PROVE  JInv'
  <1> USE KindsAreDistinct DEF Jobs, Derived
  <1> DEFINE v == janitor.view
  <1>1. /\ janitor.step = "release_view" /\ v \in Views /\ janitor \in JanitorRecord
        /\ janitor.job \in Executions \cup {None} /\ Stopped(v) /\ job[v].state \in Terminal /\ objects[v] = {}
    BY DEF ReleaseView, JInv, Steps, CleaningView, ViewSteps
  <1>2. UNCHANGED <<worker, creator, objects, asks, misled, permits, request, dispatched,
                    place, faults>> /\ reserved' = reserved \ {v}
    BY DEF ReleaseView, Quiet, JanitorOnly
  <1>3. job' \in [Jobs -> JobRecord] /\ Alone(v) /\ job'[v] = CleanedView(job[v])
    BY <1>1, CleanedRecords DEF ReleaseView, Alone, JInv, TypeOK, JobRecord, Terminal, Absent
  <1>4. /\ job'[v].state = job[v].state /\ job'[v].source = job[v].source /\ job'[v].clean /\ job'[v].open = job[v].open
    BY <1>1, <1>3, CleanedRecords DEF JInv, TypeOK, JobRecord
  <1>5. /\ janitor' \in JanitorRecord
        /\ \/ janitor'.step = "idle"
           \/ janitor'.step = "views" /\ janitor.job # None /\ janitor'.job = janitor.job
    <2>1. Idle \in JanitorRecord /\ Idle.step = "idle"
      BY DEF Idle, JanitorRecord, JanitorSteps
    <2>2. "views" \in JanitorSteps
      BY DEF JanitorSteps, CleaningSteps
    <2> DEFINE r == [janitor EXCEPT !.step = "views", !.view = None, !.seen = FALSE]
    <2>3. r \in JanitorRecord
      BY <1>1, <2>2, Zenon DEF JanitorRecord
    <2>4. r.step = "views" /\ r.job = janitor.job
      BY <1>1 DEF JanitorRecord
    <2>5. janitor' = IF janitor.job = None THEN Idle ELSE r
      BY Zenon DEF ReleaseView
    <2> QED BY <2>1, <2>3, <2>4, <2>5
  <1>6. Steps'
    BY <1>1, <1>2, <1>5 DEF JInv, Steps, ViewSteps, AloneSteps
  <1>7. TypeOK'
    BY <1>2, <1>3 DEF JInv, TypeOK, JobRecord
  <1>8. Tidied'
    BY <1>1, <1>3, <1>4 DEF JInv, Tidied, Alone, Terminal, Absent
  <1>9. Cleaning'
    <2>1. CASE janitor'.step = "idle"
      BY <2>1 DEF Cleaning, CleaningSteps, ViewSteps
    <2>2. CASE janitor'.step = "views"
      <3>1. janitor.job \in Executions /\ janitor'.job = janitor.job /\ Cleaning
        BY <1>1, <1>5, <2>2 DEF JInv
      <3>2. \A k \in Executions \cup Exports : job'[k] = job[k] /\ worker'[k] = worker[k]
        BY <1>1, <1>2, <1>3 DEF Alone
      <3> QED
        BY <1>1, <2>2, <3>1, <3>2 DEF Cleaning, CleaningSteps, ViewSteps, Stopped, Over,
           Ready, ExportsOf, JInv, Sourced
    <2> QED BY <1>5, <2>1, <2>2
  <1> USE KindsAreDistinct DEF ReleaseView, Absent, CleanedView, Idle, Quiet, JanitorOnly
  <1>10. Sourced'
    BY DEF JInv, TypeOK, Sourced, Jobs, States, Derived
  <1>11. Worked'
    BY DEF JInv, TypeOK, Worked, Steps, CleaningView, Jobs, States, Writing, Live, Derived,
      Terminal, WorkerSteps, CreatorSteps, JanitorRecord, ViewSteps, AloneSteps, Stopped,
      JanitorSteps, Over, CleaningSteps, Ready
  <1>12. Created'
    BY DEF JInv, TypeOK, Created, Steps, Jobs, States, Spent, WorkerSteps, CreatorSteps,
      JanitorRecord, Derived, ViewSteps, AloneSteps, Stopped, Live, Writing, JanitorSteps, Over,
      CleaningSteps, Ready
  <1>13. Reserved'
    BY DEF JInv, TypeOK, Reserved, Steps, CleaningView, Jobs, States, Live, Derived, Ready,
      WorkerSteps, CreatorSteps, JanitorRecord, ViewSteps, AloneSteps, Terminal, Stopped,
      Writing, JanitorSteps, Over, CleaningSteps
  <1>14. CleaningView'
    BY DEF JInv, TypeOK, CleaningView, Jobs, States, ViewSteps, Terminal, Stopped, Derived,
      Over, Writing, Live, Ready
  <1>15. CleaningAlone'
    BY DEF JInv, TypeOK, CleaningAlone, Jobs, States, AloneSteps, Spent, Live, Derived, Stopped,
      Over, Writing, Ready
  <1>16. ObjectsAreReserved'
    BY DEF JInv, TypeOK, ObjectsAreReserved, Steps, CleaningView, Jobs, States, WorkerSteps,
      CreatorSteps, JanitorRecord, Derived, ViewSteps, AloneSteps, Terminal, Stopped, Writing,
      JanitorSteps, Over, CleaningSteps, Live, Ready
  <1>17. CleanedIsEmpty'
    BY DEF JInv, TypeOK, CleanedIsEmpty, Steps, CleaningView, Jobs, States, WorkerSteps,
      CreatorSteps, JanitorRecord, Derived, ViewSteps, AloneSteps, Terminal, Stopped, Writing,
      JanitorSteps, Over, CleaningSteps, Live, Ready
  <1>18. OneCapture'
    BY DEF JInv, TypeOK, OneCapture, Jobs, States, Derived
  <1>19. CompletedIsReadable'
    BY DEF JInv, TypeOK, CompletedIsReadable, Jobs, States, Served, Derived, Ready, Admitted
  <1> QED
    BY <1>6, <1>7, <1>8, <1>9, <1>10, <1>11, <1>12, <1>13, <1>14, <1>15, <1>16, <1>17, <1>18,
      <1>19, Frame DEF JInv

LEMMA PurgeExecutionKeeps ==
    ASSUME JInv, PurgeExecution
    PROVE  JInv'
  <1> USE KindsAreDistinct DEF PurgeExecution, Jobs, ExportsOf, Go, Quiet, Derived, Absent,
      JanitorOnly
  <1>1. TypeOK'
    BY DEF JInv, TypeOK, States
  <1>2. Steps'
    BY DEF JInv, TypeOK, Steps, States, WorkerSteps, CreatorSteps, JanitorRecord, ViewSteps,
      AloneSteps, Writing, JanitorSteps, CleaningSteps
  <1>3. Worked'
    BY DEF JInv, TypeOK, Worked, Steps, Cleaning, States, Writing, Live, Terminal, WorkerSteps,
      CreatorSteps, JanitorRecord, ViewSteps, AloneSteps, CleaningSteps, Stopped, JanitorSteps,
      Over, Ready
  <1>4. Created'
    BY DEF JInv, TypeOK, Created, States, Spent, Stopped, Live, Over, Writing, Ready
  <1>5. Cleaning'
    BY DEF JInv, TypeOK, Cleaning, Steps, States, CleaningSteps, Stopped, WorkerSteps,
      CreatorSteps, JanitorRecord, ViewSteps, AloneSteps, Over, Writing, JanitorSteps, Live,
      Ready
  <1>6. CleaningView'
    BY DEF JInv, TypeOK, CleaningView, States, ViewSteps, Terminal, Stopped, Over, Writing,
      Live, Ready
  <1>7. CleaningAlone'
    BY DEF JInv, TypeOK, CleaningAlone, States, AloneSteps, Spent, Live, Stopped, Over, Writing,
      Ready
  <1>8. ObjectsAreReserved'
    BY DEF JInv, TypeOK, ObjectsAreReserved, States
  <1>9. CleanedIsEmpty'
    BY DEF JInv, TypeOK, CleanedIsEmpty, States
  <1>10. CompletedIsReadable'
    BY DEF JInv, TypeOK, CompletedIsReadable, Steps, Cleaning, States, Served, WorkerSteps,
      CreatorSteps, JanitorRecord, ViewSteps, AloneSteps, CleaningSteps, Stopped, Ready,
      Admitted, Writing, JanitorSteps, Over, Live
  <1> QED
    BY <1>1, <1>2, <1>3, <1>4, <1>5, <1>6, <1>7, <1>8, <1>9, <1>10, Frame DEF JInv

LEMMA ReleaseExecutionKeeps ==
    ASSUME JInv, ReleaseExecution
    PROVE  JInv'
  <1> USE KindsAreDistinct DEF ReleaseExecution, ExportsOf, Go, Quiet, Absent, JanitorOnly
  <1>1. TypeOK'
    BY DEF JInv, TypeOK, Jobs, States, Derived
  <1>2. Steps'
    BY DEF JInv, TypeOK, Steps, Jobs, States, WorkerSteps, CreatorSteps, JanitorRecord, Derived,
      ViewSteps, AloneSteps, Writing, JanitorSteps, CleaningSteps
  <1>3. Worked'
    BY DEF JInv, TypeOK, Worked, Steps, Cleaning, Jobs, States, Writing, Live, Derived,
      Terminal, WorkerSteps, CreatorSteps, JanitorRecord, ViewSteps, AloneSteps, CleaningSteps,
      Stopped, JanitorSteps, Over, Ready
  <1>4. Created'
    BY DEF JInv, TypeOK, Created, Steps, Cleaning, Jobs, States, Spent, WorkerSteps,
      CreatorSteps, JanitorRecord, Derived, ViewSteps, AloneSteps, CleaningSteps, Stopped, Live,
      Writing, JanitorSteps, Over, Ready
  <1>5. Reserved'
    BY DEF JInv, TypeOK, Reserved, Steps, Cleaning, Jobs, States, Live, Derived, Ready,
      WorkerSteps, CreatorSteps, JanitorRecord, ViewSteps, AloneSteps, CleaningSteps, Stopped,
      Writing, JanitorSteps, Over
  <1>6. Cleaning'
    BY DEF JInv, TypeOK, Cleaning, Jobs, States, CleaningSteps, Stopped, Derived, ViewSteps,
      Over, Writing, Live, Ready
  <1>7. CleaningView'
    BY DEF JInv, TypeOK, CleaningView, Jobs, States, ViewSteps, Terminal, Stopped, Derived,
      Over, Writing, Live, Ready
  <1>8. CleaningAlone'
    BY DEF JInv, TypeOK, CleaningAlone, Jobs, States, AloneSteps, Spent, Live, Derived, Stopped,
      Over, Writing, Ready
  <1>9. ObjectsAreReserved'
    BY DEF JInv, TypeOK, ObjectsAreReserved, Steps, Cleaning, Jobs, States, WorkerSteps,
      CreatorSteps, JanitorRecord, Derived, ViewSteps, AloneSteps, CleaningSteps, Stopped,
      Writing, JanitorSteps, Over, Live, Ready
  <1>10. CleanedIsEmpty'
    BY DEF JInv, TypeOK, CleanedIsEmpty, Jobs, States, Derived
  <1> QED
    BY <1>1, <1>2, <1>3, <1>4, <1>5, <1>6, <1>7, <1>8, <1>9, <1>10, Frame DEF JInv

\* The last step finds no object and no reservation left.
LEMMA MarkCleanedKeeps ==
    ASSUME JInv, MarkCleaned
    PROVE  JInv'
  <1> USE KindsAreDistinct DEF Jobs, Derived
  <1> DEFINE e == janitor.job
             Hit(k) == (k = e \/ k \in ExportsOf(e)) /\ job[k].state \notin Absent
  <1>1. /\ janitor.step = "cleaned" /\ e \in Executions /\ Stopped(e)
        /\ \A x \in ExportsOf(e) : Stopped(x)
        /\ \A k \in Jobs : Hit(k) => objects[k] = {} /\ k \notin reserved /\ Stopped(k)
    BY DEF MarkCleaned, JInv, Steps, Cleaning, CleaningSteps
  <1>2. UNCHANGED <<worker, creator, objects, reserved, asks, misled, permits, request,
                    dispatched, place, faults>>
    BY DEF MarkCleaned, Quiet, JanitorOnly
  <1>3. /\ job' \in [Jobs -> JobRecord]
        /\ \A k \in Jobs : job'[k] = IF Hit(k) THEN CleanedExecution(job[k]) ELSE job[k]
    BY CleanedRecords DEF MarkCleaned, JInv, TypeOK, JobRecord
  <1>4. /\ \A k \in Jobs : ~Hit(k) => job'[k] = job[k]
        /\ \A k \in Jobs : Hit(k) => /\ job'[k].source = job[k].source /\ job'[k].open = job[k].open
                                     /\ job'[k].state \in {"expired", "purged"} /\ job'[k].clean
    BY <1>3, CleanedRecords DEF JInv, TypeOK, JobRecord
  <1>5. janitor'.step \in {"idle", "next"} /\ janitor' \in JanitorRecord
    <2>1. Idle \in JanitorRecord /\ Idle.step = "idle"
      BY DEF Idle, JanitorRecord, JanitorSteps
    <2>2. "next" \in JanitorSteps
      BY DEF JanitorSteps
    <2>3. [Idle EXCEPT !.step = "next", !.whole = TRUE] \in JanitorRecord
      BY <2>1, <2>2, Zenon DEF JanitorRecord
    <2>4. [Idle EXCEPT !.step = "next", !.whole = TRUE].step = "next"
      BY DEF Idle
    <2>5. janitor' \in {Idle, [Idle EXCEPT !.step = "next", !.whole = TRUE]}
      BY DEF MarkCleaned
    <2> QED BY <2>1, <2>3, <2>4, <2>5
  <1> HIDE DEF Hit
  <1>6. Cleaning' /\ CleaningView' /\ CleaningAlone'
    BY <1>5 DEF Cleaning, CleaningView, CleaningAlone, CleaningSteps, ViewSteps, AloneSteps
  <1>7. Steps'
    BY <1>2, <1>5 DEF JInv, Steps, ViewSteps, AloneSteps
  <1>8. TypeOK'
    BY <1>2, <1>3 DEF JInv, TypeOK, JobRecord
  <1>9. Worked'
    BY <1>1, <1>2, <1>4 DEF JInv, Worked, Stopped, Writing, Absent, Live, Terminal
  <1>10. \A k \in Jobs : Stopped(k) => Stopped(k)'
    BY <1>1, <1>2, <1>4 DEF JInv, Sourced, Stopped, Over, Ready, Live
  <1>11. Created'
    BY <1>1, <1>2, <1>4, <1>10 DEF JInv, Created, Spent, Stopped, Hit, Live, Absent
  <1>12. CleanedIsEmpty'
    BY <1>1, <1>2, <1>4 DEF JInv, CleanedIsEmpty
  <1>13. Sourced'
    BY <1>1, <1>4 DEF JInv, Sourced, Hit, Absent
  <1>14. Reserved'
    BY <1>1, <1>2, <1>4 DEF JInv, Reserved, Ready, Sourced, Hit, Live, Absent
  <1>15. Tidied'
    BY <1>4 DEF JInv, Tidied, Terminal, Absent
  <1>16. CompletedIsReadable'
    BY <1>1, <1>2, <1>4 DEF JInv, CompletedIsReadable, Served, Ready, Admitted, Sourced, Hit,
       Absent
  <1> USE KindsAreDistinct DEF MarkCleaned, Jobs, ExportsOf, Absent, CleanedExecution, Idle,
      Quiet, Derived, JanitorOnly
  <1>17. OneCapture'
    BY DEF JInv, TypeOK, OneCapture, Steps, Sourced, Worked, Created, Reserved, Tidied,
      Cleaning, CleaningView, CleaningAlone, ObjectsAreReserved, CleanedIsEmpty, Permitted,
      CompletedIsReadable, States, WorkerSteps, CreatorSteps, JanitorRecord, ViewSteps,
      AloneSteps, Writing, Live, Terminal, Spent, Ready, CleaningSteps, Stopped, Served,
      JanitorSteps, Over, Admitted
  <1> QED
    BY <1>6, <1>7, <1>8, <1>9, <1>11, <1>12, <1>13, <1>14, <1>15, <1>16, <1>17, Frame DEF JInv

LEMMA CleanupExportKeeps ==
    ASSUME NEW x \in Exports, JInv, CleanupExport(x)
    PROVE  JInv'
  <1>1. janitor' \in JanitorRecord /\ janitor'.step = "erase" /\ janitor'.job = x
    BY StartsJob DEF CleanupExport, JanitorSteps, AloneSteps, Jobs, Derived
  <1>2. Steps'
    BY <1>1 DEF CleanupExport, Quiet, JanitorOnly, JInv, Steps, ViewSteps, AloneSteps
  <1> USE KindsAreDistinct DEF CleanupExport, Idle, CanCleanExport, Quiet, Absent, Terminal,
      JanitorOnly
  <1>3. Cleaning'
    BY DEF JInv, TypeOK, Cleaning, Jobs, States, CleaningSteps, Stopped, ExportsOf, Derived,
      ViewSteps, Over, Writing, Live, Ready
  <1>4. CleaningView'
    BY DEF JInv, TypeOK, CleaningView, Jobs, States, ViewSteps, Stopped, Derived, Over, Writing,
      Live, Ready
  <1>5. CleaningAlone'
    BY DEF JInv, TypeOK, CleaningAlone, Worked, Jobs, States, AloneSteps, Spent, Live, Writing,
      Derived, Stopped, Over, Ready
  <1> QED
    BY <1>2, <1>3, <1>4, <1>5, Frame DEF JInv

\* The cleanup of one job finds it spent.
LEMMA EraseKeeps ==
    ASSUME JInv, Erase
    PROVE  JInv'
  <1> USE KindsAreDistinct DEF Erase, Go, Quiet, JanitorOnly
  <1>1. TypeOK'
    BY DEF JInv, TypeOK, Steps, Jobs, States, WorkerSteps, CreatorSteps, JanitorRecord, Derived,
      ViewSteps, AloneSteps, Writing, JanitorSteps, CleaningSteps
  <1>2. Steps'
    BY DEF JInv, TypeOK, Steps, Jobs, States, WorkerSteps, CreatorSteps, JanitorRecord, Derived,
      ViewSteps, AloneSteps, Writing, JanitorSteps, CleaningSteps
  <1>3. Worked'
    BY DEF JInv, TypeOK, Worked, Steps, CleaningAlone, Jobs, States, Writing, Absent, Live,
      Derived, Terminal, WorkerSteps, CreatorSteps, JanitorRecord, ViewSteps, AloneSteps, Spent,
      JanitorSteps, Stopped, CleaningSteps, Over, Ready
  <1>4. Created'
    BY DEF JInv, TypeOK, Created, Jobs, States, Spent, Derived, Stopped, Live, Over, Writing,
      Ready
  <1>5. Cleaning'
    BY DEF JInv, TypeOK, Cleaning, Jobs, States, CleaningSteps, Stopped, Absent, ExportsOf,
      Derived, ViewSteps, Over, Writing, Live, Ready
  <1>6. CleaningView'
    BY DEF JInv, TypeOK, CleaningView, Jobs, States, ViewSteps, Absent, Terminal, Stopped,
      Derived, Over, Writing, Live, Ready
  <1>7. CleaningAlone'
    BY DEF JInv, TypeOK, CleaningAlone, Steps, Jobs, States, AloneSteps, Spent, Live,
      WorkerSteps, CreatorSteps, JanitorRecord, Derived, ViewSteps, Stopped, Writing,
      JanitorSteps, Over, CleaningSteps, Ready
  <1>8. ObjectsAreReserved'
    BY DEF JInv, TypeOK, ObjectsAreReserved, Jobs, States, Derived
  <1>9. CleanedIsEmpty'
    BY DEF JInv, TypeOK, CleanedIsEmpty, Jobs, States, Derived
  <1>10. CompletedIsReadable'
    BY DEF JInv, TypeOK, CompletedIsReadable, Steps, CleaningAlone, Jobs, States, Served,
      WorkerSteps, CreatorSteps, JanitorRecord, Derived, ViewSteps, AloneSteps, Spent, Live,
      Ready, Admitted, Writing, JanitorSteps, Stopped, CleaningSteps, Over
  <1> QED
    BY <1>1, <1>2, <1>3, <1>4, <1>5, <1>6, <1>7, <1>8, <1>9, <1>10, Frame DEF JInv

\* And gives its reservation back once its objects are gone.
LEMMA FreeKeeps ==
    ASSUME JInv, Free
    PROVE  JInv'
  <1> USE KindsAreDistinct DEF Jobs, Derived
  <1> DEFINE j == janitor.job
  <1>1. /\ janitor.step = "free" /\ j \in Executions \cup Exports /\ Stopped(j) /\ objects[j] = {}
        /\ (job[j].state \in Live => j \in Exports /\ job[j].expired /\ worker[j] # "claimed")
    BY DEF Free, JInv, Steps, CleaningAlone, AloneSteps, Spent
  <1>2. /\ UNCHANGED <<worker, creator, objects, asks, misled, permits, request, dispatched,
                       place, faults>>
        /\ reserved' = reserved \ {j} /\ janitor' = Idle
    BY DEF Free, Quiet, JanitorOnly
  <1>3. /\ job' \in [Jobs -> JobRecord] /\ Alone(j)
        /\ job'[j] = IF j \in Exports /\ job[j].state \notin Absent THEN CleanedExport(job[j]) ELSE job[j]
    BY <1>1, CleanedRecords DEF Free, Alone, JInv, TypeOK, JobRecord
  <1>4. /\ job'[j].source = job[j].source /\ (job'[j].open => job[j].open)
        /\ job'[j].state \in {job[j].state, "expired"}
        /\ (job'[j].state # job[j].state => job[j].state \notin Absent)
        /\ (job'[j].clean => job[j].clean \/ job'[j].state = "expired")
    BY <1>1, <1>3, CleanedRecords DEF JInv, TypeOK, JobRecord, Absent
  <1>5. TypeOK'
    BY <1>2, <1>3 DEF JInv, TypeOK, JobRecord
  <1>6. Cleaning'
    BY <1>2 DEF Cleaning, CleaningSteps, ViewSteps, Idle
  <1>7. Worked'
    BY <1>1, <1>2, <1>3, <1>4 DEF Alone, JInv, Worked, Stopped, Writing, Live, Absent, Terminal
  <1> USE KindsAreDistinct DEF Free, Absent, CleanedExport, Idle, Quiet, JanitorOnly
  <1>8. Steps'
    BY DEF JInv, TypeOK, Steps, Jobs, States, WorkerSteps, CreatorSteps, JanitorRecord, Derived,
      ViewSteps, AloneSteps, Writing, JanitorSteps, CleaningSteps
  <1>9. Sourced'
    BY DEF JInv, TypeOK, Sourced, Jobs, States, Derived
  <1>10. Created'
    BY SMTT(30) DEF JInv, TypeOK, Created, Steps, CleaningAlone, Jobs, States, Spent, WorkerSteps,
      CreatorSteps, JanitorRecord, Derived, ViewSteps, AloneSteps, Live, Stopped, Writing,
      JanitorSteps, Over, CleaningSteps, Ready
  <1>11. Reserved'
    BY DEF JInv, TypeOK, Reserved, Steps, CleaningAlone, Jobs, States, Live, Derived, Ready,
      WorkerSteps, CreatorSteps, JanitorRecord, ViewSteps, AloneSteps, Spent, Writing,
      JanitorSteps, Stopped, CleaningSteps, Over
  <1>12. Tidied'
    BY DEF JInv, TypeOK, Tidied, Jobs, States, Terminal, Derived
  <1>13. CleaningView'
    BY DEF JInv, TypeOK, CleaningView, Jobs, States, ViewSteps, Terminal, Stopped, Derived,
      Over, Writing, Live, Ready
  <1>14. CleaningAlone'
    BY DEF JInv, TypeOK, CleaningAlone, Jobs, States, AloneSteps, Spent, Live, Derived, Stopped,
      Over, Writing, Ready
  <1>15. ObjectsAreReserved'
    BY DEF JInv, TypeOK, ObjectsAreReserved, Steps, CleaningAlone, Jobs, States, WorkerSteps,
      CreatorSteps, JanitorRecord, Derived, ViewSteps, AloneSteps, Spent, Live, Writing,
      JanitorSteps, Stopped, CleaningSteps, Over, Ready
  <1>16. CleanedIsEmpty'
    BY DEF JInv, TypeOK, CleanedIsEmpty, Steps, CleaningAlone, Jobs, States, WorkerSteps,
      CreatorSteps, JanitorRecord, Derived, ViewSteps, AloneSteps, Spent, Live, Writing,
      JanitorSteps, Stopped, CleaningSteps, Over, Ready
  <1>17. OneCapture'
    BY DEF JInv, TypeOK, OneCapture, Jobs, States, Derived
  <1>18. CompletedIsReadable'
    BY DEF JInv, TypeOK, CompletedIsReadable, Jobs, States, Served, Derived, Ready, Admitted
  <1> QED
    BY <1>5, <1>6, <1>7, <1>8, <1>9, <1>10, <1>11, <1>12, <1>13, <1>14, <1>15, <1>16, <1>17,
      <1>18, Frame DEF JInv

\* Past its deadline no worker can write, so the job may be ended for it.
LEMMA WorkerLostKeeps ==
    ASSUME NEW j \in Jobs, JInv, WorkerLost(j)
    PROVE  JInv'
  <1>1. Ended(j)
    BY FinishEnds DEF WorkerLost
  <1>2. TypeOK'
    BY <1>1 DEF WorkerLost, Quiet, JanitorOnly, world, calm, Ended, JInv, TypeOK, JobRecord
  <1>3. "view" \in JanitorSteps /\ "erase" \in JanitorSteps
    BY DEF JanitorSteps, CleaningSteps, ViewSteps, AloneSteps
  <1>4. /\ janitor' \in JanitorRecord
        /\ \/ j \in Views /\ janitor'.step = "view" /\ janitor'.view = j /\ janitor'.job = None
           \/ j \notin Views /\ janitor'.step = "erase" /\ janitor'.job = j
    <2>1. CASE j \in Views
      <3>1. janitor' = [Idle EXCEPT !.step = "view", !.view = j]
        BY <2>1 DEF WorkerLost
      <3>2. LET r == [Idle EXCEPT !.step = "view", !.view = j] IN
            r \in JanitorRecord /\ r.step = "view" /\ r.view = j /\ r.job = None
        BY <1>3, <2>1, StartsLost
      <3> QED
        BY <2>1, <3>1, <3>2
    <2>2. CASE j \notin Views
      BY <1>3, <2>2, StartsJob DEF WorkerLost
    <2> QED BY <2>1, <2>2
  <1>5. Steps'
    BY <1>4 DEF WorkerLost, Quiet, JanitorOnly, JInv, Steps, ViewSteps, AloneSteps, Jobs,
       Derived
  <1> USE KindsAreDistinct DEF WorkerLost, Idle, Finish, Quiet, CanFinish, FinishState,
      JanitorOnly, Live, Admitted, Derived, Ready
  <1>6. Sourced'
    BY DEF JInv, TypeOK, Sourced, Jobs, States, Absent
  <1>7. Worked'
    BY DEF JInv, TypeOK, Worked, Jobs, States, Writing, Absent, Terminal
  <1>8. Created'
    BY DEF JInv, TypeOK, Created, Jobs, States, Spent, Stopped, Over, Writing
  <1>9. Reserved'
    BY DEF JInv, TypeOK, Reserved, Jobs, States
  <1>10. Tidied'
    BY DEF JInv, TypeOK, Tidied, Jobs, States, Terminal, Absent
  <1>11. Cleaning'
    BY SMTT(30) DEF JInv, TypeOK, Cleaning, Jobs, States, CleaningSteps, Stopped, Absent, ExportsOf,
      ViewSteps, Over, Writing
  <1>12. CleaningView'
    BY SMTT(30) DEF JInv, TypeOK, CleaningView, Worked, Jobs, States, ViewSteps, Absent, Terminal,
      Stopped, Writing, Over
  <1>13. CleaningAlone'
    BY DEF JInv, TypeOK, CleaningAlone, Worked, Jobs, States, AloneSteps, Spent, Writing,
      Absent, Terminal, Stopped, Over
  <1>14. CleanedIsEmpty'
    BY DEF JInv, TypeOK, CleanedIsEmpty, Jobs, States
  <1>15. OneCapture'
    BY DEF JInv, TypeOK, OneCapture, Jobs, States
  <1>16. CompletedIsReadable'
    BY DEF JInv, TypeOK, CompletedIsReadable, Jobs, States, Served
  <1> QED
    BY <1>2, <1>5, <1>6, <1>7, <1>8, <1>9, <1>10, <1>11, <1>12, <1>13, <1>14, <1>15, <1>16,
      Frame DEF JInv

LEMMA FailQueuedKeeps ==
    ASSUME NEW j \in Jobs, JInv, FailQueued(j)
    PROVE  JInv'
  <1> USE KindsAreDistinct DEF FailQueued, Idle, Finish, Quiet, CanFinish, FinishState,
      JanitorOnly, Live, Admitted, Derived, Ready
  <1>1. TypeOK'
    BY DEF JInv, TypeOK, Jobs, States
  <1>2. Steps'
    BY DEF JInv, TypeOK, Steps, Jobs, States, WorkerSteps, CreatorSteps, JanitorRecord,
      ViewSteps, AloneSteps, Writing, JanitorSteps, CleaningSteps
  <1>3. Sourced'
    BY DEF JInv, TypeOK, Sourced, Jobs, States, Absent
  <1>4. Worked'
    BY DEF JInv, TypeOK, Worked, Jobs, States, Writing, Absent, Terminal
  <1>5. Created'
    BY DEF JInv, TypeOK, Created, Jobs, States, Spent, Stopped, Over, Writing
  <1>6. Reserved'
    BY DEF JInv, TypeOK, Reserved, Jobs, States
  <1>7. Tidied'
    BY DEF JInv, TypeOK, Tidied, Jobs, States, Terminal, Absent
  <1>8. Cleaning'
    BY SMTT(30) DEF JInv, TypeOK, Cleaning, Jobs, States, CleaningSteps, Stopped, Absent, ExportsOf,
      ViewSteps, Over, Writing
  <1>9. CleaningView'
    BY SMTT(30) DEF JInv, TypeOK, CleaningView, Jobs, States, ViewSteps, Absent, Terminal, Stopped, Over,
      Writing
  <1>10. CleaningAlone'
    BY DEF JInv, TypeOK, CleaningAlone, Jobs, States, AloneSteps, Spent, Stopped, Over, Writing
  <1>11. CleanedIsEmpty'
    BY DEF JInv, TypeOK, CleanedIsEmpty, Jobs, States
  <1>12. OneCapture'
    BY DEF JInv, TypeOK, OneCapture, Jobs, States
  <1>13. CompletedIsReadable'
    BY DEF JInv, TypeOK, CompletedIsReadable, Jobs, States, Served
  <1> QED
    BY <1>1, <1>2, <1>3, <1>4, <1>5, <1>6, <1>7, <1>8, <1>9, <1>10, <1>11, <1>12, <1>13,
      Frame DEF JInv

LEMMA RedispatchKeeps ==
    ASSUME NEW j \in Jobs, JInv, Redispatch(j)
    PROVE  JInv'
  <1> USE KindsAreDistinct DEF Redispatch, world, calm
  <1>1. TypeOK'
    BY DEF JInv, TypeOK, Jobs, States, Derived
  <1> QED
    BY <1>1, Frame DEF JInv

LEMMA DeleteTombstoneKeeps ==
    ASSUME NEW j \in Jobs, JInv, DeleteTombstone(j)
    PROVE  JInv'
  <1>1. job' \in [Jobs -> JobRecord]
    BY DeletedRecord DEF DeleteTombstone, JInv, TypeOK, JobRecord
  <1>2. TypeOK'
    BY <1>1 DEF DeleteTombstone, Quiet, JanitorOnly, JInv, TypeOK, JobRecord
  <1> USE KindsAreDistinct DEF DeleteTombstone, Idle, Absent, NoJob, Quiet, JanitorOnly
  <1>3. Sourced'
    BY DEF JInv, TypeOK, Sourced, Jobs, States, Derived
  <1>4. Worked'
    BY DEF JInv, TypeOK, Worked, Jobs, States, Writing, Live, Derived, Terminal
  <1>5. Created'
    BY DEF JInv, TypeOK, Created, Jobs, States, Spent, Derived, Stopped, Live, Over, Writing,
      Ready
  <1>6. Reserved'
    BY DEF JInv, TypeOK, Reserved, Jobs, States, Live, Derived, Ready
  <1>7. Tidied'
    BY DEF JInv, TypeOK, Tidied, Jobs, States, Terminal, Derived
  <1>8. Cleaning'
    BY DEF JInv, TypeOK, Cleaning, Jobs, States, CleaningSteps, Stopped, ExportsOf, Derived,
      ViewSteps, Over, Writing, Live, Ready
  <1>9. CleaningView'
    BY DEF JInv, TypeOK, CleaningView, Jobs, States, ViewSteps, Terminal, Stopped, Derived,
      Over, Writing, Live, Ready
  <1>10. CleaningAlone'
    BY DEF JInv, TypeOK, CleaningAlone, Jobs, States, AloneSteps, Spent, Live, Derived, Stopped,
      Over, Writing, Ready
  <1>11. CleanedIsEmpty'
    BY DEF JInv, TypeOK, CleanedIsEmpty, Jobs, States, Derived
  <1>12. OneCapture'
    BY DEF JInv, TypeOK, OneCapture, Jobs, States, Derived
  <1>13. CompletedIsReadable'
    BY DEF JInv, TypeOK, CompletedIsReadable, Jobs, States, Served, Derived, Ready, Admitted
  <1> QED
    BY <1>2, <1>3, <1>4, <1>5, <1>6, <1>7, <1>8, <1>9, <1>10, <1>11, <1>12, <1>13,
      Frame DEF JInv

LEMMA JanitorStopsKeeps ==
    ASSUME JInv, JanitorStops
    PROVE  JInv'
  <1> USE KindsAreDistinct, WorkloadAssumption DEF JanitorStops, Idle, Fault, JanitorOnly
  <1>1. TypeOK'
    BY DEF JInv, TypeOK, Jobs, States, Derived
  <1>2. Steps'
    BY DEF JInv, TypeOK, Steps, Jobs, States, WorkerSteps, CreatorSteps, JanitorRecord, Derived,
      ViewSteps, AloneSteps, Writing, JanitorSteps, CleaningSteps
  <1>3. Cleaning'
    BY DEF JInv, TypeOK, Cleaning, Jobs, States, CleaningSteps, Stopped, Absent, ExportsOf,
      Derived, ViewSteps, Over, Writing, Live, Ready
  <1>4. CleaningView'
    BY DEF JInv, TypeOK, CleaningView, Jobs, States, ViewSteps, Absent, Terminal, Stopped,
      Derived, Over, Writing, Live, Ready
  <1>5. CleaningAlone'
    BY DEF JInv, TypeOK, CleaningAlone, Jobs, States, AloneSteps, Spent, Live, Derived, Stopped,
      Over, Writing, Ready
  <1> QED
    BY <1>1, <1>2, <1>3, <1>4, <1>5, Frame DEF JInv

-----------------------------------------------------------------------------
(* The user, the session and the clock.                                    *)

\* A cancellation ends the job; its worker finds out at its next transaction.
LEMMA CancelKeeps ==
    ASSUME NEW e \in Executions, JInv, Cancel(e)
    PROVE  JInv'
  <1> USE DEF Jobs
  <1>1. Ended(e)
    BY FinishEnds DEF Cancel
  <1>2. TypeOK'
    BY <1>1 DEF Cancel, StoreOnly, world, calm, Ended, JInv, TypeOK, JobRecord
  <1>3. Cleaning' /\ CleaningView' /\ CleaningAlone'
    BY <1>1, EndedKeepsCleaning DEF Cancel, StoreOnly
  <1> USE KindsAreDistinct DEF Cancel, Admitted, Live, Finish, StoreOnly, CanFinish,
      FinishState, calm, Derived, Ready
  <1>4. Sourced'
    BY DEF JInv, TypeOK, Sourced, Jobs, States, Absent
  <1>5. Worked'
    BY DEF JInv, TypeOK, Worked, Jobs, States, Writing, Absent, Terminal
  <1>6. Created'
    BY DEF JInv, TypeOK, Created, Jobs, States, Spent, Stopped, Over, Writing
  <1>7. Reserved'
    BY DEF JInv, TypeOK, Reserved, Jobs, States
  <1>8. Tidied'
    BY DEF JInv, TypeOK, Tidied, Jobs, States, Terminal, Absent
  <1>9. CleanedIsEmpty'
    BY DEF JInv, TypeOK, CleanedIsEmpty, Jobs, States
  <1>10. OneCapture'
    BY DEF JInv, TypeOK, OneCapture, Jobs, States
  <1>11. CompletedIsReadable'
    BY DEF JInv, TypeOK, CompletedIsReadable, Jobs, States, Served
  <1> QED
    BY <1>2, <1>3, <1>4, <1>5, <1>6, <1>7, <1>8, <1>9, <1>10, <1>11, Frame DEF JInv

LEMMA DeleteViewKeeps ==
    ASSUME NEW v \in Views, JInv, DeleteView(v)
    PROVE  JInv'
  <1> USE KindsAreDistinct DEF DeleteView, Admitted, Ready, Absent, StoreOnly, calm
  <1>1. TypeOK'
    BY DEF JInv, TypeOK, Jobs, States, Derived
  <1>2. Sourced'
    BY DEF JInv, TypeOK, Sourced, Jobs, States, Derived
  <1>3. Worked'
    BY DEF JInv, TypeOK, Worked, Jobs, States, Writing, Live, Derived, Terminal
  <1>4. Created'
    BY DEF JInv, TypeOK, Created, Jobs, States, Spent, Derived, Stopped, Live, Over, Writing
  <1>5. Reserved'
    BY DEF JInv, TypeOK, Reserved, Jobs, States, Live, Derived
  <1>6. Tidied'
    BY DEF JInv, TypeOK, Tidied, Jobs, States, Terminal, Derived
  <1>7. Cleaning'
    BY SMTT(30) DEF JInv, TypeOK, Cleaning, Jobs, States, CleaningSteps, Stopped, ExportsOf, Derived,
      ViewSteps, Over, Writing, Live
  <1>8. CleaningView'
    BY SMTT(30) DEF JInv, TypeOK, CleaningView, Jobs, States, ViewSteps, Terminal, Stopped, Derived,
      Over, Writing, Live
  <1>9. CleaningAlone'
    BY DEF JInv, TypeOK, CleaningAlone, Jobs, States, AloneSteps, Spent, Live, Derived, Stopped,
      Over, Writing
  <1>10. CleanedIsEmpty'
    BY DEF JInv, TypeOK, CleanedIsEmpty, Jobs, States, Derived
  <1>11. OneCapture'
    BY DEF JInv, TypeOK, OneCapture, Jobs, States, Derived
  <1>12. CompletedIsReadable'
    BY DEF JInv, TypeOK, CompletedIsReadable, Jobs, States, Served, Derived
  <1> QED
    BY <1>1, <1>2, <1>3, <1>4, <1>5, <1>6, <1>7, <1>8, <1>9, <1>10, <1>11, <1>12, Frame DEF JInv

LEMMA PurgeWorkspaceKeeps ==
    ASSUME JInv, PurgeWorkspace
    PROVE  JInv'
  <1> USE KindsAreDistinct DEF PurgeWorkspace, StoreOnly, calm
  <1>1. TypeOK'
    BY DEF JInv, TypeOK, Jobs, States, Derived
  <1>2. CompletedIsReadable'
    BY DEF JInv, TypeOK, CompletedIsReadable, Jobs, States, Served, Derived, Ready, Admitted
  <1> QED
    BY <1>1, <1>2, Frame DEF JInv

LEMMA CloseWorkspaceKeeps ==
    ASSUME JInv, CloseWorkspace
    PROVE  JInv'
  <1> USE KindsAreDistinct DEF CloseWorkspace, StoreOnly, calm
  <1>1. TypeOK'
    BY DEF JInv, TypeOK, Jobs, States, Derived
  <1>2. CompletedIsReadable'
    BY DEF JInv, TypeOK, CompletedIsReadable, Jobs, States, Served, Derived, Ready, Admitted
  <1> QED
    BY <1>1, <1>2, Frame DEF JInv

\* An execution expires with its exports and views.
LEMMA AgeKeeps ==
    ASSUME NEW j \in Jobs, JInv, Age(j)
    PROVE  JInv'
  <1> USE KindsAreDistinct DEF Jobs, Derived
  <1>1. /\ job' \in [Jobs -> JobRecord]
        /\ \A k \in Jobs : job'[k] \in {job[k], [job[k] EXCEPT !.expired = TRUE]}
    <2>1. "none" \in States /\ \A k \in Jobs : job[k] \in JobRecord
      BY DEF JInv, TypeOK, JobRecord, States
    <2>2. \A k \in Jobs : [job[k] EXCEPT !.expired = TRUE] \in JobRecord
      BY <2>1, Records
    <2> QED BY <2>1, <2>2 DEF Age
  <1>2. \A k \in Jobs : /\ job'[k].state = job[k].state /\ job'[k].source = job[k].source
                        /\ job'[k].clean = job[k].clean /\ job'[k].open = job[k].open
                        /\ job[k].expired => job'[k].expired
    BY <1>1 DEF JInv, TypeOK
  <1>3. UNCHANGED <<janitor, worker, creator, objects, reserved, place, permits, request,
                    dispatched, misled, faults>>
    BY DEF Age, StoreOnly, calm
  <1>4. \A k \in Jobs : Stopped(k) => Stopped(k)'
    BY <1>2, <1>3 DEF JInv, Sourced, Stopped, Over, Ready
  <1>5. Cleaning'
    <2> SUFFICES ASSUME janitor.step \in CleaningSteps, janitor.job # None
                 PROVE  Cleaning'
      BY <1>3 DEF Cleaning
    <2>1. janitor.job \in Executions /\ Cleaning
      BY DEF JInv, Steps, CleaningSteps, ViewSteps
    <2> QED
      BY <2>1, <1>2, <1>3, <1>4 DEF Cleaning, ExportsOf
  <1>6. CleaningView'
    BY <1>2, <1>3, <1>4 DEF JInv, Steps, CleaningView, ViewSteps
  <1>7. CleaningAlone'
    BY <1>2, <1>3, <1>4 DEF JInv, Steps, CleaningAlone, Spent, AloneSteps
  <1>8. TypeOK'
    BY <1>1, <1>3 DEF JInv, TypeOK, JobRecord
  <1> USE KindsAreDistinct DEF Age, Absent, Jobs, StoreOnly, Derived, calm
  <1>9. Sourced'
    BY DEF JInv, TypeOK, Sourced, States
  <1>10. Worked'
    BY DEF JInv, TypeOK, Worked, States, Writing, Live, Terminal
  <1>11. Created'
    BY DEF JInv, TypeOK, Created, States, Spent, Stopped, Live, Over, Writing, Ready
  <1>12. Reserved'
    BY DEF JInv, TypeOK, Reserved, States, Live, Ready
  <1>13. Tidied'
    BY DEF JInv, TypeOK, Tidied, States, Terminal
  <1>14. CleanedIsEmpty'
    BY DEF JInv, TypeOK, CleanedIsEmpty, States
  <1>15. OneCapture'
    BY DEF JInv, TypeOK, OneCapture, States
  <1>16. CompletedIsReadable'
    BY DEF JInv, TypeOK, CompletedIsReadable, States, Served, Ready, Admitted
  <1> QED
    BY <1>5, <1>6, <1>7, <1>8, <1>9, <1>10, <1>11, <1>12, <1>13, <1>14, <1>15, <1>16,
      Frame DEF JInv

LEMMA LapseDispatchKeeps ==
    ASSUME NEW j \in Jobs, JInv, LapseDispatch(j)
    PROVE  JInv'
  <1>1. job' \in [Jobs -> JobRecord]
    <2>1. job' = [job EXCEPT ![j] = [job[j] EXCEPT !.lapsed = TRUE]]
      BY Zenon DEF LapseDispatch
    <2>2. job \in [Jobs -> JobRecord] /\ "none" \in States
      BY DEF JInv, TypeOK, JobRecord, States
    <2> QED
      BY <2>1, <2>2, Records
  <1>2. TypeOK'
    BY <1>1 DEF LapseDispatch, StoreOnly, world, calm, JInv, TypeOK, JobRecord
  <1> USE KindsAreDistinct DEF LapseDispatch, StoreOnly, calm
  <1>3. Sourced'
    BY DEF JInv, TypeOK, Sourced, Jobs, States, Absent, Derived
  <1>4. Worked'
    BY DEF JInv, TypeOK, Worked, Jobs, States, Writing, Absent, Live, Derived, Terminal
  <1>5. Created'
    BY DEF JInv, TypeOK, Created, Jobs, States, Spent, Derived, Stopped, Live, Over, Writing,
      Ready
  <1>6. Reserved'
    BY DEF JInv, TypeOK, Reserved, Jobs, States, Live, Derived, Ready
  <1>7. Tidied'
    BY DEF JInv, TypeOK, Tidied, Jobs, States, Terminal, Absent, Derived
  <1>8. Cleaning'
    BY DEF JInv, TypeOK, Cleaning, Jobs, States, CleaningSteps, Stopped, Absent, ExportsOf,
      Derived, ViewSteps, Over, Writing, Live, Ready
  <1>9. CleaningView'
    BY SMTT(30) DEF JInv, TypeOK, CleaningView, Jobs, States, ViewSteps, Absent, Terminal, Stopped,
      Derived, Over, Writing, Live, Ready
  <1>10. CleaningAlone'
    BY DEF JInv, TypeOK, CleaningAlone, Jobs, States, AloneSteps, Spent, Live, Derived, Stopped,
      Over, Writing, Ready
  <1>11. CleanedIsEmpty'
    BY DEF JInv, TypeOK, CleanedIsEmpty, Jobs, States, Derived
  <1>12. OneCapture'
    BY DEF JInv, TypeOK, OneCapture, Jobs, States, Derived
  <1>13. CompletedIsReadable'
    BY DEF JInv, TypeOK, CompletedIsReadable, Jobs, States, Served, Derived, Ready, Admitted
  <1> QED
    BY <1>2, <1>3, <1>4, <1>5, <1>6, <1>7, <1>8, <1>9, <1>10, <1>11, <1>12, <1>13,
      Frame DEF JInv

\* A worker that still could write has stopped by its deadline.
LEMMA PassWorkerDeadlineKeeps ==
    ASSUME NEW j \in Jobs, JInv, PassWorkerDeadline(j)
    PROVE  JInv'
  <1>1. job' \in [Jobs -> JobRecord]
    <2>1. job' = [job EXCEPT ![j] = [job[j] EXCEPT !.open = FALSE]]
      BY Zenon DEF PassWorkerDeadline
    <2>2. job \in [Jobs -> JobRecord] /\ "none" \in States
      BY DEF JInv, TypeOK, JobRecord, States
    <2> QED
      BY <2>1, <2>2, Records
  <1>2. TypeOK'
    BY <1>1 DEF PassWorkerDeadline, StoreOnly, world, calm, JInv, TypeOK, JobRecord
  <1> USE KindsAreDistinct DEF PassWorkerDeadline, StoreOnly, calm
  <1>3. Sourced'
    BY DEF JInv, TypeOK, Sourced, Jobs, States, Absent, Derived
  <1>4. Worked'
    BY DEF JInv, TypeOK, Worked, Jobs, States, Writing, Absent, Live, Derived, Terminal
  <1>5. Created'
    BY DEF JInv, TypeOK, Created, Jobs, States, Spent, Derived, Stopped, Live, Over, Writing,
      Ready
  <1>6. Reserved'
    BY DEF JInv, TypeOK, Reserved, Jobs, States, Live, Derived, Ready
  <1>7. Tidied'
    BY DEF JInv, TypeOK, Tidied, Jobs, States, Terminal, Absent, Derived
  <1>8. Cleaning'
    BY DEF JInv, TypeOK, Cleaning, Jobs, States, CleaningSteps, Stopped, Absent, ExportsOf,
      Derived, ViewSteps, Over, Writing, Live, Ready
  <1>9. CleaningView'
    BY DEF JInv, TypeOK, CleaningView, Jobs, States, ViewSteps, Absent, Terminal, Stopped,
      Derived, Over, Writing, Live, Ready
  <1>10. CleaningAlone'
    BY DEF JInv, TypeOK, CleaningAlone, Jobs, States, AloneSteps, Spent, Live, Derived, Stopped,
      Over, Writing, Ready
  <1>11. CleanedIsEmpty'
    BY DEF JInv, TypeOK, CleanedIsEmpty, Jobs, States, Derived
  <1>12. OneCapture'
    BY DEF JInv, TypeOK, OneCapture, Jobs, States, Derived
  <1>13. CompletedIsReadable'
    BY DEF JInv, TypeOK, CompletedIsReadable, Jobs, States, Served, Derived, Ready, Admitted
  <1> QED
    BY <1>2, <1>3, <1>4, <1>5, <1>6, <1>7, <1>8, <1>9, <1>10, <1>11, <1>12, <1>13,
      Frame DEF JInv

\* A permit lapses only after its worker is gone.
LEMMA LapsePermitKeeps ==
    ASSUME NEW j \in Jobs, JInv, LapsePermit(j)
    PROVE  JInv'
  <1> USE KindsAreDistinct DEF LapsePermit, world, calm
  <1>1. TypeOK'
    BY DEF JInv, TypeOK, Jobs, States, Derived
  <1>2. Permitted'
    BY DEF JInv, TypeOK, Permitted, Steps, Jobs, States, Derived, WorkerSteps, CreatorSteps,
      JanitorRecord, ViewSteps, AloneSteps, Writing, JanitorSteps, CleaningSteps
  <1> QED
    BY <1>1, <1>2, Frame DEF JInv

-----------------------------------------------------------------------------
(* From the first state on.                                                *)

\* A workspace with results of earlier calls meets the invariant.
LEMMA InitSound ==
    ASSUME Init
    PROVE  JInv
  <1> USE KindsAreDistinct DEF Jobs, Derived
  <1>1. PICK load \in Workloads : InitWith(load.have,
load.queued) /\ faults = MaxFaults - load.faults
    BY DEF Init
  <1> DEFINE have == load.have
             queued == load.queued
             known == {have, None} \cap Executions
  <1>2. /\ have \in Executions \cup {None} /\ queued \subseteq Derived /\ (queued # {} => have \in Executions)
        /\ faults \in 0..MaxFaults
    BY <1>1, WorkloadAssumption
  <1>3. /\ \A j \in Jobs : job[j] = IF j \in known THEN [NoJob EXCEPT !.state = "completed"]
                            ELSE IF j \in queued THEN Queued(have) ELSE NoJob
        /\ objects = [j \in Jobs |-> IF j \in known THEN {"result"} ELSE {}]
        /\ reserved = known \cup queued /\ dispatched = queued /\ permits = {}
        /\ asks \in [Executions -> Requests]
        /\ request = [r \in Requests |-> IF \E e \in known : asks[e] = r THEN have ELSE None]
        /\ place = "active"
        /\ creator = [j \in Jobs |-> IF j \in known \cup queued THEN "done" ELSE "idle"]
        /\ worker = [j \in Jobs |-> IF j \in known THEN "done" ELSE "idle"]
        /\ janitor = Idle /\ misled = {}
    BY <1>1 DEF InitWith
  <1>4. known \subseteq {have} /\ (queued # {} => have \in known) /\ known \cap queued = {}
    BY <1>2
  <1>5. job \in [Jobs -> JobRecord]
    <2>1. NoJob \in JobRecord /\ "completed" \in States
      BY SMT DEF NoJob, JobRecord, States
    <2>2. [NoJob EXCEPT !.state = "completed"] \in JobRecord
      BY <2>1, Records
    <2>3. Queued(have) \in JobRecord
      BY <1>2, NewRecords
    <2> QED
      BY <1>1, <2>1, <2>2, <2>3 DEF InitWith
  <1>6. \A j \in Jobs : 
          /\ ~job[j].open /\ ~job[j].expired /\ ~job[j].clean
          /\ job[j].state = (IF j \in known THEN "completed" ELSE IF j \in queued THEN "queued" ELSE "none")
          /\ job[j].source = IF j \in queued THEN have ELSE None
    BY <1>2, <1>3, <1>4, NewRecords DEF NoJob
  <1> HIDE DEF known, queued, have
  <1>7. TypeOK
    <2>1. objects \in [Jobs -> SUBSET {"input", "result"}]
      BY <1>3
    <2>2. request \in [Requests -> Executions \cup {None}]
      BY <1>2, <1>3
    <2>3. reserved \subseteq Jobs /\ permits \subseteq Jobs /\ dispatched \subseteq Jobs
      BY <1>2, <1>3 DEF known
    <2> QED
      BY <1>2, <1>3, <1>5, <2>1, <2>2, <2>3 DEF TypeOK, JobRecord
  <1>8. Steps
    BY <1>3, StartsIdle DEF Steps, WorkerSteps, CreatorSteps, ViewSteps, AloneSteps
  <1>9. Sourced
    BY <1>2, <1>4, <1>6 DEF Sourced, Absent
  <1>10. Worked /\ Created /\ Tidied
    BY <1>2, <1>3, <1>4, <1>6 DEF Worked, Created, Tidied, Writing, Live, Absent, Terminal
  <1>11. Reserved /\ ObjectsAreReserved /\ CleanedIsEmpty /\ Permitted
    BY <1>3, <1>6 DEF Reserved, ObjectsAreReserved, CleanedIsEmpty, Permitted, Live
  <1>12. Cleaning /\ CleaningView /\ CleaningAlone
    BY <1>3, StartsIdle DEF Cleaning, CleaningView, CleaningAlone, CleaningSteps, ViewSteps,
       AloneSteps
  <1>13. OneCapture
    BY <1>2, <1>3, <1>4, <1>6 DEF OneCapture
  <1>14. CompletedIsReadable
    BY <1>2, <1>3, <1>4, <1>6 DEF CompletedIsReadable, Served, Ready
  <1> QED
    BY <1>7, <1>8, <1>9, <1>10, <1>11, <1>12, <1>13, <1>14 DEF JInv

\* Every step keeps the invariant.
LEMMA StepsAreSound ==
    ASSUME JInv, [Next]_vars
    PROVE  JInv'
  <1>1. \A k : (Cleanup(k) => k \in Executions) /\ (CleanupExport(k) => k \in Exports)
    BY DEF Cleanup, CleanupExport
  <1>2. ASSUME NEW j \in Jobs, CreatorStep(j)
        PROVE  JInv'
    BY <1>2, StartExecutionKeeps, StageSqlKeeps, InsertExecutionKeeps, DeriveKeeps,
      DispatchKeeps, FailDispatchKeeps, AfterFailedDispatchKeeps, DropInputKeeps,
      DropReservationKeeps DEF CreatorStep
  <1>3. ASSUME NEW j \in Jobs, WorkerStep(j)
        PROVE  JInv'
    BY <1>3, ClaimKeeps, RaiseKeeps, TakeSqlKeeps, AuthorizeKeeps, TakePermitKeeps, UploadKeeps,
      CompleteKeeps, VerifyKeeps, FailKeeps, PurgeFailedKeeps, ReleaseFailedKeeps,
      CloseKeeps DEF WorkerStep, RunQuery, RunExport, RunSort, RunJob
  <1>4. ASSUME NEW j \in Jobs, CrashCreator(j) \/ CrashWorker(j) \/ Redispatch(j)
        PROVE  JInv'
    BY <1>4, CrashCreatorKeeps, CrashWorkerKeeps, RedispatchKeeps
  <1>5. ASSUME Sweep
        PROVE  JInv'
    BY <1>5, <1>1, CleanupKeeps, CleanupViewKeeps, CleanupExportKeeps, WorkerLostKeeps,
      FailQueuedKeeps, DeleteTombstoneKeeps,
      PurgeWorkspaceIdKeeps DEF Sweep, SweepViews, Jobs, Derived
  <1>6. ASSUME JanitorStep, ~Sweep
        PROVE  JInv'
    BY <1>6, CleanupUnownedKeeps, InvalidateExecutionKeeps, ExpireExecutionKeeps,
      InvalidateExportsKeeps, TombstoneKeeps, NextViewKeeps, InvalidateViewKeeps,
      PurgeViewKeeps, ReleaseViewKeeps, PurgeExecutionKeeps, ReleaseExecutionKeeps,
      MarkCleanedKeeps, EraseKeeps, FreeKeeps DEF JanitorStep
  <1>7. ASSUME Clock
        PROVE  JInv'
    BY <1>7, AgeKeeps, LapseDispatchKeeps, PassWorkerDeadlineKeeps, LapsePermitKeeps,
      CloseWorkspaceKeeps DEF Clock
  <1>8. ASSUME JanitorStops \/ PurgeWorkspace
        PROVE  JInv'
    BY <1>8, JanitorStopsKeeps, PurgeWorkspaceKeeps
  <1>9. ASSUME NEW e \in Executions, Cancel(e)
        PROVE  JInv'
    BY <1>9, CancelKeeps
  <1>10. ASSUME NEW v \in Views, DeleteView(v)
        PROVE  JInv'
    BY <1>10, DeleteViewKeeps
  <1>11. CASE UNCHANGED vars
    BY <1>11, Frame DEF JInv, vars, world, calm
  <1> QED
    BY <1>2, <1>3, <1>4, <1>5, <1>6, <1>7, <1>8, <1>9, <1>10, <1>11 DEF Next, JanitorStep

-----------------------------------------------------------------------------
(* What a step may make of a job that ended.                               *)

Forward(j) ==
    /\ job[j].state \in Terminal /\ job'[j].state # job[j].state
          => job'[j].state \in {"expired", "purged", "deleted"}
    /\ job[j].state = "completed" /\ job'[j].state # "completed"
          => \/ job'[j].state = "purged"
             \/ /\ job'[j].state = "expired"
                /\ job[j].expired \/ (j \in Derived /\ ~Ready(job[j].source))

AllForward == \A j \in Jobs : Forward(j)

\* What a step may make of a job that ended, whoever takes it.
LEMMA StepsGoForward ==
    ASSUME JInv, [Next]_vars
    PROVE  AllForward
  <1> USE DEF AllForward
  <1>1. ASSUME NEW e \in Executions, InsertExecution(e)
        PROVE  AllForward
    BY <1>1, KindsAreDistinct DEF JInv, Forward, InsertExecution, TypeOK, Ready, Terminal, Live,
      Created, CanInsert, InsertedExecution, At, Fault, world, Jobs, States, Spent, Admitted,
      CanReserve, Queued, Derived, Stopped, NoJob, Over, Writing
  <1>2. ASSUME NEW j \in Jobs, DropReservation(j)
        PROVE  AllForward
    BY <1>2, KindsAreDistinct DEF JInv, Forward, DropReservation, TypeOK, Ready, Terminal, Live,
      Tidied, CleanedExport, At, world, calm, Jobs, States, Absent, Derived
  <1>3. ASSUME NEW j \in Jobs, FailDispatch(j)
        PROVE  AllForward
    <2>1. Ended(j)
      BY <1>3, FinishEnds DEF FailDispatch
    <2> QED
      BY <2>1 DEF Ended, Alone, Forward, Live, Terminal
  <1>4. ASSUME NEW d \in Derived, NEW e \in Executions, Derive(d, e)
        PROVE  AllForward
    BY <1>4, KindsAreDistinct DEF JInv, Forward, Derive, TypeOK, Ready, Terminal, Live,
      CanDerive, Queued, At, world, calm, Jobs, States, Admitted, CanReserve, ExportsOf, NoJob,
      Derived, Absent
  <1>5. ASSUME NEW j \in Jobs, Claim(j)
        PROVE  AllForward
    <2>1. Alone(j) /\ job[j].state = "queued"
      BY <1>5 DEF Claim, Alone, JInv, TypeOK
    <2> QED
      BY <2>1 DEF Alone, Forward, Terminal
  <1>6. ASSUME NEW j \in Jobs, Complete(j)
        PROVE  AllForward
    <2>1. Ended(j)
      BY <1>6, FinishEnds DEF Complete
    <2> QED
      BY <2>1 DEF Ended, Alone, Forward, Live, Terminal
  <1>7. ASSUME NEW j \in Jobs, Fail(j)
        PROVE  AllForward
    <2>1. Ended(j)
      BY <1>7, FinishEnds DEF Fail
    <2> QED
      BY <2>1 DEF Ended, Alone, Forward, Live, Terminal
  <1>8. ASSUME NEW j \in Jobs, ReleaseFailed(j)
        PROVE  AllForward
    BY <1>8, KindsAreDistinct DEF JInv, Forward, ReleaseFailed, TypeOK, Ready, Terminal, Live,
      Tidied, CleanedExport, CleanedView, At, calm, WorkerOnly, Jobs, States, Absent, world,
      Derived
  <1>9. ASSUME NEW j \in Jobs, Close(j)
        PROVE  AllForward
    BY <1>9, KindsAreDistinct DEF JInv, Forward, Close, TypeOK, Ready, Terminal, Live, At, calm,
      WorkerOnly, Jobs, States, world, Derived
  <1>10. ASSUME ExpireExecution
        PROVE  AllForward
    BY <1>10, KindsAreDistinct DEF JInv, Forward, ExpireExecution, TypeOK, Ready, Terminal,
      Live, Steps, Cleaning, Go, Quiet, Jobs, States, WorkerSteps, CreatorSteps, JanitorRecord,
      Derived, ViewSteps, AloneSteps, CleaningSteps, Stopped, Absent, ExportsOf, JanitorOnly,
      Writing, JanitorSteps, Over
  <1>11. ASSUME NEW e \in Executions, InvalidateExecution(e)
        PROVE  AllForward
    BY <1>11, KindsAreDistinct DEF JInv, Forward, InvalidateExecution, TypeOK, Ready, Terminal,
      Live, Uncleaned, Quiet, Jobs, States, Absent, JanitorOnly, Derived
  <1>12. ASSUME InvalidateExports
        PROVE  AllForward
    BY <1>12, KindsAreDistinct DEF JInv, Forward, InvalidateExports, TypeOK, Ready, Terminal,
      Live, Steps, CleaningAlone, Jobs, ExportsOf, Idle, Go, Quiet, States, WorkerSteps,
      CreatorSteps, JanitorRecord, Derived, ViewSteps, AloneSteps, Spent, Absent, JanitorOnly,
      Writing, JanitorSteps, Stopped, CleaningSteps, Over
  <1>13. ASSUME InvalidateView
        PROVE  AllForward
    BY <1>13, KindsAreDistinct DEF JInv, Forward, InvalidateView, TypeOK, Ready, Terminal, Live,
      Steps, CleaningView, Absent, Idle, Go, Quiet, Jobs, States, WorkerSteps, CreatorSteps,
      JanitorRecord, Derived, ViewSteps, AloneSteps, Stopped, JanitorOnly, Writing,
      JanitorSteps, Over, CleaningSteps
  <1>14. ASSUME ReleaseView
        PROVE  AllForward
    BY <1>14, KindsAreDistinct DEF JInv, Forward, ReleaseView, TypeOK, Ready, Terminal, Live,
      Steps, CleaningView, Absent, CleanedView, Idle, Quiet, Jobs, States, WorkerSteps,
      CreatorSteps, JanitorRecord, Derived, ViewSteps, AloneSteps, Stopped, JanitorOnly,
      Writing, JanitorSteps, Over, CleaningSteps
  <1>15. ASSUME MarkCleaned
        PROVE  AllForward
    <2>1. /\ janitor.step = "cleaned" /\ janitor.job \in Executions
          /\ job[janitor.job].state \in {"expired", "purged"}
      BY <1>15, KindsAreDistinct DEF MarkCleaned, JInv, Steps, Cleaning, CleaningSteps
    <2>2. \A k \in Jobs : CleanedExecution(job[k]).state \in {"expired", "purged"}
      BY CleanedRecords DEF JInv, TypeOK, JobRecord
    <2>3. \A k \in Jobs :
             \/ job'[k] = job[k]
             \/ k = janitor.job /\ job'[k].state \in {"expired", "purged"}
             \/ k \in ExportsOf(janitor.job) /\ job'[k] = CleanedExecution(job[k])
      BY <1>15, <2>2 DEF MarkCleaned, JInv, TypeOK
    <2> QED
      BY <2>1, <2>2, <2>3 DEF Forward, Ready, ExportsOf, Derived, Terminal
  <1>16. ASSUME Free
        PROVE  AllForward
    BY <1>16, KindsAreDistinct DEF JInv, Forward, Free, TypeOK, Ready, Terminal, Live, Steps,
      CleaningAlone, Tidied, Absent, CleanedExport, Idle, Quiet, Jobs, States, WorkerSteps,
      CreatorSteps, JanitorRecord, Derived, ViewSteps, AloneSteps, Spent, JanitorOnly, Writing,
      JanitorSteps, Stopped, CleaningSteps, Over
  <1>17. ASSUME NEW j \in Jobs, WorkerLost(j)
        PROVE  AllForward
    <2>1. Ended(j)
      BY <1>17, FinishEnds DEF WorkerLost
    <2> QED
      BY <2>1 DEF Ended, Alone, Forward, Live, Terminal
  <1>18. ASSUME NEW j \in Jobs, FailQueued(j)
        PROVE  AllForward
    <2>1. Ended(j)
      BY <1>18, FinishEnds DEF FailQueued
    <2> QED
      BY <2>1 DEF Ended, Alone, Forward, Live, Terminal
  <1>19. ASSUME NEW j \in Jobs, DeleteTombstone(j)
        PROVE  AllForward
    BY <1>19, KindsAreDistinct DEF JInv, Forward, DeleteTombstone, TypeOK, Ready, Terminal,
      Live, Tidied, Idle, Absent, NoJob, Quiet, Jobs, States, JanitorOnly, Derived
  <1>20. ASSUME NEW e \in Executions, Cancel(e)
        PROVE  AllForward
    <2>1. Ended(e)
      BY <1>20, FinishEnds DEF Cancel, Jobs
    <2> QED
      BY <2>1 DEF Ended, Alone, Forward, Live, Terminal
  <1>21. ASSUME NEW v \in Views, DeleteView(v)
        PROVE  AllForward
    BY <1>21, KindsAreDistinct DEF JInv, Forward, DeleteView, TypeOK, Ready, Terminal, Live,
      Admitted, Absent, StoreOnly, Jobs, States, calm, Derived
  <1>22. ASSUME NEW j \in Jobs, Age(j)
        PROVE  AllForward
    BY <1>22, KindsAreDistinct DEF JInv, Forward, Age, TypeOK, Ready, Terminal, Live, Absent,
      Jobs, StoreOnly, States, Derived, calm
  <1>23. ASSUME NEW j \in Jobs, LapseDispatch(j)
        PROVE  AllForward
    BY <1>23, KindsAreDistinct DEF JInv, Forward, LapseDispatch, TypeOK, Ready, Terminal, Live,
      StoreOnly, Jobs, States, calm, Derived
  <1>24. ASSUME NEW j \in Jobs, PassWorkerDeadline(j)
        PROVE  AllForward
    BY <1>24, KindsAreDistinct DEF JInv, Forward, PassWorkerDeadline, TypeOK, Ready, Terminal,
      Live, StoreOnly, Jobs, States, calm, Derived
  <1>25. UNCHANGED job => AllForward
    BY DEF Forward
  <1>26. ASSUME NEW j \in Jobs,
               \/ StartExecution(j) \/ StageSql(j) \/ DropInput(j) \/ Dispatch(j)
               \/ AfterFailedDispatch(j) \/ CrashCreator(j) \/ Raise(j) \/ TakeSql(j)
               \/ Authorize(j) \/ TakePermit(j) \/ Upload(j) \/ Verify(j)
               \/ PurgeFailed(j) \/ CrashWorker(j) \/ CleanupUnowned(j) \/ Cleanup(j)
               \/ CleanupView(j) \/ CleanupExport(j) \/ Redispatch(j) \/ LapsePermit(j)
        PROVE  AllForward
    BY <1>26, <1>25 DEF StartExecution, world, calm, StageSql, DropInput, Dispatch,
      AfterFailedDispatch, CrashCreator, Raise, WorkerOnly, TakeSql, Authorize, TakePermit,
      Upload, Verify, PurgeFailed, CrashWorker, CleanupUnowned, Quiet, JanitorOnly, Cleanup,
      CleanupView, CleanupExport, Redispatch, LapsePermit
  <1>27. ASSUME
               \/ PurgeWorkspaceId \/ Tombstone \/ NextView \/ PurgeView
               \/ PurgeExecution \/ ReleaseExecution \/ Erase \/ JanitorStops
               \/ PurgeWorkspace \/ CloseWorkspace
        PROVE  AllForward
    BY <1>27, <1>25 DEF PurgeWorkspaceId, JanitorOnly, Tombstone, NextView, Quiet, PurgeView,
      PurgeExecution, ReleaseExecution, Erase, JanitorStops, PurgeWorkspace, StoreOnly, calm,
      CloseWorkspace
  <1> HIDE DEF AllForward
  <1>28. ASSUME NEW j \in Jobs, CreatorStep(j)
        PROVE  AllForward
    BY <1>28, <1>26, <1>1, <1>4, <1>3, <1>2 DEF CreatorStep, Jobs
  <1>29. ASSUME NEW j \in Jobs, WorkerStep(j)
        PROVE  AllForward
    BY <1>29, <1>5, <1>26, <1>6, <1>7, <1>8,
      <1>9 DEF WorkerStep, RunQuery, RunExport, RunSort, RunJob
  <1>30. ASSUME NEW j \in Jobs, CrashCreator(j) \/ CrashWorker(j) \/ Redispatch(j)
        PROVE  AllForward
    BY <1>30, <1>26
  <1>31. ASSUME Sweep
        PROVE  AllForward
    BY <1>31, <1>26, <1>17, <1>18, <1>19, <1>27 DEF Sweep, SweepViews, Jobs, Derived
  <1>32. ASSUME JanitorStep, ~Sweep
        PROVE  AllForward
    BY <1>32, <1>26, <1>11, <1>10, <1>12, <1>27, <1>13, <1>14, <1>15, <1>16
       DEF JanitorStep, Jobs
  <1>33. ASSUME Clock
        PROVE  AllForward
    BY <1>33, <1>22, <1>23, <1>24, <1>26, <1>27 DEF Clock
  <1>34. ASSUME JanitorStops \/ PurgeWorkspace
        PROVE  AllForward
    BY <1>34, <1>27
  <1>35. ASSUME NEW e \in Executions, Cancel(e)
        PROVE  AllForward
    BY <1>35, <1>20
  <1>36. ASSUME NEW v \in Views, DeleteView(v)
        PROVE  AllForward
    BY <1>36, <1>21
  <1>37. CASE UNCHANGED vars
    BY <1>37, <1>25 DEF vars
  <1> QED
    BY <1>28, <1>29, <1>30, <1>31, <1>32, <1>33, <1>34, <1>35, <1>36,
      <1>37 DEF Next, JanitorStep

-----------------------------------------------------------------------------
(* The theorems.                                                           *)

\* The inductive invariant holds in every state, for every number of jobs and
\* faults: what each creator, worker and cleanup knows, and that a job that has
\* stopped stays so (create_execution, run_query, run_export, run_sort, cleanup,
\* purge_workspace_id, cleanup_view, sweep).
THEOREM JobsAreSound == Spec => []JInv
  <1>1. Init => JInv
    BY InitSound
  <1>2. JInv /\ [Next]_vars => JInv'
    BY StepsAreSound
  <1> QED
    BY <1>1, <1>2, PTL DEF Spec

\* Nothing private is in the bucket without a reservation, nothing of a cleaned
\* job comes back, and the shared permit is with one worker, whatever crashes,
\* races and late uploads there are (_release_storage, _permit, the cleanups).
THEOREM ResourcesAccounted == Spec => []ResourcesAreAccountedFor
  <1>1. ASSUME JInv PROVE PermitsAreReturned
    <2> DEFINE S == permits \cap Derived
    <2>1. Cardinality(S) <= 1
      <3>1. CASE S = {}
        BY <3>1, FS_EmptySet
      <3>2. CASE S # {}
        <4>1. PICK a \in S : S = {a}
          BY <1>1, <3>2 DEF JInv, Permitted
        <4> QED
          BY <4>1, FS_Singleton
      <3> QED
        BY <3>1, <3>2
    <2> QED
      BY <1>1, <2>1 DEF JInv, Permitted, PermitsAreReturned
  <1>2. JInv => ResourcesAreAccountedFor
    BY <1>1 DEF JInv, ResourcesAreAccountedFor
  <1> QED
    BY <1>2, JobsAreSound, PTL

\* A client request has one capture, and what is shown as completed can be read,
\* whichever creators race and whichever cleanup runs beside the reader
\* (create_execution, _finish, page, open_download).
THEOREM CapturesStayWhole == Spec => []CapturesAreWhole
  <1>1. JInv => CapturesAreWhole
    BY DEF JInv, CapturesAreWhole
  <1> QED
    BY <1>1, JobsAreSound, PTL

\* A job that ended only moves on towards expired, purged and deleted, and a
\* completed one ends only by a purge or by its expiry (_finish, the cleanups).
THEOREM EndedStaysEnded == Spec => NoResurrection
  <1>1. JInv /\ [Next]_vars => AllForward
    BY StepsGoForward
  <1>2. AllForward <=> \A j \in Jobs :
           /\ job[j].state \in Terminal /\ job'[j].state # job[j].state
                 => job'[j].state \in {"expired", "purged", "deleted"}
           /\ job[j].state = "completed" /\ job'[j].state # "completed"
                 => \/ job'[j].state = "purged"
                    \/ /\ job'[j].state = "expired"
                       /\ job[j].expired \/ (j \in Derived /\ ~Ready(job[j].source))
    BY DEF AllForward, Forward
  <1> QED
    BY <1>1, <1>2, JobsAreSound, PTL DEF Spec, NoResurrection
=============================================================================
