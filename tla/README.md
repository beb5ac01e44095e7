# Verification of the engineering platform API

This directory holds TLA+ specifications of the protocols of the platform API:
the *release execution* that takes a push or a pull request through a quality
build, evidence, a plan and the publication of a tag and a GitHub Release; the
deployment commands and the image that carries them out; the jobs of the
database console; the shared log budget; the authorization of MCP clients; the
circuit of GitHub Actions; and the one-time quality bootstrap. TLC checks small
instances; TLAPS proves, for every instance, the safety of the release record, of
the handlers that use it, of the bootstrap, of the circuit, of the MCP
authorization, of a run of the executor image, of the database jobs and of the
deployment commands, and that the handlers and the deployment commands implement
their abstract specifications.

Paths below are relative to the repository: `services/x.py` and `routers/x.py`
mean `src/eng_platform_api/services/x.py` and `.../routers/x.py`.

## 1. The system

The API is a set of stateless replicas on Cloud Run. Everything that must
survive a request is in Firestore, Cloud Storage, Cloud Build or GitHub. A
request is served by one replica, which may die at any moment; any number of
requests may be in progress for the same record.

| Part | State it keeps | Operations | What makes it hard, and what has to hold |
| --- | --- | --- | --- |
| Release execution record (`services/release_executions.py`) | one document per execution: status, provider, bound build and run, event sequence, reports, plan, retry counters, tokens, publication claim | about twenty short transactions: reserve, claim_submission, bind_build, accept_event, save, stage_planner_retry, claim_publish, ... | every handler changes it from a copy read earlier; no order of transactions may publish without evidence, reopen a finished record, or swap a bound build |
| Submission (`services/release_cloud_build.py`) | none of its own; builds carry tags and substitutions | submit, reconcile_uncertain_submission, cancel, verify a build | the POST is not idempotent and may be lost or unanswered; never two builds at work, never one forgotten |
| Callbacks (`routers/release_execution_events.py`) | token hashes in the record | resolve, event token, source token, events | late, repeated or reordered events of a live or a retired build |
| Reconciliation (`services/release_reconciler.py`, `routers/release_operations.py`) | the record, the evidence store, GitHub | reconcile after each event, the scheduled sweep, planner recovery, publication | runs concurrently with the callbacks and with itself; a crash between claim, tag, Release and save; one half published |
| Orchestrator (`services/release_orchestrator.py`) | the record | webhooks, start_release, approve_canary, supersede, cancel_release, cancellation of older heads of a PR | an operator's decision races the publisher |
| Publication (`services/github_release_control.py`) | tag and Release on GitHub | publish_release, check runs | two objects, created one after the other, answers lost, foreign objects |
| Quality executor and planner (`docker/quality-executor`, `docker/release-planner`) | none | one token request, up to three events | each callback is sent once; an error answer fails the build |
| Evidence store (`services/quality_store.py`) | write-once reports, latest pointers | store, read | written before the record that refers to it |
| Quality bootstrap (`services/release_quality_bootstrap.py`) | a global ticket, fields of the execution | request, reserve, claim, POST, bind, read-only recovery | one POST in the life of the platform; GitHub may start the same work meanwhile; a lost answer may only be recovered by reading |
| Deployment commands (`services/deployment_commands.py`, `deployment_executions.py`, `deployment_store.py`, `cloud_build.py`, `github_deployments.py`) | a fence per service and key, intents, deployment items, private executions | start_deployment, start_rollback, dispatch, retry, submit, refresh, sweep of stalled intents | a command acts once; two do not act on a service at a time; answers, replicas and callbacks are lost |
| Deployment events (`routers/deployment_events.py`) | event sequence | accept events of the executor | events overtake each other and the refresh |
| Release authorization (`services/release_authorization*.py`) | single-use authorizations of workflow runs | issue, consume, continue, revoke | a rejected dispatch may have created a run |
| Release executor image (`docker/release-executor/release_executor.py`) | its memory; traffic, Job definitions, triggers, runtime grants | deploy, deploy_runtime, staged candidate and promotion, deploy_job, three rollbacks | any command fails, with or without its effect, also during the recovery; the run is killed |
| Executor circuit (`services/executor_circuits.py`) | one document per account: state, probe, answered requests, propagation lease | open, reserve a probe, dispatch, record, close, lease | a stale probe must not close a newer opening; a key sends once |
| Database jobs (`services/database_jobs.py`, `database_views.py`, `database_tasks.py`) | job documents, bucket objects, reservations, permits | create, run, export, sort, cancel, purge, clean up, sweep | two creators, a late worker, a cleanup beside an upload, lost acknowledgements |
| Log budget and samples (`services/log_budget.py`, `runtime_logs.py`) | a budget document changed by compare-and-swap; samples in memory | acquire, finish, refresh, evict, invalidate | the quota holds across replicas; lost acknowledgements; samples discarded during a call |
| MCP server (`mcp_server.py`, `services/mcp_*.py`, `routers/mcp_consent.py`) | consents, codes, grants, credentials, audit | consent, exchange, refresh, revoke, tool calls | a refresh races a revocation; a check that is passed before the grant ends, a change made between two checks |
| Webhooks, event pool, cost alerts, usage, catalog, secrets, SQL, console | journals, read models, configuration | queries, formatting, at-most one lease | see section 5 |

Interactions. A webhook or an operator reserves an execution and calls `submit`,
which lists, claims, POSTs and binds a build. The build asks for an event token and
reports events; each event is accepted by a transaction and followed by `reconcile`
in the same request. The scheduler calls the sweep, which reconciles every due
record. `reconcile` reads the build, writes the evidence, commits the verdict, then
the plan, then claims and publishes. Operators approve, retire or cancel at any
point. All of them meet only in the record. A released tag is then deployed by a
command, which takes the fence of the service, persists an intent and an item, and
dispatches a workflow run or a build of the release executor image; the run consumes
its authorization, changes production and reports events. The circuit decides
nothing while it is closed; a bootstrap hands one waiting execution from GitHub to
Cloud Build. MCP tools call the same services as the routers, with checks of their
own around each change or answer; a revoked session purges the captures of the
database console.

`PROJECT.json` lists the parts with what is modelled of each, the hazards with
the line where each bites and the properties aimed at it, and for every
definition the source lines it stands for.

## 2. Modules

| Module | Contents |
| --- | --- |
| `ReleaseExecutions` | the record; one action per transaction. This is the abstract specification: what the record promises whatever the order in which handlers use it |
| `ReleaseExecutionsProofs` | the TLAPS proofs about it |
| `ReleaseReconciliation` | the handlers, one action per interaction with shared state, composed with Cloud Build, GitHub, the evidence store, time and faults. It extends `ReleaseExecutions`, uses its transactions, and implements its `Spec` (`ImplementsStore`, checked and proved) |
| `ReleaseReconciliationProofs` | the TLAPS proofs about it; extends `ReleaseExecutionsProofs` |
| `QualityBootstrap` | the ticket, its requests, the only POST and the recovery by reading |
| `QualityBootstrapProofs` | the TLAPS proofs about it |
| `ServiceWork` | abstract: what deployment commands promise about one service |
| `Deployments` | commands, dispatch, authorizations, events and refreshes of one service; checked and proved to implement `ServiceWork` through a refinement mapping (`EffectsOnce`) |
| `DeploymentsProofs` | the TLAPS proofs about it |
| `ReleaseExecutor` | one run of the release executor image |
| `ReleaseExecutorProofs` | the TLAPS proofs about it |
| `ExecutorCircuit` | the circuit document with its requests, webhooks and sweeps |
| `ExecutorCircuitProofs` | the TLAPS proofs about it |
| `DatabaseJobs` | executions, exports and views of one workspace |
| `DatabaseJobsProofs` | the TLAPS proofs about it |
| `RuntimeLogs` | the budget document of all replicas and the samples of one |
| `McpAuthorization` | one authorization of an MCP client and the checks around its tool calls |
| `McpAuthorizationProofs` | the TLAPS proofs about it |
| `MC...` | instances for TLC, where the constants need definitions |

### 2.1 `ReleaseExecutions`

One variable, `rec`, the document. Fields keep the idea of the source's: `build`
is `build_id`, `run` is `provider_run_id`, `sequence` is `event_sequence`,
`engine` is `engine_event_status`, `report` the pending report, `committed` and
`evidence` the committed one (`evidence_committed`), `plan` is `release_plan`,
`engineFailed` is `release_engine_failed`, `succeeded` is the provider's success,
`attempts` is `reconciliation_attempts`, `retries`, `retryPending`, `checked`,
`retryImage`, `remediationImage` and `retired` are the planner-recovery fields,
`claimed` is the publication claim, `pubUncertain` is `publication_uncertain`,
`canary` is `canary_approved`, `eventToken` and `sourceToken` name the build the
token was issued to. Payloads are abstracted to what decides a branch: a report
is good or bad for the policy, a plan is missing, none or semantic.

Each action is one transaction; its guard is what the transaction re-checks on
the version it updates. Arguments that the code reads *before* the transaction
(the attempt count of `reconcile_submission_absent`, the retry count that
selects a flag in `SpendRetry`, the classification of a failure) are
parameters, so a stale caller is just another argument. Two guards state a fact
of the caller: `SavePlanned` and `SaveNoRelease` require evidence, and
`SaveReleased` and `SavePublicationUncertain` require the claim. The code does
not test them inside the transaction; the handlers reach the save only after
having seen them. Neither fact is ever withdrawn, and `ImplementsStore` says that
the handlers do respect them.

### 2.2 `ReleaseReconciliation`

`hand[w]` is request `w`: where it is (`pc`), its kind, who called `submit`
(`via`), the planner image of its replica, the copy of the record it acts on
(`snap`), the build it found or made as a submitter (`found`), and the build and
event it was called with. `builds` is Cloud Build, `github` the tag, the
Release and whether main has moved, `stored` the evidence, `image` the planner
image of newly started replicas, `stamps` whether `updated_at` and
`uncertain_since` are older than the grace period and whether the record has the
status code of an error answer (`submission_status_code`), `drift` whether the
record's error is the build-identity message, `faults` a counter. The request
that opened the execution is `Opening`; `Origin` says whether it is a webhook or
`start_release`.

A POST is answered by its build, by nothing, or by an error. `submit` takes every
error answer, a 5xx included, for a refusal; `Post` therefore lets an error answer
leave a build behind (`Doubtful`), which may ask for its token and report events
like any other.

| Actions | Code |
| --- | --- |
| `StartChecks` `Get` `List` `Claim` `Post` `MarkUncertain` `MarkRefused` `Bind` | `_start_checks`, `submit` |
| `Unsure` `Seek` `Absent` `Reopen` | `reconcile_uncertain_submission` |
| `Reconcile` `ReadBuild` `Clear` `Blame` `BuildFailed` `Reget` `StoreEvidence` `Commit` `PlanFailed` `NoRelease` `NoPlan` `Plan` | `reconcile`, `_provider_success`, `_commit_quality` |
| `ClaimRelease` `Reread` `CheckBranch` `LookupTag` `CreateTag` `LookupRelease` `CreateRelease` `Conflict` `Doubt` `Released` | `_publish_if_allowed`, `publish_release` |
| `Inspect` `Stage` `Spend` `Recover` `Recovered` | planner recovery |
| `RecordUnknown` `GiveUp`, the operator `Raise` | where exceptions end: the sweep, the event endpoint, `start_release` |
| `Verify` `BindCaller` `IssueToken` `Admit` `Accept` | the callbacks |
| `Approve` `Supersede` `Cancel` `FindStopped` `ListStopped` `BindStopped` `StopBuild` `SaveStopped` | operators, newer heads of a PR |
| `Redeliver` `Sweep` `AskApprove` `AskSupersede` `AskCancel` `NewHead` `AskToken` `SendEvent` | requests arriving |
| `Reply` `EndBuild` `Age` `RollForward` `Interfere` `Crash` | builds and the environment |

A *fault* is a crash, a lost or failed answer, a paused policy, a refused POST, a
failing check run or evidence write, a duplicated webhook, a sweep delivered while
another is in progress, or somebody else pushing to main or creating the tag or
Release. Every fault is possible at every step where the code makes the call; only
their number is bounded.

What the model assumes of its surroundings:

- the listing of builds sees every build created so far, and a POST that got no
  answer has taken effect by the time it times out or never does;
- a replica keeps its planner image for the whole request;
- a submitter gets from the POST to its next transaction within the grace
  period (`Age` waits for it): the POST times out after 30 s, the grace period is
  120 s;
- check runs are calls that may fail; their contents are not modelled.

Left out of the handlers: the bootstrap ticket's branch of `reconcile`, the
accounting of build minutes, the endpoints used by GitHub-hosted runs (their
transactions are in `ReleaseExecutions`), source tokens beyond their
transaction, and the 409 for a report whose upload is still missing.

### 2.3 `QualityBootstrap`

`rec` is the execution as far as the bootstrap touches it, `ticket` the global
ticket, `req[r]` and `sweep[s]` the requests, reconciliations and callbacks in
progress, `builds` the builds that carry the execution's tag, `workflow` and
`holding` what must hold outside.

| Actions | Code |
| --- | --- |
| `Begin` `Prove` `Reserve` `Recheck` `Claim` `Post` `Bind` `ReadLatest` `MakeUnknown` | `request_quality_bootstrap`, the two proofs, `reserve_quality_bootstrap`, `claim_quality_bootstrap_dispatch`, `submit_quality_bootstrap` |
| `Look` `BindFound` `IssueToken` `Report` | `reconcile_quality_bootstrap`, `verify_quality_bootstrap_build`, the callbacks |
| `Admit` | `admit_github_run` |
| `Consolidate` | the reconciliation of section 2.2, here one step |
| `Outside` `StartRun` `EndBuild` `Crash` | operators, GitHub, copied or edited builds, faults |

### 2.4 `Deployments` and `ServiceWork`

Per idempotency key: `intent`, `item` (the deployment document), `exec` (the
private execution), `token` (authorizations), `runs` (what the provider runs),
`caller` (the request that issues or repeats the command). `fence` is the lock of
the service; it is taken and given back with the fence of the key. `live` is the
command whose revision serves. Handlers read in one step and write in a later
one. `mail` are the events on their way: an engine posts the next one when the last
was answered or given up, possibly while a handler still works on it; an event
may be lost and is never resent. A workload says whether its GitHub runs are
*staged*: only the services whose configuration has a continuation
(`services/github_execution_config.py:25`) check their authorization again before
the promotion (`MayContinue`), the one-job workflows of all others consume it once
when they begin. The deployment workflows of a service share the concurrency group
`deploy-<service>`, so a workflow run begins only when no other one of the service is
at work (`WorkflowAtWork`); nothing of the kind holds between builds, or between a
build and a workflow run.

| Actions | Code |
| --- | --- |
| `Start` `RetryFailedDispatch` `SaveIntent` `CreateDeployment` `CreateManagedDeployment` `DropIntent` | `start_deployment`, `start_rollback`, `command_guard`, `persist_before_dispatch` |
| `Reserve` `ClaimDispatch` `ReclaimDispatch` `RetryLookup` `Dispatch` `RecordDispatch` `RevokeAuthorization` | the GitHub dispatch |
| `Submit` `ClaimSubmission` `Post` `RecordSubmission` `BindBuild` `Announce` `Save` `Abandon` | the Cloud Build submission |
| `Appear` `BeginRun` `FinishRun` `FailRun` `QueueRestore` `RestoreRun` `KillRun` `LoseSummary` `RerunWorkflow` | the runs (external), with `consume` and `verify_continuation` |
| `ReceiveEvent` `AcceptEvent` `Refresh` `WorkflowRunEnded` `WriteItem` `SweepIntent` | event route, `refresh` of both engines, webhook, sweep of stalled intents |

`ServiceWork` says: the remote work of a command begins at most once, and not
beside that of another unless one of the two is *excused*. `EffectsOnce` is its
`Spec` with `begun`, `working` and `excused` mapped to the runs. A command is
excused when the code gives the promise up: its failed dispatch was retried, or
its record says failed although its run may go on. The cases are listed under
observations.

### 2.5 `ReleaseExecutor`

An operation is a path of steps (`Path`); `at` is the step. Every command of a
tool succeeds, fails without effect, or fails after its effect (a timeout).
`OnFail` gives the except or finally block a failure ends in; the recovery
(`Recover` `Reauthorize` `Restore` `Verify` `Revoke` `Restored` `Abort`) is made of
commands that may fail too. `serving` is the revision with the traffic or the
definition of the Job, `paired` the resources of hooks, `grants` the authorized
runtimes, `sched` the triggers, `saved` the definitions in the bucket. `facts`
are the external conditions the code checks; `ForeignChange` withdraws one, or
moves production, while an approval is pending. `Kill` ends the run anywhere.

### 2.6 `ExecutorCircuit`

The document is `state`, `probe`, `history` (`probe_requests`) and `lease`
(`mode_propagation`). `Reserve` `Replay` `Reauthorize` `Dispatch` `FinishDispatch`
are the request of a probe, `Deliver` `RecordProbe` `CloseAfterProbe` the webhook,
`ClaimPropagation` `FinishPropagation` `Lapse` the lease, `OpenCircuit` the opening,
which rewrites the document. An opening is numbered so that a probe or a sweep of an
earlier one can be told apart. A sweep knows its own lease (`sweep[s]`), whatever the
document says: an opening drops the lease from the document, and the sweep that
held it goes on until it finishes or its lease lapses (`LapseUnseen`).

### 2.7 `DatabaseJobs`

`job[j]` is the document of an execution, export or view; `objects` the bucket;
`reserved` and `permits` the budget control document; `request` the records of
client requests. `creator`, `worker` and `janitor` are the processes. A creator
stages, inserts, dispatches and undoes (`StartExecution` ... `DropReservation`,
`Derive` for exports and views); a worker claims, authorizes, takes a permit,
uploads, completes, and on failure purges and releases (`RunQuery` `RunExport`
`RunSort`); the janitor is the cleanup task and the sweep (`Cleanup` ...
`DeleteTombstone`); `Cancel` `DeleteView` `PurgeWorkspace` come from the user;
`Age` `LapseDispatch` `PassWorkerDeadline` `LapsePermit` `CloseWorkspace` are time.
Time is trusted in two places: a worker deadline (270 s) passes only when its
worker, limited to 240 s, can no longer write; a cleanup without a row (TTL one
hour) comes after its creator ended. `misled` remembers executions whose caller
was told of a failure that may not have been one.

### 2.8 `RuntimeLogs`

`doc` is the budget document (attempts in the window, queue, cadence), replaced by
compare-and-swap: `ReadBudget` computes a draft, `SwapBudget` installs it, fails,
or loses the acknowledgement. `Open` `BeginRefresh` `Dispatch` `EndCall` `Merge`
`Publish` `Complete` `EndRefresh` `Collect` are a refresh of a sample; `caches` and
`objs` are the samples by participant and as objects, because a discarded sample
may still be held by a call. Rows are counted, not stored; the victim of an
eviction is any unlocked sample. `Tick` is one cadence; times are relative. Where
`_is_current` cannot read the catalog (`Unread`, a fault), it pops whatever sample is
under the key without discarding it (`Popped`), so a sample may outlive its entry
in `caches` until the call that holds it returns. An entry is the unit of the
buffer: `_bound_locked` evicts by `buffer_entries` and by `buffer_bytes` in the same
loop, and only the first is modelled.

### 2.9 `McpAuthorization`

`docs` are the state, consent and code documents, `pairs` and `kept` the token
indices, `grants` the grants. Requests go through consent (`AskCallback` ...
`IssueCode`), exchange and refresh (`AskExchange` `AskRefresh` `Reload` `Issue`
`SaveAccess` `SaveRefresh` `Activate` `Discard` `Answer`), revocation (`Revoke`
`Purge`) and tool calls, of which there are four kinds, one for each way the tools
are checked. A mutation is admitted, counts, checks its authority, acts, is audited
and answers. A database tool runs between two checks of its session
(`_database_call`), so what it creates, starts, cancels or purges is committed when
the second check refuses. A read looks and is rechecked, catalog included, before it
answers (`_read`); `get_deployment` is a read that also reconciles and writes. (In
the names of the module: `mutate`, `database`, `read`, `reconcile`.) `Admit` is the
check in front, `Look` the action between the checks with its change (`wrote`),
`Recheck` and `Tell` the end; `ended` says of a call whether its grant had ended
before the first check, before the last one, or not at all. Every document is read
and written in a step of its own; only `consume` and the change of a grant are
transactions.

## 3. Runs

A run checks few properties; several of them are conjunctions of named parts, in
which each part says one thing. The type invariant of a module is a part of the
first of them.

| Run | Instance | What it shows |
| --- | --- | --- |
| `store` | 2 builds, 2 images (symmetric), both operations, Cloud Build and legacy records | `IInv`: typed, evidence guards publication, recovery keeps its evidence, tokens belong to bound or retired builds; a finished record stays finished, a bound build is never swapped, a handoff precedes every event: for every order of transactions and every stale argument |
| `release_safety` | main release opened by a webhook, callbacks and sweep, 4 builds, 2 images, any 2 faults | `RecordIsTrue`: what the record says agrees with Cloud Build, the evidence store and GitHub; `SteadyImageIsOrderly`: one build at work, failures have a cause (an error answer to the POST is one) and `unknown` a fault; `RecoveryIsOrderly`: builds are accounted for, run the right image, and a retired one is told apart; committed evidence is frozen |
| `release_operators` | PR and canary release, approval, retirement, cancellation, newer heads, redelivery, overlapping sweeps, 2 builds, 1 fault | `EvidenceGoverns`: nothing appears on GitHub without claim, evidence, semantic plan and approval; `ImplementsStore`: every step of a handler is a transaction of `ReleaseExecutions` |
| `release_liveness` | PR and release, 3 builds, 1 fault, fair | publications end, an abandoned submission is taken up again, the result of a build is consolidated |
| `quality_bootstrap` | 2 requests, a sweep, a callback, 2 builds, 2 faults, 1 change outside, fair | `OneAttempt`: one POST, one owner; only the verified build is bound and speaks; neither ticket nor verdict is reopened; a build whose answer was lost is found |
| `deployments` | 2 commands in 7 workloads (both engines, staged and one-job workflows, deploy and rollback, service, independent and Job, up to 2 faults, 2 overlapping handlers), fair | an open service is quiet; success moved production; `LateIsFenced`: a run begins with an unused authorization, a staged one promotes with one that is not revoked, no late event takes a sequence back; `EffectsOnce`; an ended build is settled without any callback |
| `release_executor` | all 8 operations, all hook profiles, 2 triggers, 3 faults, fair | `ProductionIsSafe` at every instant, also when killed; `OutcomeIsTrue`; nothing is promoted on stale checks; every run ends and reports |
| `executor_circuit` | 3 requests of 2 keys and 2 webhooks with 2 faults; 1 request with 2 sweeps; 2 openings | `NothingIsDoubled`: a key sends once, one probe of an opening is out, two sweeps of one opening do not overlap; only a good probe of this opening closes the circuit, and verdicts stay; a good probe does close it |
| `database_jobs` | 2 executions of one request, an export, a view, 5 workloads, 1 fault, fair | resources are accounted for, shown captures are whole, no job is resurrected, everything is erased in the end |
| `runtime_logs` | 2 participants, 2 threads, 3 sample objects (symmetric), quota 1 or 2, window 2, buffer 2, 1 fault | the quota holds and the document stays readable, the buffer is bounded and discarded samples stay empty, permits and rows are shared fairly |
| `mcp_authorization` | 2 requests at a time, 2 grants, 3 credentials, limit 1, 1 cut | one line of credentials, revoked stays revoked, nothing changes after the check in front of the change fails and no overtaken call is answered, the overrun of the limit is bounded |
| `finding_deployment_overlap` | a GitHub and a Cloud Build command, 1 refused dispatch | expected violation of `OneWorkingRun`: see below |

### The finding

`start_deployment` takes up the retry of a failed dispatch
(`services/deployment_commands.py:445`) before it looks for an active deployment.
A key whose GitHub dispatch was refused can therefore be retried while the Cloud Build
of another key is at work on the same service, and its workflow run begins beside the
build: the concurrency group of the workflows keeps only workflow runs apart. The
route documents
"Tag, idempotency, or active deployment conflict"
(`routers/deployments.py:153`) and "an active deployment already exists" (`:185`).

### Observations

Met on the way; the properties are stated so that they say exactly what holds.

Release executions:

- `supersede` (`release_orchestrator.py:729`) says "a granted canary approval
  blocks retirement so a tag publication can never race this decision"; for a
  service that publishes automatically no approval exists, so `publish_pending`
  can be retired while the publisher goes on to create tag and Release;
- `docs/runbooks/release-orchestrator.md:376` says reconciliation "reconciles an
  uncertain Cloud Build submit before considering its single bounded retry"; an
  unanswered POST is saved as `unknown`, and `reconcile` returns for `unknown`
  before it would search for the build (`release_reconciler.py:552`);
- runbook `:91` says "semantic changes: `release_planned`, then idempotent tag and
  GitHub Release publication by the API"; events of a recovery build move the
  record to `running_quality`, from where `release_planned` is not allowed, so a
  recovered plan ends `unknown` (`release_reconciler.py:652`);
- `submit` (`release_cloud_build.py:909`) says "Submit at most once; uncertain
  results remain reconcilable"; `start_release` saves `failed` over whatever its
  exception left, the `unknown` of an unanswered POST or a bound build included,
  while the build works (`release_orchestrator.py:954`);
- an error answer to the POST, a 5xx included, is saved as `failed`
  (`release_cloud_build.py:940`) although Cloud Build may have created the build; nobody looks
  for it. If a sweep or a callback bound it first, the record fails with a build at
  work. `FailureHasACause` therefore counts the error answer itself as the cause, and
  is stated where no decision ends the execution (`EndsByDecision`: `start_release`,
  an operator's cancel, a newer head);
- two replicas with different planner images do not recognise each other's
  builds, so a roll-forward during an uncertain submission can start a second
  build; `SteadyImageIsOrderly` is stated for one image;
- a submitter that stalls between the answer of Cloud Build and `bind_build` until
  its build was found by a sweep, failed its plan and was retired, binds the
  retired build again (it takes three requests at once; met in a failing proof and
  reproduced by TLC). The identity check of `reconcile` then reports it and the
  record ends `unknown`. `RetiredIsNotRecognised` says what does hold: who reads
  the record after the recovery never takes the retired build;
- `reconcile_submission_absent` reads `reconciliation_attempts` before its
  transaction, so two overlapping sweeps can each grant the "single" retry;
- a sweep that loses a race against another records `unknown` although no call
  failed; for `UnknownNeedsAFault` the second delivery is the fault;
- `_TERMINAL` of the orchestrator omits `superseded`, so cancelling a retired
  release turns it into `failed` (`FinishedStaysFinished` says so);
- a newer head of a PR can turn `quality_passed` into `failed` while the verdict
  is being reported;
- the runbook speaks of at most 100 oldest due records, `iter_due` is exhaustive;
- the legacy `save_report` (`quality_store.py:296`) reads the index and replaces it
  without a precondition, so on two replicas it may overwrite evidence written in
  between, though its error says "Orchestrated quality evidence cannot be
  overwritten".

Bootstrap: a ticket that was consumed without a POST leaves the execution
`unknown` for good, by design; a second build with the nonce makes the recovery
"ambiguous" and leaves it to an operator.

Deployments:

- `SUBMISSION_UNKNOWN` is not active for `_active_deployment`;
- a refresh of a GitHub run records `failed` while its rollback job has not
  started, and the Job and independent engines emit `failed` before they restore;
- the sweep of a stalled intent deletes the item of a command that got further;
- a stale refresh, event or webhook may overwrite a newer status, because each
  writes back the item it read;
- a failed Job whose callback is lost stays `UNKNOWN`; a failure of
  `create_deployment` leaves an intent that keeps the service closed until the
  sweep; an error answer of Cloud Build may hide a build that was created;
- a failed summary upload after success reports `failed` though production moved;
- a one-job workflow checks its authorization only when it begins: if a rejected
  dispatch did create a run and that run consumed the authorization before it was
  revoked, it promotes; `LateIsFenced` claims the later check for staged workflows only.

Release executor: a failed resume after success turns the report to `failed` while
the new Job definition serves with paused triggers; `rollback_runtime` neither
verifies nor revokes; a failing `rollback_service` may leave moved traffic reported
as failed; a `docker pull` that fails for any transient reason is taken as "tag
absent", so an existing tag is rebuilt and pushed over; `rollback_job` does not
save the definition it replaces.

Circuit: no caller of this commit opens a closed circuit; opening it drops
`mode_propagation` and the usage alerts, so a sweep of the earlier opening may go on
beside a new one until its 300 s are over (`OneSweep` is stated for one opening;
`claim_mode_propagation` and `finish_mode_propagation` have no caller but the
tests); a handler that dies between the record and the close leaves it open with a
verified probe, and the redelivered webhook is ignored; an uncertain dispatch that
was never sent blocks further probes until an operator acts.

Database jobs: after a failed or uncertain dispatch `create_execution` purges
unless the job is `running` (`database_jobs.py:353`), so a capture that has just
completed is purged, and `run_query` does likewise after an uncertain
acknowledgement of its completion (`:842`), though the comments at 343 and 865
say otherwise; `misled` exempts these.

Logs: a lost acknowledgement of `reserve`, or a `finish` that gives up after three
conflicts, leaves the permit pending for good (a pending attempt does not age out); a participant
whose own seat expires between snapshot and write may be granted ahead of later
joiners; a call that cannot read the catalog pops the sample under its key, even one that
another call has put there since, without discarding it, and that other call keeps
its rows until it returns.

MCP: a database tool whose grant ends while it works is refused its answer although
its change is committed (`mcp_server.py:675`), as is `get_deployment`; a lost answer
of a refresh disconnects the client; a refresh in flight fails calls with the old
access token; withdrawing a client does not stop its access tokens; the mutation
limit is checked, then acted on; a crash between revocation and `purge_session`
leaves captures until a retry or their TTL.

### Bounds

Two requests allow every two-party race; where a third matters (a second webhook,
a third key holder) the instance has it. One fault reaches every error path, two
reach a fault during the recovery from another; the executor gets three, since
a recovery has several commands. `Builds` is the number of builds that can be
created: two cover a retry, three a retry and a recovery, four all three
recoveries. `MaxSequence` is 3, the number of events a build sends;
`MaxAttempts` is 2, one more than the code grants; the store run uses 1 for both,
because no other transaction reads them. Workloads (`DatabaseJobs`,
`Deployments`, `ExecutorCircuit`) are sets of initial situations instead of one
large product; each pair of parties that can meet is in one of them. Quotas,
windows, buffers and limits are set so low that they are reached. Identities are
fresh and meaningless; symmetry is used where no fairness is assumed. Except for
`store`, runs disable the deadlock check: a settled system is at rest.

### Fairness

A request in progress goes on until it ends or crashes (the server runs it to
completion); the scheduler keeps sweeping; Cloud Tasks redeliver; a build or
executor ends by its timeout at the latest; GitHub delivers the end of a probe's
run; an unfinished deployment keeps being polled by its page; time passes. Nothing
is assumed of operators, webhooks of pushes, deployments of the platform, or
faults. Weak fairness suffices except for the polling of a deployment (`Refresh`),
which is interrupted by events whenever they come and therefore strongly fair.

## 4. Proofs

`ReleaseExecutionsProofs` proves, for every set of builds and images, both
operations, both providers, locked and legacy records and all bounds (the named
assumptions of `ReleaseExecutions` say only that the null values are fresh and
that the parameters have their types):

| Theorem | Statement |
| --- | --- |
| `InvariantHolds` | `Spec => []IInv` |
| `TypeCorrect` | `Spec => []TypeOK` |
| `EvidenceGuardsPublication` | `Spec => []PublicationRequiresEvidence` |
| `RecoveryIsGuarded` | `Spec => []RecoveryKeepsEvidence` |
| `TokensAreBound` | `Spec => []TokensBelongToRuns` |
| `FinishedIsFinal` | `Spec => FinishedStaysFinished` |
| `BuildsAreNotSwapped` | `Spec => BindingIsStable` |
| `HandoffIsFresh` | `Spec => HandoffBeforeEvents` |

None of these invariants is inductive alone, so `IInv` adds three parts.
`EvidenceIsGood`: `quality_passed` is entered with evidence, but a recovery
returns to earlier statuses with evidence already committed, so the good verdict
has to be carried by `evidence`, not by the status; the exception is a second,
bad report committed to a record that had evidence. `RunIsBuild`: tokens are
claimed against `build` and checked against `run`, which have to be the same on
Cloud Build. `WaitingIsFresh`: a legacy record is handed over only while nothing
was reported. The proof has one lemma per group of actions; each unfolds the
transaction and checks the conjuncts it can disturb. The run `store`
checks `IInv` with TLC.

`QualityBootstrapProofs` proves, for every set of requests, reconciliations and
callbacks and every number of builds, faults and changes (`BootstrapAssumption`
says only that the null value is neither a request nor a build and that the
bounds are natural numbers):

| Theorem | Statement |
| --- | --- |
| `BootstrapInvariant` | `Spec => []BInv` |
| `BootstrapHappensOnce` | `Spec => []OneAttempt` |
| `BoundBuildIsTheAskedOne` | `Spec => []BoundIsVerified` |
| `BootstrapIsFinal` | `Spec => AttemptIsFinal` |

That one POST is sent cannot be seen from the record alone: between the claim and
the POST the winner holds the permit in its own memory. `PosterIsAlone` says that
whoever is about to send is the request of the record's nonce, that its claim is
marked and that nothing was sent. `FoundIsVerified` and `AnswerIsABuild` say the
same of what a reconciliation or an answered request carries to its bind
transaction: it stays verified, because builds only come into being where there
was none and never change what they were verified by (`NewBuildKeeps`,
`EndingKeeps`). `BoundExists` links binding, token and report. The proof has one
lemma per action; actions that only move a request share `QuietStep`, those that
only change fields of the record `RecordKeeps`. `AttemptIsFinal` follows from `BInv`
and `SettledStays`: no transaction may leave a terminal status.

`ReleaseReconciliationProofs` proves, for every number of requests, builds,
images and faults, both operations and both ways to publish:

| Theorem | Statement |
| --- | --- |
| `HandlersAreSound` | `SSpec => []Inv` |
| `StoreIsImplemented` | `SSpec => ImplementsStore` |
| `RecordTellsTheTruth` | `SSpec => []RecordIsTrue` |
| `EvidenceIsTheGate` | `SSpec => []EvidenceGoverns` |
| `EvidenceStaysFrozen` | `SSpec => EvidenceIsFrozen` |
| `RetiredBuildsAreToldApart` | `SSpec => []RetiredIsNotRecognised` |

The assumptions are those of the record, that the request which reserved it and
the first image exist, that the record is a locked Cloud Build one (the handlers
modelled are those of Cloud Build), that main releases are among the operations,
and that `MaxSequence` leaves room for the three events a build sends. A handler
acts on a copy it read earlier, so every property depends on what a copy still
says: `Hands` states it for each request (`Knows`: plan, report, counters and
token of a copy are superseded only in certain ways; `Called`: the build that called waits
for the answer, and what its event carried is durable before it is told so;
`Placed`: what has to be so for the request to be where it is, for example
evidence before the plan is saved, the claim and the tag before the Release).
`CallsAlone` says that a build has one call out, `Evidence`, `Runs`, `Told` and
`Publication` relate the record to the store, to Cloud Build and to GitHub; the
`IInv` of the record is a conjunct, since the transactions are proved against it.
The argument has four layers. `TxnStep`: each step of a handler is a transaction
with what the handler made sure of, from which `StoreStep` gets the refinement.
`RecStep` and `WorldStep`: what is never taken back (`Grows`), so that the
knowledge of all other requests survives (`StaysSound`). One lemma per group of
actions for the request that moves (`HandsStep`). `FrameStep`: the fields of the
record change only in groups, each in one way, from which follow `EvidenceStep`,
`RunsStep`, `ToldStep` and `PublicationStep`.

`McpAuthorizationProofs` proves, for every finite set of requests and every number
of grants, credentials, mutations and cuts (the assumptions say that the null
value is fresh, that the limits are natural numbers, and that there is a request
at all, without which the bound of the limit would be off by one):

| Theorem | Statement |
| --- | --- |
| `Authorized` | `Spec => []AuthInv` |
| `OneLine` | `Spec => []OneLineOfCredentials` |
| `CallsAreCurrent` | `Spec => []AnswersAreCurrent` |
| `LimitHolds` | `Spec => []MutationsAreBounded` |
| `RevocationIsFinal` | `Spec => RevokedStaysRevoked` |

`AuthInv` follows the right to go on: it passes from the state document to the
consent, the code and the grant, and while it is in no document exactly one
request carries it in memory (`Flow`); without that, one consent could make two
grants. `Lineage` does the same for a rotated credential between its creation and
its activation. `Currency` says that a stale call stays stale, since a grant that
ended stays ended, that it is at no step past its last check, and that a call which
made a change was admitted by a grant that had not ended. `Ledger` counts:
calls counted and not yet audited, plus audits, exceed the limit by less than the
number of requests, because each of them saw a count below the limit.

`ExecutorCircuitProofs` proves, for every number of requests, webhooks, sweeps,
openings and faults and every history limit that the assumptions admit:

| Theorem | Statement |
| --- | --- |
| `CircuitIsSound` | `Spec => []CInv` |
| `NothingDoubled` | `Spec => []NothingIsDoubled` |
| `VerdictsAreDecisive` | `Spec => VerdictsDecide` |

`Remembered`: every reservation is in the history under its key and no key has
two. `Callings`: a request owns its reservation and has sent nothing before its
dispatch. `Documented`: the document names the probe of this opening that is out,
or that a request may still send, which makes it impossible to reserve a second;
what it says of a verdict is what the run ended with. `Leased`: a sweep of this opening
whose lease has not lapsed is the one the document names, and of each earlier opening
at most one is left.

`ReleaseExecutorProofs` proves, for every set of triggers, every operation and
every number of failed commands (`MaxFaults` is a natural number, nothing else is
assumed):

| Theorem | Statement |
| --- | --- |
| `RunIsSound` | `Spec => []RInv` |
| `ProductionStaysSafe` | `Spec => []ProductionIsSafe` |
| `PromotionIsChecked` | `Spec => []PromotedAsChecked` |
| `ReportIsTrue` | `Spec => []OutcomeIsTrue` |

`RInv` ties the step a run is at to the world it acts on. `Placed` says which
operations reach a step. `Serves` says what has the traffic there: before the
promotion never the new release, after it the new one, on the way back past
`restore` the old one; the report separates the two ways of reaching `resume`.
`Authorized`: the old release is authorized before it is restored, even when an
earlier step revoked it. `Triggered`: a trigger that is not as it was found is
paused and in `active`, which is what the finally block resumes. `Checked`: what a
step has verified still holds at the promotion, since a foreign change happens
only while an approval is pending and `load`, `reprobe` and `requality` come after
it. `Failing` and `Undone` count: with one fault, a failure that is already being
recovered leaves the recovery itself without one. The proof goes operation by
operation (`...Path`: which step follows which), then by group of steps.

`DatabaseJobsProofs` proves, for every number of executions, exports, views and
requests, every workload and every number of crashes and lost answers (the
assumptions: the three kinds of jobs and the null value are distinct, and the
results of earlier calls a workload starts with can exist, that is, a queued export
or view has its execution):

| Theorem | Statement |
| --- | --- |
| `JobsAreSound` | `Spec => []JInv` |
| `ResourcesAccounted` | `Spec => []ResourcesAreAccountedFor` |
| `CapturesStayWhole` | `Spec => []CapturesAreWhole` |
| `EndedStaysEnded` | `Spec => NoResurrection` |

A worker, the call that made its job and the janitor act on the same job, and
nothing but short transactions keeps them apart. The argument turns on
`Stopped`: nothing that is shown can come of the job any more, and no worker is
past its authorization; no step takes that back. The janitor erases objects and
gives back storage only of stopped jobs (`Cleaning`, `CleaningView`,
`CleaningAlone`), so what it has erased stays erased until it marks the job clean.
For an export whose dispatch failed and for a job cleaned by itself that is not
enough: it may still wait in the queue, and is erased only once it has expired and
no worker has just claimed it (`Spent`). A view may be cleaned while its state is
still live if it expired, and then gets a terminal state before its objects go.
`Sourced`: the execution an export or view derives from was complete once, and
completion never returns. `Worked`: a worker that writes has its job open, unclean
and reserved, so no other completed it. `Permitted` says of permits of derived
jobs that any two are the same, of which the property's count is a
consequence. `misled` appears throughout: a dispatch or a completion that took
effect although its answer was lost is reported as failed, cleaned up by the one
who was told so, and is the exception the properties name. There is one lemma per
action; `Frame` settles the parts an action leaves alone, `EndedStaysOver` and
`EndedKeepsCleaning` are shared by everything that ends a job through `_finish`.
`EndedStaysEnded` follows from `JInv` and one step per group of actions.

`DeploymentsProofs` proves, for every set of keys and handlers, every mixture of
providers, kinds and runtimes and every number of calls, refusals, lost answers and
crashes (the assumptions: the null value is no key, and workloads have the type of
a workload; nothing is assumed of how many handlers overlap, or of the order in
which GitHub, Cloud Build and the events act):

| Theorem | Statement |
| --- | --- |
| `CommandsAreOrderly` | `Spec => []DInv` |
| `OpenServiceIsQuiet` | `Spec => []OpenMeansQuiet` |
| `RecordsTellTheTruth` | `Spec => []RecordsAreTrue` |
| `LateStepsAreFenced` | `Spec => LateIsFenced` |
| `CommandsKeepThePromise` | `Spec => EffectsOnce` |

None of the properties is inductive: each depends on what a crashed caller left, or
what a slow handler still holds. `DInv` has a part for each place that knows
something of a command.

- `Attempts` and `Effects`: the runs of a command. Attempts of a workflow share one
  authorization and only the last may still act; whatever began has used the
  authorization up; a build has no second attempt.
- `Fenced`, `Unborn`, `Dispatched`, `Submitted`: the caller, the intent, the item and
  the execution. A caller, dead or alive, has the fence; an intent stands before
  anything external exists, which is why the sweep of a leftover intent never finds
  a run to adopt; a run that exists is in the record of its dispatch, so neither
  a retry nor a second submission can create another.
- `Stored` and `Reports`: what is stored, announced, read by a handler or posted in
  an event is true of the runs (`IsTrue`). A verdict speaks of runs none of which can
  begin any more, and success of production that has moved; runs never take
  that back (`Grows`), so it stays true however late it is written.
- `Promised` and `Exclusive`: commands that are not excused. Their record says
  "over" only when they are (`Quiet`) or when the dispatch is in doubt, and at most
  one of them is engaged: holds the fence or has runs that may still act.

`OpenMeansQuiet` follows from `Promised` and the admission check, `RecordsAreTrue`
from `Stored`, `LateIsFenced` step by step from the guards and `Reports`: a run begins
with an issued authorization, a staged run promotes with a consumed one. For
`EffectsOnce`, the mapping takes as begun the commands with a run that ever left
the queue and as working those with a run under way. A step that moves one run is
a stutter, the end or the beginning of its command's work (`MildMaps`,
`FreshBegins`); at a beginning, the authorization that is still unused shows that
no earlier attempt began, and `Exclusive` that no other command works that is not
excused. New runs are queued or in flight, hence a stutter; retries, submissions
in doubt and terminal statuses written over a working run map to `Excuse`.
There is one lemma per action for `DInv`; `Passes` settles what the steps of a
caller share, `RunActs` the steps of a run, `ReaderKeeps` those of a handler that
reads, and `OneChanges`, `OneIsAdded` and `TicketsExpire` say what the nested
updates do.

Before it was proved, each inductive invariant was checked by TLC on the instance
of the module's run.

Only model-checked:

- liveness, which with fairness and ENABLED is out of the prover's reach;
- `SteadyImageIsOrderly`, `BuildsAreAccountedFor` and `RecoveryImages` of
  `ReleaseReconciliation`. They speak of the number of builds, which depends on how
  two submitters exclude each other between the listing and the POST; with a third
  request at once some of their parts need the timing of section 2.2 in a stronger
  form, so they are claimed for the instance of the run only;
- `BudgetIsKept`, `SamplesAreBounded` and `SharesAreFair` of `RuntimeLogs`: quota and
  buffer are sums (`FoldFunction`), permits and waiters are what `SelectSeq` leaves of
  the document, and eviction is a recursive function of the samples, so that each
  of them needs an induction over data.

## 5. Not modelled

- Event pool (`services/event_processing.py`): one worker per process handles
  admitted events in order and at most 32 wait, the rest are turned away; in the
  models a call may be delayed or fail anyway, and replicas are not ordered.
- GitHub webhooks (`routers/github_events.py`, `services/github_webhooks.py`):
  signature and de-duplication; in the models every delivery gets through, also repeated.
- Release executions: accounting of build minutes, the contents of check runs,
  the quality runs on GitHub Actions, the legacy `save_report`.
- Deployments: `release_authorization_store.bind`, the read models of the
  console, the wording of summaries. The last check of a staged run and its
  promotion are one step. GitHub may cancel a run that waits in the concurrency group
  when a newer one arrives, whose authorization then stays unused until it expires;
  here it goes on waiting.
- Database console: exports whose source is a view, SQL validation, the external
  sort, spreadsheet writing, masking of columns.
- Logs: redaction, cursors, the catalog of sources, formatting, the bound of the
  samples in bytes.
- Cost alerts (one lease and a monthly threshold), costs and monitoring, usage,
  the releases store, operational secrets, catalog and service factory, security
  and sessions: queries, configuration and validation with little state of
  their own.
- Operational scripts, templates and schemas.

## 6. Plan

1. Components: the lease of the cost alerts, the journal of webhooks with its
   retries, the event pool with its queue, the race of the legacy `save_report`.
2. `ReleaseReconciliation` with quality runs on GitHub Actions.
3. Theorems: the images of `ReleaseReconciliation` from an invariant that counts
   builds against the claims that were made.
