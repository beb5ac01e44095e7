-------------------------- MODULE ExecutorCircuit --------------------------
(***************************************************************************)
(* The billing circuit of GitHub Actions (executor_circuits): one document *)
(* per account, changed in transactions by administrators who ask for a    *)
(* health probe, by the webhook of the probe's workflow run, and by sweeps *)
(* that lease the propagation of the execution mode.  Time never closes    *)
(* the circuit: a probe does.                                              *)
(*                                                                         *)
(* A nonce is the number of a reservation.  A reservation belongs to the   *)
(* epoch in which it was made: the circuit's openings are counted.         *)
(***************************************************************************)
EXTENDS Naturals, Sequences, FiniteSets

CONSTANTS Keys,          \* idempotency keys of probe requests
          Callers,       \* administrators' requests; KeyOf gives their key
          KeyOf,
          Hooks,         \* webhook deliveries handled at the same time
          Sweepers,
          HistoryLimit,  \* _PROBE_REQUEST_LIMIT
          MaxOpens,      \* bound on openings of the circuit
          Workloads,     \* who is at work, and the bound on crashes, refusals
                         \* and lost answers
          None

\* What the history keeps of a request.
Answer == [status : {"none", "requested", "cancelled", "verified"},
           dispatch : {"none", "reserved", "dispatched", "uncertain", "not_dispatched"},
           state : {"closed", "open"}]

ASSUME CircuitAssumption ==
  /\ KeyOf \in [Callers -> Keys] /\ IsFiniteSet(Keys)
  /\ HistoryLimit \in Nat /\ MaxOpens \in Nat
  /\ None \notin Sweepers \cup Answer
  /\ Workloads \subseteq [callers : SUBSET Callers, sweepers : SUBSET Sweepers, faults : Nat]

MaxProbes == Cardinality(Keys) + 1

VARIABLES load,
          state,     \* "closed", "open"
          probe,     \* [nonce, status, dispatch, good]
          history,   \* probe_requests: what each key is answered
          lease,     \* mode_propagation: [token, until]
          caller,    \* [at, nonce, sent] of each request
          hook,      \* [at, nonce] of each webhook handler
          sweep,     \* [at, epoch]: "valid" while its lease has not lapsed, then
                     \* "late"; the opening in which it took the lease
          runs,      \* GitHub: the run of each nonce
          probes,    \* history: [key, epoch, sends] of each nonce
          epoch, faults,
          dropped    \* history: a handler died or a delivery was lost

document == <<state, probe, history, lease>>
bound == <<load, epoch, faults>>
vars == <<document, caller, hook, sweep, runs, probes, bound, dropped>>

NoProbe == [nonce |-> 0, status |-> "none", dispatch |-> "none", good |-> FALSE]
NoLease == [token |-> None, until |-> "due"]
Idle == [at |-> "idle", nonce |-> 0, sent |-> "none"]
Free == [at |-> "idle", nonce |-> 0]
Resting == [at |-> "idle", epoch |-> 0]

Fault == faults < load.faults /\ faults' = faults + 1

----------------------------------------------------------------------------
(* The circuit document.                                                   *)

\* Opening writes the document anew: of the old one only the answers to
\* earlier requests remain.  A sweep of an earlier opening is forgotten, not
\* stopped.
KeptHistoryFault == [k \in Keys |-> None]

KeptHistory == history

OpenCircuit ==
  /\ state = "closed" /\ epoch < MaxOpens
  /\ state' = "open" /\ epoch' = epoch + 1
  /\ probe' = NoProbe /\ lease' = NoLease
  /\ history' = KeptHistory
  /\ UNCHANGED <<caller, hook, sweep, runs, probes, load, faults, dropped>>

\* _probe_history: the request of the current probe is answered with its state.
Answered(p, circuit) ==
  IF p.nonce = 0 THEN history
  ELSE [history EXCEPT ![probes[p.nonce].key] =
          IF @ = None THEN None
          ELSE [status |-> p.status, dispatch |-> p.dispatch, state |-> circuit]]

----------------------------------------------------------------------------
(* request_health_probe.                                                   *)

\* A key that was used answers from the history.  A new one needs an open
\* circuit, no pending probe and room in the history.
CanReserve(k) ==
  /\ history[k] = None
  /\ state = "open" /\ probe.status # "requested"
  /\ Cardinality({j \in Keys : history[j] # None}) < HistoryLimit

Reserve(c) ==
  LET k == KeyOf[c]
      n == Len(probes) + 1
      p == [nonce |-> n, status |-> "requested", dispatch |-> "reserved", good |-> FALSE]
  IN  /\ caller[c].at = "idle" /\ CanReserve(k) /\ n <= MaxProbes
      /\ probes' = Append(probes, [key |-> k, epoch |-> epoch, sends |-> 0])
      /\ runs' = Append(runs, "none")
      /\ probe' = p
      /\ history' = [history EXCEPT ![k] = [status |-> "requested", dispatch |-> "reserved",
                                            state |-> state]]
      /\ caller' = [caller EXCEPT ![c] = [at |-> "authorize", nonce |-> n, sent |-> "none"]]
      /\ UNCHANGED <<state, lease, hook, sweep, bound, dropped>>

\* Idempotent replay: the stored answer, nothing is sent.
Replay(c) ==
  /\ caller[c].at = "idle" /\ history[KeyOf[c]] # None
  /\ caller' = [caller EXCEPT ![c].at = "done"]
  /\ UNCHANGED <<document, hook, sweep, runs, probes, bound, dropped>>

\* The administrator's grant is checked again right before the dispatch.
Reauthorize(c) ==
  /\ caller[c].at = "authorize"
  /\ \/ caller' = [caller EXCEPT ![c].at = "dispatch"] /\ UNCHANGED faults
     \/ /\ caller' = [caller EXCEPT ![c].at = "finish", ![c].sent = "not_dispatched"]
        /\ Fault
  /\ UNCHANGED <<document, hook, sweep, runs, probes, load, epoch, dropped>>

\* The workflow dispatch; without an answer the run may or may not exist.
Dispatch(c) ==
  LET n == caller[c].nonce
  IN  /\ caller[c].at = "dispatch"
      /\ \/ /\ runs' = [runs EXCEPT ![n] = "running"]
            /\ caller' = [caller EXCEPT ![c].at = "finish", ![c].sent = "dispatched"]
            /\ UNCHANGED faults
         \/ /\ runs' \in {runs, [runs EXCEPT ![n] = "running"]}
            /\ caller' = [caller EXCEPT ![c].at = "finish", ![c].sent = "uncertain"]
            /\ Fault
      /\ probes' = [probes EXCEPT ![n].sends = @ + 1]
      /\ UNCHANGED <<document, hook, sweep, load, epoch, dropped>>

\* Only a reservation that is known not to have been sent is cancelled; a
\* verdict that the webhook recorded in the meantime stays.
FinishedStatus(sent) ==
  IF sent = "not_dispatched" /\ probe.status = "requested" THEN "cancelled"
  ELSE probe.status

\* finish_probe_dispatch, or its refusal when the reservation is gone.
FinishDispatch(c) ==
  LET p == [probe EXCEPT !.dispatch = caller[c].sent,
                         !.status = FinishedStatus(caller[c].sent)]
  IN  /\ caller[c].at = "finish"
      /\ caller' = [caller EXCEPT ![c].at = "done"]
      /\ IF probe.nonce = caller[c].nonce
         THEN probe' = p /\ history' = Answered(p, state)
         ELSE UNCHANGED <<probe, history>>
      /\ UNCHANGED <<state, lease, hook, sweep, runs, probes, bound, dropped>>

\* The request dies, or its answer is lost: it is sent again.
LoseCaller(c) ==
  /\ caller[c].at # "idle" /\ Fault
  /\ caller' = [caller EXCEPT ![c] = Idle]
  /\ UNCHANGED <<document, hook, sweep, runs, probes, load, epoch, dropped>>

----------------------------------------------------------------------------
(* GitHub and its webhook: _close_circuit_from_probe.                      *)

EndRun(n) ==
  /\ runs[n] = "running"
  /\ \E verdict \in {"good", "bad"} : runs' = [runs EXCEPT ![n] = verdict]
  /\ UNCHANGED <<document, caller, hook, sweep, probes, bound, dropped>>

Matches(n) == state = "open" /\ probe.status = "requested" /\ probe.nonce = n

\* A completed run is delivered; the run of another probe, or of nobody's, is
\* ignored.  GitHub may deliver it again.
Deliver(h, n) ==
  /\ hook[h].at = "idle" /\ runs[n] \in {"good", "bad"} /\ Matches(n)
  /\ hook' = [hook EXCEPT ![h] = [at |-> "record", nonce |-> n]]
  /\ UNCHANGED <<document, caller, sweep, runs, probes, bound, dropped>>

CanRecordFault(n) == state = "open" /\ probe.status \in {"requested", "verified"}

\* record_probe reads and compares again in its transaction.
CanRecord(n) == Matches(n)

RecordProbe(h) ==
  LET n == hook[h].nonce
      p == [probe EXCEPT !.status = "verified", !.good = (runs[n] = "good")]
  IN  /\ hook[h].at = "record"
      /\ IF CanRecord(n)
         THEN /\ probe' = p /\ history' = Answered(p, state)
              /\ hook' = [hook EXCEPT ![h] = IF p.good THEN [@ EXCEPT !.at = "close"] ELSE Free]
         ELSE hook' = [hook EXCEPT ![h] = Free] /\ UNCHANGED <<probe, history>>
      /\ UNCHANGED <<state, lease, caller, sweep, runs, probes, bound, dropped>>

CanCloseFault(n) == state = "open"

\* The recorded probe is this run's, used a runner and succeeded.
CanClose(n) ==
  state = "open" /\ probe.status = "verified" /\ probe.nonce = n /\ probe.good

CloseAfterProbe(h) ==
  /\ hook[h].at = "close"
  /\ IF CanClose(hook[h].nonce)
     THEN state' = "closed" /\ history' = Answered(probe, "closed")
     ELSE UNCHANGED <<state, history>>
  /\ hook' = [hook EXCEPT ![h] = Free]
  /\ UNCHANGED <<probe, lease, caller, sweep, runs, probes, bound, dropped>>

LoseHook(h) ==
  /\ hook[h].at # "idle" /\ Fault
  /\ hook' = [hook EXCEPT ![h] = Free] /\ dropped' = TRUE
  /\ UNCHANGED <<document, caller, sweep, runs, probes, load, epoch>>

----------------------------------------------------------------------------
(* The lease of the mode propagation.                                      *)

ClaimPropagation(s) ==
  /\ sweep[s].at = "idle" /\ state = "open" /\ lease.until = "due"
  /\ lease' = [token |-> s, until |-> "lease"]
  /\ sweep' = [sweep EXCEPT ![s] = [at |-> "valid", epoch |-> epoch]]
  /\ UNCHANGED <<state, probe, history, caller, hook, runs, probes, bound, dropped>>

\* Only this sweep's own lease is released, into a cooldown.
OwnsLease(s) == state = "open" /\ lease.token = s

FinishPropagation(s) ==
  /\ sweep[s].at # "idle"
  /\ lease' = IF OwnsLease(s) THEN [token |-> None, until |-> "cooldown"] ELSE lease
  /\ sweep' = [sweep EXCEPT ![s] = Resting]
  /\ UNCHANGED <<state, probe, history, caller, hook, runs, probes, bound, dropped>>

Outlived(w) == IF w.at = "valid" THEN [w EXCEPT !.at = "late"] ELSE w

\* The lease or the cooldown runs out.  A cooldown is shorter than a lease.
Lapse ==
  /\ lease.until # "due"
  /\ lease' = [lease EXCEPT !.until = "due"]
  /\ sweep' = IF lease.until = "lease"
              THEN [sweep EXCEPT ![lease.token] = Outlived(@)]
              ELSE sweep
  /\ UNCHANGED <<state, probe, history, caller, hook, runs, probes, bound, dropped>>

\* A lease that the document no longer names lapses by its own time.
LapseUnseen(s) ==
  /\ sweep[s].at = "valid" /\ lease.token # s
  /\ sweep' = [sweep EXCEPT ![s] = Outlived(@)]
  /\ UNCHANGED <<document, caller, hook, runs, probes, bound, dropped>>

----------------------------------------------------------------------------
Init ==
  /\ load \in Workloads
  /\ state = "closed" /\ probe = NoProbe /\ lease = NoLease
  /\ history = [k \in Keys |-> None]
  /\ caller = [c \in Callers |-> Idle]
  /\ hook = [h \in Hooks |-> Free]
  /\ sweep = [s \in Sweepers |-> Resting]
  /\ runs = <<>> /\ probes = <<>>
  /\ epoch = 0 /\ faults = 0 /\ dropped = FALSE

Request(c) ==
  \/ Reserve(c) \/ Replay(c) \/ Reauthorize(c) \/ Dispatch(c) \/ FinishDispatch(c)
  \/ LoseCaller(c)

Propagate(s) == ClaimPropagation(s) \/ FinishPropagation(s) \/ LapseUnseen(s)

Next ==
  \/ OpenCircuit
  \/ \E c \in load.callers : Request(c)
  \/ \E n \in DOMAIN runs : EndRun(n)
  \/ \E h \in Hooks, n \in DOMAIN runs : Deliver(h, n)
  \/ \E h \in Hooks : RecordProbe(h) \/ CloseAfterProbe(h) \/ LoseHook(h)
  \/ \E s \in load.sweepers : Propagate(s)
  \/ Lapse

\* A handler that has begun runs to its end unless it dies.  GitHub delivers
\* the end of a run.
Spec ==
  /\ Init /\ [][Next]_vars
  /\ \A h \in Hooks : WF_vars(RecordProbe(h) \/ CloseAfterProbe(h))
  /\ WF_vars(\E h \in Hooks, n \in DOMAIN runs : Deliver(h, n))

----------------------------------------------------------------------------
(* Correctness.                                                            *)

TypeOK ==
  /\ state \in {"closed", "open"}
  /\ probe.nonce \in 0..Len(probes)
  /\ probe.status \in {"none", "requested", "cancelled", "verified"}
  /\ probe.dispatch \in {"none", "reserved", "dispatched", "uncertain", "not_dispatched"}
  /\ probe.nonce # 0 => history[probes[probe.nonce].key] =
       [status |-> probe.status, dispatch |-> probe.dispatch, state |-> state]
  /\ lease.token \in Sweepers \cup {None} /\ lease.until \in {"due", "lease", "cooldown"}
  /\ \A c \in Callers : caller[c].nonce \in 0..Len(probes)
  /\ \A h \in Hooks : hook[h].nonce \in 0..Len(probes)
  /\ Len(probes) = Len(runs) /\ Len(probes) <= MaxProbes
  /\ epoch \in 0..MaxOpens /\ faults \in 0..load.faults

\* An idempotency key sends at most one health workflow, whatever is lost and
\* however often the circuit closes and opens again (reserve_probe,
\* probe_requests, open_circuit).
KeySendsOnce ==
  \A n \in DOMAIN probes :
    probes[n].sends > 0 =>
      /\ probes[n].sends = 1
      /\ \A m \in DOMAIN probes : probes[m].key = probes[n].key /\ probes[m].sends > 0 => m = n

\* While the circuit is open at most one of its probes is out, also when the
\* dispatch of one was uncertain (reserve_probe, finish_probe_dispatch).
OneProbeIsOut ==
  state = "open" =>
    \A n, m \in DOMAIN probes :
      (/\ probes[n].epoch = epoch /\ runs[n] = "running"
       /\ probes[m].epoch = epoch /\ runs[m] = "running") => n = m

\* The circuit closes only on a run that was dispatched after this opening,
\* used a runner and succeeded: no run of an earlier opening, no failed run
\* and no passage of time closes it (close_after_successful_probe).
ClosedByAGoodProbe ==
  [][state = "open" /\ state' = "closed" =>
       \E n \in DOMAIN probes : probes[n].epoch = epoch /\ runs[n] = "good"
                                 /\ probe.nonce = n]_vars

\* A recorded verdict is final for its reservation: a late answer to the
\* dispatch does not reopen or cancel it (finish_probe_dispatch).
VerdictIsFinal ==
  [][probe.status = "verified" /\ probe'.nonce = probe.nonce =>
       probe'.status = "verified" /\ probe'.good = probe.good]_vars

\* Two sweeps of the same opening never run at the same time with leases that
\* have not lapsed, also when a sweep of this opening or of an earlier one
\* finishes late.  A sweep of an earlier opening may still run beside them:
\* open_circuit forgets its lease (claim_mode_propagation,
\* finish_mode_propagation, open_circuit).
OneSweep ==
  \A s, t \in Sweepers :
    (sweep[s].at = "valid" /\ sweep[t].at = "valid" /\ sweep[s].epoch = sweep[t].epoch) => s = t

\* Nothing is sent or swept twice: one workflow per key, one probe of an open
\* circuit, one sweep with a valid lease of each opening (reserve_probe,
\* open_circuit, claim_mode_propagation).
NothingIsDoubled == TypeOK /\ KeySendsOnce /\ OneProbeIsOut /\ OneSweep

\* A verdict stays, and only a good one of this opening closes the circuit
\* (finish_probe_dispatch, close_after_successful_probe).
VerdictsDecide == ClosedByAGoodProbe /\ VerdictIsFinal

\* A probe that succeeds while it is pending closes the circuit, unless a
\* webhook handler died on the way or another probe was reserved between the
\* record of the verdict and the close (_close_circuit_from_probe).
GoodProbeCloses ==
  \A n \in 1..MaxProbes :
    (n \in DOMAIN runs /\ runs[n] = "good" /\ Matches(n))
      ~> (state = "closed" \/ dropped \/ probe.nonce # n)
=============================================================================
