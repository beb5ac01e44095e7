------------------------ MODULE ExecutorCircuitProofs ------------------------
(***************************************************************************)
(* The safety of the billing circuit for every number of keys, requests,   *)
(* webhook handlers, sweeps, openings and faults.                          *)
(***************************************************************************)
EXTENDS ExecutorCircuit, SequenceTheorems, FiniteSetTheorems, TLAPS

Status == {"none", "requested", "cancelled", "verified"}
Sent == {"none", "reserved", "dispatched", "uncertain", "not_dispatched"}
Verdict == {"none", "running", "good", "bad"}
Reservation == [key : Keys, epoch : Nat, sends : Nat]
CallerType == [at : {"idle", "authorize", "dispatch", "finish", "done"}, nonce : Nat, sent : Sent]
SweepType == [at : {"idle", "valid", "late"}, epoch : Nat]
HookType == [at : {"idle", "record", "close"}, nonce : Nat]

Shapes ==
  /\ load \in Workloads /\ state \in {"closed", "open"} /\ dropped \in BOOLEAN
  /\ probe \in [nonce : Nat, status : Status, dispatch : Sent, good : BOOLEAN]
  /\ history \in [Keys -> Answer \cup {None}]
  /\ lease \in [token : Sweepers \cup {None}, until : {"due", "lease", "cooldown"}]
  /\ caller \in [Callers -> CallerType] /\ hook \in [Hooks -> HookType]
  /\ sweep \in [Sweepers -> SweepType]
  /\ runs \in Seq(Verdict) /\ probes \in Seq(Reservation)
  /\ Len(runs) = Len(probes) /\ Len(probes) <= MaxProbes
  /\ epoch \in Nat /\ epoch <= MaxOpens /\ faults \in Nat /\ faults <= load.faults

Nonces == 1..Len(probes)

\* Every reservation is remembered under its key, and no key has two.
Remembered ==
  \A n \in Nonces :
    /\ history[probes[n].key] # None /\ probes[n].epoch <= epoch
    /\ \A m \in Nonces : probes[m].key = probes[n].key => m = n

\* A request has a reservation of its own until it is finished, and sends
\* nothing before its dispatch.
Waiting(c) == caller[c].at \in {"authorize", "dispatch"}
Unsent(c) == Waiting(c) \/ (caller[c].at = "finish" /\ caller[c].sent = "not_dispatched")

Callings ==
  /\ \A n \in Nonces : probes[n].sends <= 1
  /\ \A c \in Callers :
       /\ caller[c].nonce <= Len(probes)
       /\ caller[c].at \in {"authorize", "dispatch", "finish"} => caller[c].nonce \in Nonces
       /\ Unsent(c) => probes[caller[c].nonce].sends = 0 /\ runs[caller[c].nonce] = "none"
  /\ \A c, d \in Callers :
       /\ caller[c].at \in {"authorize", "dispatch", "finish"}
       /\ caller[d].at \in {"authorize", "dispatch", "finish"}
       /\ caller[c].nonce = caller[d].nonce
       => c = d

\* The run of n is out, or a request may still send it.
IsOut(n) == runs[n] = "running" \/ \E c \in Callers : Waiting(c) /\ caller[c].nonce = n

\* The document knows of the probe of this opening that is out, and what it
\* says of a verdict is what the run ended with.
Documented ==
  /\ probe.nonce <= Len(probes)
  /\ probe.nonce # 0 => probes[probe.nonce].epoch = epoch
  /\ probe.status = "verified" => /\ probe.nonce \in Nonces
                                  /\ runs[probe.nonce] \in {"good", "bad"}
                                  /\ probe.good => runs[probe.nonce] = "good"
  /\ probe.nonce # 0 => history[probes[probe.nonce].key] =
       [status |-> probe.status, dispatch |-> probe.dispatch, state |-> state]
  /\ state = "open" => \A n \in Nonces : probes[n].epoch = epoch /\ IsOut(n) =>
                          probe.nonce = n /\ probe.status = "requested"
  /\ \A h \in Hooks : /\ hook[h].nonce <= Len(probes)
                      /\ hook[h].at # "idle" => /\ hook[h].nonce \in Nonces
                                                /\ runs[hook[h].nonce] \in {"good", "bad"}

\* A sweep of this opening whose lease has not lapsed holds it; those of
\* earlier openings were alone when the circuit was opened anew.
Leased ==
  /\ lease.until = "lease" => lease.token \in Sweepers
  /\ \A s \in Sweepers : sweep[s].at = "valid" =>
       /\ sweep[s].epoch <= epoch
       /\ sweep[s].epoch = epoch => lease.token = s /\ lease.until = "lease"
  /\ OneSweep

CInv == Shapes /\ Remembered /\ Callings /\ Documented /\ Leased

-----------------------------------------------------------------------------
(* Steps.                                                                  *)

\* What a reservation and its run are made of.
LEMMA Entries ==
  ASSUME Shapes
  PROVE  \A n \in Nonces : /\ probes[n] \in Reservation /\ probes[n].key \in Keys
                           /\ probes[n].epoch \in Nat /\ probes[n].sends \in Nat
                           /\ runs[n] \in Verdict
  <1> SUFFICES ASSUME NEW n \in Nonces
               PROVE  probes[n] \in Reservation /\ runs[n] \in Verdict
    BY DEF Reservation
  <1>1. n \in 1..Len(probes) /\ n \in 1..Len(runs)
    BY DEF Nonces, Shapes
  <1> QED
    BY <1>1, ElementOfSeq DEF Shapes

\* A request that moves on.
CallerAt == {"idle", "authorize", "dispatch", "finish", "done"}

LEMMA CallerMoves ==
  ASSUME Shapes, NEW c \in Callers, NEW x \in CallerAt, NEW t \in Sent
  PROVE  /\ caller[c] \in CallerType
         /\ [caller[c] EXCEPT !.at = x] \in CallerType
         /\ [caller[c] EXCEPT !.at = x, !.sent = t] \in CallerType
  <1>1. caller[c] \in CallerType
    BY DEF Shapes
  <1> HIDE DEF Shapes
  <1> QED
    BY <1>1 DEF CallerType, CallerAt

LEMMA CallerStep ==
  ASSUME Shapes, NEW c \in Callers, NEW h \in CallerType, caller' = [caller EXCEPT ![c] = h]
  PROVE  caller' \in [Callers -> CallerType]
  <1>1. caller \in [Callers -> CallerType]
    BY DEF Shapes
  <1> QED
    BY <1>1

\* The history after the current probe's request was answered anew.
LEMMA AnsweredStep ==
  ASSUME CInv, UNCHANGED probes, probe'.nonce = probe.nonce, state' \in {"closed", "open"},
         probe'.status \in Status, probe'.dispatch \in Sent,
         history' = Answered(probe', state')
  PROVE  /\ history' \in [Keys -> Answer \cup {None}]
         /\ \A k \in Keys : history[k] # None => history'[k] # None
         /\ probe.nonce # 0 => history'[probes[probe.nonce].key] =
              [status |-> probe'.status, dispatch |-> probe'.dispatch, state |-> state']
  <1> DEFINE a == [status |-> probe'.status, dispatch |-> probe'.dispatch, state |-> state']
  <1>1. a \in Answer /\ a # None
    BY CircuitAssumption DEF Answer, Status, Sent
  <1>2. CASE probe.nonce = 0
    BY <1>2 DEF Answered, CInv, Shapes
  <1>3. CASE probe.nonce # 0
    <2>1. probe.nonce \in Nonces
      BY <1>3 DEF CInv, Documented, Shapes, Nonces
    <2>2. probes[probe.nonce].key \in Keys /\ history[probes[probe.nonce].key] # None
      BY <2>1, Entries DEF CInv, Remembered
    <2>3. history' = [history EXCEPT ![probes[probe.nonce].key] = a]
      BY <1>3, <2>2 DEF Answered, CInv, Shapes
    <2> HIDE DEF a
    <2>4. /\ history' \in [Keys -> Answer \cup {None}]
          /\ \A k \in Keys : history[k] # None => history'[k] # None
          /\ history'[probes[probe.nonce].key] = a
      BY <1>1, <2>2, <2>3 DEF CInv, Shapes
    <2> QED
      BY <2>4 DEF a
  <1> QED
    BY <1>2, <1>3

LEMMA OpenCircuitKeeps == ASSUME CInv, OpenCircuit PROVE CInv'
  <1> USE CircuitAssumption
  DEF CInv, OpenCircuit, document, bound, NoProbe, NoLease, KeptHistory
  <1>1. Shapes'
    BY DEF Shapes, Status, Sent, Verdict, Reservation, Answer, CallerType, HookType, SweepType
  <1>2. Remembered'
    <2>1. UNCHANGED <<probes, history>> /\ epoch' = epoch + 1 /\ epoch \in Nat
      BY DEF Shapes
    <2>2. \A n \in Nonces : probes[n].epoch \in Nat
      BY Entries
    <2> QED
      BY <2>1, <2>2 DEF Remembered, Nonces
  <1>3. Callings'
    BY DEF Shapes, CallerType, Reservation, Callings, Waiting, Unsent, Nonces
  <1>4. Documented'
    <2>1. \A n \in Nonces : probes[n].epoch # epoch'
      BY Entries DEF Remembered, Shapes
    <2>2. probe'.nonce = 0 /\ probe'.status = "none" /\ UNCHANGED <<probes, runs, hook, caller>>
      OBVIOUS
    <2> QED
      BY <2>1, <2>2 DEF Documented, Nonces, Shapes
  <1>5. Leased'
    BY DEF Shapes, SweepType, Leased, OneSweep
  <1> QED
    BY <1>1, <1>2, <1>3, <1>4, <1>5 DEF CInv

LEMMA ReserveKeeps == ASSUME CInv, NEW c \in Callers, Reserve(c) PROVE CInv'
  <1> DEFINE k == KeyOf[c]
             n == Len(probes) + 1
             r == [key |-> k, epoch |-> epoch, sends |-> 0]
             a == [status |-> "requested", dispatch |-> "reserved", state |-> state]
  <1>a. /\ k \in Keys /\ r \in Reservation /\ a \in Answer /\ a # None
        /\ history[k] = None /\ state = "open" /\ probe.status # "requested"
    <2>1. /\ k \in Keys /\ history[k] = None /\ state = "open" /\ probe.status # "requested"
      BY CircuitAssumption DEF Reserve, CanReserve
    <2>2. r \in Reservation
      BY <2>1 DEF CInv, Shapes, Reservation
    <2>3. a \in Answer
      BY <2>1 DEF Answer
    <2> QED
      BY <2>1, <2>2, <2>3, CircuitAssumption
  <1>b. /\ probes' = Append(probes, r) /\ runs' = Append(runs, "none")
        /\ probe' = [nonce |-> n, status |-> "requested", dispatch |-> "reserved", good |-> FALSE]
        /\ history' = [history EXCEPT ![k] = a]
        /\ caller' = [caller EXCEPT ![c] = [at |-> "authorize", nonce |-> n, sent |-> "none"]]
        /\ n <= MaxProbes /\ caller[c].at = "idle"
        /\ UNCHANGED <<load, state, lease, hook, sweep, epoch, faults, dropped>>
    BY DEF Reserve, bound
  <1>c. /\ Len(probes) \in Nat /\ n \in Nat /\ Nonces' = Nonces \cup {n} /\ n \notin Nonces
        /\ Len(probes') = n /\ Len(runs') = n
        /\ probes' \in Seq(Reservation) /\ runs' \in Seq(Verdict)
        /\ probes'[n] = r /\ runs'[n] = "none"
        /\ \A m \in Nonces : probes'[m] = probes[m] /\ runs'[m] = runs[m]
    <2>1. probes \in Seq(Reservation) /\ runs \in Seq(Verdict) /\ Len(runs) = Len(probes)
      BY DEF CInv, Shapes
    <2>2. Len(probes) \in Nat /\ "none" \in Verdict
      BY <2>1, LenProperties DEF Verdict
    <2>3. /\ probes' \in Seq(Reservation) /\ Len(probes') = n
          /\ \A i \in 1..Len(probes) : probes'[i] = probes[i]
          /\ probes'[n] = r
      BY <1>a, <1>b, <2>1, AppendProperties
    <2>4. /\ runs' \in Seq(Verdict) /\ Len(runs') = n
          /\ \A i \in 1..Len(probes) : runs'[i] = runs[i]
          /\ runs'[n] = "none"
      BY <1>b, <2>1, <2>2, AppendProperties
    <2> QED
      BY <2>2, <2>3, <2>4 DEF Nonces
  <1>d. \A m \in Nonces : probes[m].key # k
    BY <1>a DEF CInv, Remembered
  <1>e. /\ caller'[c] = [at |-> "authorize", nonce |-> n, sent |-> "none"]
        /\ \A d \in Callers \ {c} : caller'[d] = caller[d]
        /\ history'[k] = a /\ \A j \in Keys \ {k} : history'[j] = history[j]
    BY <1>a, <1>b DEF CInv, Shapes
  <1> HIDE DEF k, n, r, a
  <1>1. Shapes'
    <2>1. history' \in [Keys -> Answer \cup {None}]
      BY <1>a, <1>b DEF CInv, Shapes
    <2>2. caller' \in [Callers -> CallerType]
      BY <1>b, <1>c DEF CInv, Shapes, CallerType, Sent
    <2>3. probe' \in [nonce : Nat, status : Status, dispatch : Sent, good : BOOLEAN]
      BY <1>b, <1>c DEF Status, Sent
    <2> QED
      BY <1>b, <1>c, <2>1, <2>2, <2>3 DEF CInv, Shapes, MaxProbes
  <1>2. Remembered'
    <2>1. \A m \in Nonces : probes[m].key \in Keys
      BY Entries DEF CInv
    <2>2. r.key = k /\ r.epoch = epoch /\ epoch \in Nat
      BY DEF r, CInv, Shapes
    <2>3. \A m \in Nonces' : history'[probes'[m].key] # None /\ probes'[m].epoch <= epoch'
      <3> SUFFICES ASSUME NEW m \in Nonces'
                   PROVE  history'[probes'[m].key] # None /\ probes'[m].epoch <= epoch'
        OBVIOUS
      <3>1. CASE m = n
        BY <1>a, <1>b, <1>c, <1>e, <2>2, <3>1
      <3>2. CASE m # n
        <4>1. m \in Nonces /\ probes'[m] = probes[m]
          BY <1>c, <3>2
        <4>2. history[probes[m].key] # None /\ probes[m].epoch <= epoch
          BY <4>1 DEF CInv, Remembered
        <4> QED
          BY <1>b, <1>d, <1>e, <2>1, <4>1, <4>2
      <3> QED
        BY <3>1, <3>2
    <2>4. \A m, j \in Nonces' : probes'[j].key = probes'[m].key => j = m
      BY <1>c, <1>d, <2>2 DEF CInv, Remembered
    <2> QED
      BY <2>3, <2>4 DEF Remembered
  <1>3. Callings'
    <2>1. r.sends = 0 /\ \A m \in Nonces : probes[m].sends \in Nat
      BY Entries DEF r, CInv
    <2>2. \A d \in Callers : caller[d].nonce \in Nat /\ caller[d].nonce <= Len(probes)
      BY DEF CInv, Shapes, CallerType, Callings
    <2>3. \A d \in Callers \ {c} : caller[d].nonce # n
      BY <1>c, <2>2 DEF n
    <2>4. \A m \in Nonces' : probes'[m].sends <= 1
      BY <1>c, <2>1 DEF CInv, Callings
    <2>5. \A d \in Callers :
             /\ caller'[d].nonce <= Len(probes')
             /\ caller'[d].at \in {"authorize", "dispatch", "finish"} => caller'[d].nonce \in Nonces'
             /\ Unsent(d)' => probes'[caller'[d].nonce].sends = 0 /\ runs'[caller'[d].nonce] = "none"
      BY <1>c, <1>e, <2>1, <2>2 DEF CInv, Callings, Unsent, Waiting, n
    <2> QED
      BY <1>e, <2>3, <2>4, <2>5 DEF CInv, Callings
  <1>4. Documented'
    <2>0. n \in Nat /\ n # 0 /\ Len(probes) < n
      BY <1>c DEF n
    <2>1. \A m \in Nonces : ~(probes[m].epoch = epoch /\ IsOut(m))
      BY <1>a DEF CInv, Documented
    <2>2. \A m \in Nonces : probes'[m].epoch = epoch' /\ IsOut(m)' => FALSE
      <3> SUFFICES ASSUME NEW m \in Nonces, probes'[m].epoch = epoch', IsOut(m)' PROVE FALSE
        OBVIOUS
      <3>1. runs[m] # "running" /\ \A d \in Callers : ~(Waiting(d) /\ caller[d].nonce = m)
        BY <1>b, <1>c, <2>1 DEF IsOut
      <3>2. runs'[m] # "running" /\ n # m
        BY <1>c, <3>1
      <3> QED
        BY <1>e, <3>1, <3>2 DEF IsOut, Waiting
    <2>3. \A h \in Hooks : hook[h].nonce \in Nat
      BY DEF CInv, Shapes, HookType
    <2>4. \A h \in Hooks : /\ hook'[h].nonce <= Len(probes')
                           /\ hook'[h].at # "idle" => /\ hook'[h].nonce \in Nonces'
                                                      /\ runs'[hook'[h].nonce] \in {"good", "bad"}
      <3>1. \A h \in Hooks : /\ hook[h].nonce <= Len(probes)
                             /\ hook[h].at # "idle" => /\ hook[h].nonce \in Nonces
                                                       /\ runs[hook[h].nonce] \in {"good", "bad"}
        BY DEF CInv, Documented
      <3> SUFFICES ASSUME NEW h \in Hooks
                   PROVE  /\ hook[h].nonce <= Len(probes')
                          /\ hook[h].at # "idle" => /\ hook[h].nonce \in Nonces'
                                                     /\ runs'[hook[h].nonce] \in {"good", "bad"}
        BY <1>b
      <3>2. hook[h].nonce <= Len(probes')
        BY <1>c, <2>0, <2>3, <3>1
      <3>3. hook[h].at # "idle" => hook[h].nonce \in Nonces' /\ runs'[hook[h].nonce] \in {"good", "bad"}
        BY <1>c, <3>1
      <3> QED
        BY <3>2, <3>3
    <2>5. r.epoch = epoch /\ r.key = k
      BY DEF r
    <2> QED
      <3>1. /\ probe'.nonce = n /\ probe'.status = "requested"
            /\ history'[probes'[probe'.nonce].key] =
                 [status |-> probe'.status, dispatch |-> probe'.dispatch, state |-> state']
        BY <1>b, <1>c, <1>e, <2>5 DEF a
      <3>2. probe'.nonce \in Nonces' /\ probe'.nonce <= Len(probes') /\ probes'[probe'.nonce].epoch = epoch'
        BY <1>b, <1>c, <2>0, <2>5, <3>1
      <3>3. state' = "open" => \A m \in Nonces' : probes'[m].epoch = epoch' /\ IsOut(m)' =>
               probe'.nonce = m /\ probe'.status = "requested"
        BY <1>c, <2>2, <3>1
      <3> QED
        BY <2>4, <3>1, <3>2, <3>3 DEF Documented
  <1>5. Leased'
    BY <1>b DEF CInv, Leased, OneSweep
  <1> QED
    BY <1>1, <1>2, <1>3, <1>4, <1>5 DEF CInv

LEMMA ReplayKeeps == ASSUME CInv, NEW c \in Callers, Replay(c) PROVE CInv'
  <1> USE CircuitAssumption DEF CInv, Replay, document, bound
  <1>1. Shapes'
    <2>1. [caller[c] EXCEPT !.at = "done"] \in CallerType
      BY CallerMoves DEF CallerAt, Sent
    <2>2. caller' = [caller EXCEPT ![c] = [caller[c] EXCEPT !.at = "done"]]
      OBVIOUS
    <2>3. caller' \in [Callers -> CallerType]
      BY <2>1, <2>2, CallerStep
    <2> QED
      BY <2>3 DEF Shapes
  <1>2. Remembered'
    BY DEF Shapes, Reservation, Remembered, Nonces
  <1>3. Callings'
    BY DEF Shapes, CallerType, Reservation, Callings, Waiting, Unsent, Nonces
  <1>4. Documented'
    BY DEF Shapes, CallerType, HookType, Reservation, Documented, IsOut, Waiting, Nonces
  <1>5. Leased'
    BY DEF Shapes, SweepType, Leased, OneSweep
  <1> QED
    BY <1>1, <1>2, <1>3, <1>4, <1>5 DEF CInv

LEMMA ReauthorizeKeeps == ASSUME CInv, NEW c \in Callers, Reauthorize(c) PROVE CInv'
  <1> USE DEF CInv
  <1>a. /\ UNCHANGED <<document, hook, sweep, runs, probes, load, epoch, dropped>>
        /\ faults' \in Nat /\ faults' <= load.faults /\ caller[c].at = "authorize"
    BY CircuitAssumption DEF Reauthorize, Fault, Shapes
  <1>b. /\ \A d \in Callers \ {c} : caller'[d] = caller[d]
        /\ caller'[c].nonce = caller[c].nonce
        /\ \/ caller'[c].at = "dispatch"
           \/ caller'[c].at = "finish" /\ caller'[c].sent = "not_dispatched"
    BY DEF Reauthorize, Shapes, CallerType
  <1>c. \A d \in Callers : Unsent(d)' => Unsent(d)
    BY <1>a, <1>b DEF Unsent, Waiting
  <1> USE DEF document
  <1>1. Shapes'
    <2>1. /\ [caller[c] EXCEPT !.at = "dispatch"] \in CallerType
          /\ [caller[c] EXCEPT !.at = "finish", !.sent = "not_dispatched"] \in CallerType
      BY CallerMoves DEF CallerAt, Sent
    <2>2. \/ caller' = [caller EXCEPT ![c] = [caller[c] EXCEPT !.at = "dispatch"]]
          \/ caller' = [caller EXCEPT ![c] =
                          [caller[c] EXCEPT !.at = "finish", !.sent = "not_dispatched"]]
      BY DEF Reauthorize, Shapes
    <2>3. caller' \in [Callers -> CallerType]
      BY <2>1, <2>2, CallerStep
    <2> QED
      BY <1>a, <2>3 DEF Shapes
  <1>2. Remembered'
    BY <1>a DEF Remembered, Nonces
  <1>3. Callings'
    <2>1. \A d \in Callers :
             /\ caller'[d].nonce = caller[d].nonce
             /\ caller'[d].at \in {"authorize", "dispatch", "finish"} =>
                                    caller[d].at \in {"authorize", "dispatch", "finish"}
      BY <1>a, <1>b
    <2>2. /\ \A n \in Nonces : probes[n].sends <= 1
          /\ \A d \in Callers :
               /\ caller[d].nonce <= Len(probes)
               /\ Unsent(d) => probes[caller[d].nonce].sends = 0
                                               /\ runs[caller[d].nonce] = "none"
      BY DEF Callings
    <2>3. UNCHANGED <<runs, probes>> /\ Nonces' = Nonces
      BY <1>a DEF Nonces
    <2>4. \A d \in Callers : Unsent(d)' => probes'[caller'[d].nonce].sends = 0
                                             /\ runs'[caller'[d].nonce] = "none"
      <3> SUFFICES ASSUME NEW d \in Callers, Unsent(d)'
                   PROVE  probes'[caller'[d].nonce].sends = 0 /\ runs'[caller'[d].nonce] = "none"
        OBVIOUS
      <3>1. Unsent(d)
        BY <1>c
      <3> QED
        BY <2>1, <2>2, <2>3, <3>1
    <2>5. \A d, e \in Callers :
            /\ caller'[d].at \in {"authorize", "dispatch", "finish"}
            /\ caller'[e].at \in {"authorize", "dispatch", "finish"}
            /\ caller'[d].nonce = caller'[e].nonce
            => d = e
      BY <2>1 DEF Callings
    <2>6. \A d \in Callers :
             /\ caller'[d].nonce <= Len(probes')
             /\ caller'[d].at \in {"authorize", "dispatch", "finish"} =>
                                  caller'[d].nonce \in Nonces'
      BY <2>1, <2>3 DEF Callings
    <2> QED
      BY <2>2, <2>3, <2>4, <2>5, <2>6 DEF Callings
  <1>4. Documented'
    <2>1. \A n \in Nonces : IsOut(n)' => IsOut(n)
      BY <1>a, <1>b DEF IsOut, Waiting
    <2> QED
      BY <1>a, <2>1 DEF Documented, Nonces
  <1>5. Leased'
    BY <1>a DEF Leased, OneSweep
  <1> QED
    BY <1>1, <1>2, <1>3, <1>4, <1>5 DEF CInv

LEMMA DispatchKeeps == ASSUME CInv, NEW c \in Callers, Dispatch(c) PROVE CInv'
  <1> DEFINE n == caller[c].nonce
  <1> USE DEF CInv
  <1>a. /\ UNCHANGED <<state, probe, history, lease, hook, sweep, load, epoch, dropped>>
        /\ faults' \in Nat /\ faults' <= load.faults /\ caller[c].at = "dispatch"
    BY CircuitAssumption DEF Dispatch, Fault, Shapes, document
  <1>b. /\ n \in Nonces /\ n \in 1..Len(runs) /\ n \in 1..Len(probes)
        /\ probes[n].sends = 0 /\ runs[n] = "none"
    BY <1>a DEF Callings, Unsent, Waiting, Nonces, Shapes
  <1>c. /\ \A d \in Callers \ {c} : caller'[d] = caller[d]
        /\ caller'[c].nonce = n /\ caller'[c].at = "finish"
        /\ caller'[c].sent \in {"dispatched", "uncertain"}
    BY DEF Dispatch, Shapes, CallerType
  <1>d. /\ probes' \in Seq(Reservation) /\ Len(probes') = Len(probes)
        /\ \A m \in Nonces : /\ probes'[m].key = probes[m].key
                              /\ probes'[m].epoch = probes[m].epoch
                              /\ probes'[m].sends = IF m = n THEN 1 ELSE probes[m].sends
    <2> DEFINE r == [probes[n] EXCEPT !.sends = 1]
    <2>1. r \in Reservation /\ r.key = probes[n].key /\ r.epoch = probes[n].epoch /\ r.sends = 1
      BY <1>b, Entries DEF Reservation
    <2>2. probes' = [probes EXCEPT ![n] = r]
      BY <1>b DEF Dispatch
    <2> HIDE DEF r, n
    <2>3. /\ probes' \in Seq(Reservation) /\ Len(probes') = Len(probes)
          /\ \A m \in 1..Len(probes) : probes'[m] = IF m = n THEN r ELSE probes[m]
      BY <1>b, <2>1, <2>2, ExceptSeq DEF Shapes
    <2> QED
      BY <2>1, <2>3 DEF Nonces
  <1>e. /\ runs' \in Seq(Verdict) /\ Len(runs') = Len(runs)
        /\ \A m \in Nonces : runs'[m] # runs[m] => m = n /\ runs'[m] = "running"
    <2>1. runs' = runs \/ runs' = [runs EXCEPT ![n] = "running"]
      BY DEF Dispatch
    <2>2. "running" \in Verdict /\ runs \in Seq(Verdict) /\ Nonces = 1..Len(runs)
      BY DEF Verdict, Shapes, Nonces
    <2> HIDE DEF n
    <2>3. CASE runs' = [runs EXCEPT ![n] = "running"]
      <3>1. /\ runs' \in Seq(Verdict) /\ Len(runs') = Len(runs)
            /\ \A m \in 1..Len(runs) : runs'[m] = IF m = n THEN "running" ELSE runs[m]
        BY <1>b, <2>2, <2>3, ExceptSeq
      <3> QED
        BY <2>2, <3>1
    <2> QED
      BY <2>1, <2>2, <2>3
  <1>f. Nonces' = Nonces
    BY <1>d DEF Nonces
  <1>g. \A d \in Callers \ {c} :
           caller[d].at \in {"authorize", "dispatch", "finish"} => caller[d].nonce # n
    BY <1>a DEF Callings
  <1> HIDE DEF n
  <1>1. Shapes'
    <2>1. \A x \in Sent : [caller[c] EXCEPT !.at = "finish", !.sent = x] \in CallerType
      BY CallerMoves DEF CallerAt
    <2>2. \E x \in {"dispatched", "uncertain"} :
            caller' = [caller EXCEPT ![c] = [caller[c] EXCEPT !.at = "finish", !.sent = x]]
      BY DEF Dispatch, Shapes
    <2>3. caller' \in [Callers -> CallerType]
      BY <2>1, <2>2, CallerStep DEF Sent
    <2> QED
      BY <1>a, <1>d, <1>e, <2>3 DEF Shapes, MaxProbes
  <1>2. Remembered'
    BY <1>a, <1>d, <1>f DEF Remembered
  <1>3. Callings'
    <2>1. \A m \in Nonces : probes'[m].sends <= 1
      BY <1>d DEF Callings
    <2>2. \A d \in Callers :
             /\ caller'[d].nonce = caller[d].nonce
             /\ caller'[d].at \in {"authorize", "dispatch", "finish"} =>
                  caller[d].at \in {"authorize", "dispatch", "finish"}
             /\ Unsent(d)' => Unsent(d) /\ d # c
      BY <1>a, <1>c DEF Unsent, Waiting, n
    <2>3. \A d \in Callers : Unsent(d)' =>
             /\ caller[d].nonce \in Nonces /\ caller[d].nonce # n
             /\ probes[caller[d].nonce].sends = 0 /\ runs[caller[d].nonce] = "none"
      BY <1>g, <2>2 DEF Callings, Unsent, Waiting
    <2>4. \A d \in Callers : Unsent(d)' =>
             probes'[caller'[d].nonce].sends = 0 /\ runs'[caller'[d].nonce] = "none"
      BY <1>d, <1>e, <2>2, <2>3
    <2> QED
      BY <1>d, <1>f, <2>1, <2>2, <2>4 DEF Callings
  <1>4. Documented'
    <2>1. \A m \in Nonces : IsOut(m)' => IsOut(m)
      <3>1. IsOut(n)
        BY <1>a DEF IsOut, Waiting, n
      <3> QED
        BY <1>c, <1>e, <3>1 DEF IsOut, Waiting
    <2>2. \A m \in Nonces : runs[m] \in {"good", "bad"} => runs'[m] = runs[m]
      BY <1>b, <1>e
    <2>3. probe.nonce # 0 => probe.nonce \in Nonces
      BY DEF Documented, Shapes, Nonces
    <2>4. \A h \in Hooks : /\ hook'[h].nonce <= Len(probes')
                           /\ hook'[h].at # "idle" => /\ hook'[h].nonce \in Nonces'
                                                      /\ runs'[hook'[h].nonce] \in {"good", "bad"}
      BY <1>a, <1>d, <1>f, <2>2 DEF Documented
    <2>5. state' = "open" => \A m \in Nonces' : probes'[m].epoch = epoch' /\ IsOut(m)' =>
             probe'.nonce = m /\ probe'.status = "requested"
      BY <1>a, <1>d, <1>f, <2>1 DEF Documented
    <2>6. probe'.status = "verified" => /\ probe'.nonce \in Nonces'
                                        /\ runs'[probe'.nonce] \in {"good", "bad"}
                                        /\ probe'.good => runs'[probe'.nonce] = "good"
      BY <1>a, <1>f, <2>2 DEF Documented
    <2> QED
      BY <1>a, <1>d, <2>3, <2>4, <2>5, <2>6 DEF Documented
  <1>5. Leased'
    BY <1>a DEF Leased, OneSweep
  <1> QED
    BY <1>1, <1>2, <1>3, <1>4, <1>5 DEF CInv

LEMMA FinishDispatchKeeps == ASSUME CInv, NEW c \in Callers, FinishDispatch(c) PROVE CInv'
  <1> USE DEF CInv
  <1>a. /\ UNCHANGED <<state, lease, hook, sweep, runs, probes, load, epoch, faults, dropped>>
        /\ caller[c].at = "finish" /\ caller' = [caller EXCEPT ![c].at = "done"]
    BY DEF FinishDispatch, bound
  <1>b. /\ \A d \in Callers \ {c} : caller'[d] = caller[d]
        /\ caller'[c].at = "done" /\ caller'[c].nonce = caller[c].nonce
    BY <1>a DEF Shapes, CallerType
  <1>0. probe \in [nonce : Nat, status : Status, dispatch : Sent, good : BOOLEAN]
        /\ caller[c].sent \in Sent
    <2>1. caller[c] \in CallerType
      BY DEF Shapes
    <2>2. probe \in [nonce : Nat, status : Status, dispatch : Sent, good : BOOLEAN]
      BY DEF Shapes
    <2> QED
      BY <2>1, <2>2 DEF CallerType
  <1>c. /\ probe' \in [nonce : Nat, status : Status, dispatch : Sent, good : BOOLEAN]
        /\ probe'.nonce = probe.nonce /\ probe'.good = probe.good
        /\ \/ UNCHANGED <<probe, history>>
           \/ /\ history' = Answered(probe', state') /\ probe.nonce = caller[c].nonce
              /\ \/ probe'.status = probe.status
                 \/ /\ probe.status = "requested" /\ probe'.status = "cancelled"
                    /\ caller[c].sent = "not_dispatched"
    BY <1>0, <1>a DEF FinishDispatch, FinishedStatus, Status
  <1>d. /\ history' \in [Keys -> Answer \cup {None}]
        /\ \A k \in Keys : history[k] # None => history'[k] # None
        /\ probe.nonce # 0 => history'[probes[probe.nonce].key] =
             [status |-> probe'.status, dispatch |-> probe'.dispatch, state |-> state']
    <2>1. CASE UNCHANGED <<probe, history>>
      BY <1>a, <2>1 DEF Shapes, Documented
    <2>2. CASE history' = Answered(probe', state')
      BY <1>a, <1>c, <2>2, AnsweredStep DEF Shapes
    <2> QED
      BY <1>c, <2>1, <2>2
  <1>1. Shapes'
    <2>1. [caller[c] EXCEPT !.at = "done"] \in CallerType
      BY CallerMoves DEF CallerAt, Sent
    <2>2. caller' = [caller EXCEPT ![c] = [caller[c] EXCEPT !.at = "done"]]
      BY <1>a
    <2>3. caller' \in [Callers -> CallerType]
      BY <2>1, <2>2, CallerStep
    <2> QED
      BY <1>a, <1>c, <1>d, <2>3 DEF Shapes
  <1>2. Remembered'
    <2>1. \A n \in Nonces : probes[n].key \in Keys
      BY Entries
    <2> QED
      BY <1>a, <1>d, <2>1 DEF Remembered, Nonces
  <1>3. Callings'
    BY <1>a, <1>b DEF Callings, Unsent, Waiting, Nonces
  <1>4. Documented'
    <2>1. \A n \in Nonces : IsOut(n)' => IsOut(n)
      BY <1>a, <1>b DEF IsOut, Waiting
    \* A reservation that is cancelled was not sent, and nobody is to send it.
    <2>2. probe'.status # probe.status => ~IsOut(probe.nonce)
      <3> SUFFICES ASSUME probe'.status # probe.status PROVE ~IsOut(probe.nonce)
        OBVIOUS
      <3>1. probe.nonce = caller[c].nonce /\ Unsent(c)
        BY <1>a, <1>c DEF Unsent
      <3> QED
        BY <1>a, <3>1 DEF Callings, IsOut, Waiting
    <2>3. state' = "open" => \A n \in Nonces' : probes'[n].epoch = epoch' /\ IsOut(n)' =>
             probe'.nonce = n /\ probe'.status = "requested"
      BY <1>a, <1>c, <2>1, <2>2 DEF Documented, Nonces
    <2>4. probe'.status = "verified" => probe.status = "verified"
      BY <1>c
    <2> QED
      BY <1>a, <1>c, <1>d, <2>3, <2>4 DEF Documented, Nonces
  <1>5. Leased'
    BY <1>a DEF Leased, OneSweep
  <1> QED
    BY <1>1, <1>2, <1>3, <1>4, <1>5 DEF CInv

LEMMA LoseCallerKeeps == ASSUME CInv, NEW c \in Callers, LoseCaller(c) PROVE CInv'
  <1> USE CircuitAssumption DEF CInv, LoseCaller, document, bound, Fault, Idle
  <1>1. Shapes'
    BY DEF Shapes, Status, Sent, Verdict, Reservation, Answer, CallerType, HookType, SweepType
  <1>2. Remembered'
    BY DEF Shapes, Reservation, Remembered, Nonces
  <1>3. Callings'
    BY DEF Shapes, CallerType, Reservation, Callings, Waiting, Unsent, Nonces
  <1>4. Documented'
    BY DEF Shapes, CallerType, HookType, Reservation, Documented, IsOut, Waiting, Nonces
  <1>5. Leased'
    BY DEF Shapes, SweepType, Leased, OneSweep
  <1> QED
    BY <1>1, <1>2, <1>3, <1>4, <1>5 DEF CInv

LEMMA EndRunKeeps == ASSUME CInv, NEW n \in Nonces, EndRun(n) PROVE CInv'
  <1> USE CircuitAssumption DEF CInv, EndRun, document, bound
  <1>1. Shapes'
    <2>1. PICK v \in {"good", "bad"} : runs' = [runs EXCEPT ![n] = v]
      OBVIOUS
    <2>2. v \in Verdict /\ runs \in Seq(Verdict) /\ n \in 1..Len(runs)
      BY DEF Verdict, Shapes, Nonces
    <2>3. runs' \in Seq(Verdict) /\ Len(runs') = Len(runs)
      BY <2>1, <2>2, ExceptSeq
    <2> QED
      BY <2>3 DEF Shapes
  <1>2. Remembered'
    BY DEF Shapes, Reservation, Remembered, Nonces
  <1>3. Callings'
    <2>1. UNCHANGED <<caller, probes>> /\ runs[n] = "running"
      OBVIOUS
    <2>2. \A m \in Nonces : m # n => runs'[m] = runs[m]
      BY DEF Shapes, Nonces
    <2>3. ASSUME NEW c \in Callers, Unsent(c)'
          PROVE  probes'[caller'[c].nonce].sends = 0 /\ runs'[caller'[c].nonce] = "none"
      <3>1. Unsent(c) /\ caller[c].nonce \in Nonces
        BY <2>1, <2>3 DEF Callings, Unsent, Waiting
      <3>2. probes[caller[c].nonce].sends = 0 /\ runs[caller[c].nonce] = "none"
        BY <3>1 DEF Callings
      <3> QED
        BY <2>1, <2>2, <3>1, <3>2
    <2> QED
      BY <2>1, <2>3 DEF Callings, Nonces
  <1>4. Documented'
    BY DEF Shapes, CallerType, HookType, Reservation, Documented, IsOut, Waiting, Nonces
  <1>5. Leased'
    BY DEF Shapes, SweepType, Leased, OneSweep
  <1> QED
    BY <1>1, <1>2, <1>3, <1>4, <1>5 DEF CInv

LEMMA DeliverKeeps == ASSUME CInv, NEW h \in Hooks, NEW n \in Nonces, Deliver(h, n) PROVE CInv'
  <1> USE CircuitAssumption DEF CInv, Deliver, document, bound, Matches
  <1>1. Shapes'
    BY DEF Shapes, Status, Sent, Verdict, Reservation, Answer, CallerType, HookType, SweepType
  <1>2. Remembered'
    BY DEF Shapes, Reservation, Remembered, Nonces
  <1>3. Callings'
    BY DEF Shapes, CallerType, Reservation, Callings, Waiting, Unsent, Nonces
  <1>4. Documented'
    BY DEF Shapes, CallerType, HookType, Reservation, Documented, IsOut, Waiting, Nonces
  <1>5. Leased'
    BY DEF Shapes, SweepType, Leased, OneSweep
  <1> QED
    BY <1>1, <1>2, <1>3, <1>4, <1>5 DEF CInv

LEMMA RecordProbeKeeps == ASSUME CInv, NEW h \in Hooks, RecordProbe(h) PROVE CInv'
  <1> USE DEF CInv
  <1>a. /\ UNCHANGED <<state, lease, caller, sweep, runs, probes, load, epoch, faults, dropped>>
        /\ hook[h].at = "record" /\ hook[h].nonce \in Nonces
        /\ runs[hook[h].nonce] \in {"good", "bad"}
    BY DEF RecordProbe, bound, Documented
  <1>b. /\ \A g \in Hooks \ {h} : hook'[g] = hook[g]
        /\ hook'[h] = Free \/ hook'[h] = [hook[h] EXCEPT !.at = "close"]
        /\ hook' \in [Hooks -> HookType]
    <2>1. Free \in HookType /\ [hook[h] EXCEPT !.at = "close"] \in HookType
      BY DEF Shapes, HookType, Free
    <2>2. \/ hook' = [hook EXCEPT ![h] = Free]
          \/ hook' = [hook EXCEPT ![h] = [hook[h] EXCEPT !.at = "close"]]
      BY DEF RecordProbe, Shapes
    <2>3. hook \in [Hooks -> HookType]
      BY DEF Shapes
    <2> QED
      BY <2>1, <2>2, <2>3
  <1>c. \/ UNCHANGED <<probe, history>>
        \/ /\ probe' = [probe EXCEPT !.status = "verified", !.good = (runs[hook[h].nonce] = "good")]
           /\ history' = Answered(probe', state')
           /\ probe.nonce = hook[h].nonce
    BY <1>a DEF RecordProbe, CanRecord, Matches
  <1>d. /\ probe' \in [nonce : Nat, status : Status, dispatch : Sent, good : BOOLEAN]
        /\ probe'.nonce = probe.nonce /\ probe'.dispatch = probe.dispatch
        /\ probe' # probe => /\ probe'.status = "verified"
                             /\ probe'.good => runs[hook[h].nonce] = "good"
                             /\ probe.nonce = hook[h].nonce
    BY <1>c DEF Shapes, Status, Sent
  <1>e. /\ history' \in [Keys -> Answer \cup {None}]
        /\ \A k \in Keys : history[k] # None => history'[k] # None
        /\ probe.nonce # 0 => history'[probes[probe.nonce].key] =
             [status |-> probe'.status, dispatch |-> probe'.dispatch, state |-> state']
    <2>1. CASE UNCHANGED <<probe, history>>
      BY <1>a, <2>1 DEF Shapes, Documented
    <2>2. CASE history' = Answered(probe', state')
      BY <1>a, <1>d, <2>2, AnsweredStep DEF Shapes
    <2> QED
      BY <1>c, <2>1, <2>2
  <1>1. Shapes'
    BY <1>a, <1>b, <1>d, <1>e DEF Shapes
  <1>2. Remembered'
    <2>1. \A n \in Nonces : probes[n].key \in Keys
      BY Entries
    <2> QED
      BY <1>a, <1>e, <2>1 DEF Remembered, Nonces
  <1>3. Callings'
    BY <1>a DEF Callings, Unsent, Waiting, Nonces
  <1>4. Documented'
    <2>1. \A n \in Nonces : IsOut(n)' => IsOut(n)
      BY <1>a DEF IsOut, Waiting
    \* The run has ended, and its request has been sent.
    <2>2. ~IsOut(hook[h].nonce)
      BY <1>a DEF IsOut, Callings, Unsent
    <2>3. state' = "open" => \A n \in Nonces' : probes'[n].epoch = epoch' /\ IsOut(n)' =>
             probe'.nonce = n /\ probe'.status = "requested"
      BY <1>a, <1>d, <2>1, <2>2 DEF Documented, Nonces
    <2>4. \A g \in Hooks : /\ hook'[g].nonce <= Len(probes')
                           /\ hook'[g].at # "idle" => /\ hook'[g].nonce \in Nonces'
                                                      /\ runs'[hook'[g].nonce] \in {"good", "bad"}
      BY SMTT(30), <1>a, <1>b DEF Documented, Shapes, HookType, Free, Nonces
    <2>5. probe'.status = "verified" => /\ probe'.nonce \in Nonces'
                                        /\ runs'[probe'.nonce] \in {"good", "bad"}
                                        /\ probe'.good => runs'[probe'.nonce] = "good"
      BY <1>a, <1>d DEF Documented, Nonces
    <2> QED
      BY <1>a, <1>d, <1>e, <2>3, <2>4, <2>5 DEF Documented
  <1>5. Leased'
    BY <1>a DEF Leased, OneSweep
  <1> QED
    BY <1>1, <1>2, <1>3, <1>4, <1>5 DEF CInv

LEMMA CloseAfterProbeKeeps == ASSUME CInv, NEW h \in Hooks, CloseAfterProbe(h) PROVE CInv'
  <1> USE DEF CInv
  <1>a. /\ UNCHANGED <<probe, lease, caller, sweep, runs, probes, load, epoch, faults, dropped>>
        /\ hook' = [hook EXCEPT ![h] = Free] /\ state' \in {"closed", "open"}
        /\ \/ UNCHANGED <<state, history>>
           \/ state' = "closed" /\ history' = Answered(probe', state')
    BY DEF CloseAfterProbe, bound, Shapes
  <1>b. /\ history' \in [Keys -> Answer \cup {None}]
        /\ \A k \in Keys : history[k] # None => history'[k] # None
        /\ probe.nonce # 0 => history'[probes[probe.nonce].key] =
             [status |-> probe'.status, dispatch |-> probe'.dispatch, state |-> state']
    <2>1. CASE UNCHANGED <<state, history>>
      BY <1>a, <2>1 DEF Shapes, Documented
    <2>2. CASE history' = Answered(probe', state')
      BY <1>a, <2>2, AnsweredStep DEF Shapes
    <2> QED
      BY <1>a, <2>1, <2>2
  <1>1. Shapes'
    BY <1>a, <1>b DEF Shapes, HookType, Free
  <1>2. Remembered'
    <2>1. \A n \in Nonces : probes[n].key \in Keys
      BY Entries
    <2> QED
      BY <1>a, <1>b, <2>1 DEF Remembered, Nonces
  <1>3. Callings'
    BY <1>a DEF Callings, Unsent, Waiting, Nonces
  <1>4. Documented'
    <2>1. \A n \in Nonces : IsOut(n)' => IsOut(n)
      BY <1>a DEF IsOut, Waiting
    <2>2. \A g \in Hooks : /\ hook'[g].nonce <= Len(probes')
                           /\ hook'[g].at # "idle" => /\ hook'[g].nonce \in Nonces'
                                                      /\ runs'[hook'[g].nonce] \in {"good", "bad"}
      BY <1>a DEF Documented, Shapes, HookType, Free, Nonces
    <2>3. state' = "open" => state = "open"
      BY <1>a
    <2> QED
      BY <1>a, <1>b, <2>1, <2>2, <2>3 DEF Documented, Nonces
  <1>5. Leased'
    BY <1>a DEF Leased, OneSweep
  <1> QED
    BY <1>1, <1>2, <1>3, <1>4, <1>5 DEF CInv

LEMMA LoseHookKeeps == ASSUME CInv, NEW h \in Hooks, LoseHook(h) PROVE CInv'
  <1> USE CircuitAssumption DEF CInv, LoseHook, document, bound, Fault, Free
  <1>1. Shapes'
    BY DEF Shapes, Status, Sent, Verdict, Reservation, Answer, CallerType, HookType, SweepType
  <1>2. Remembered'
    BY DEF Shapes, Reservation, Remembered, Nonces
  <1>3. Callings'
    BY DEF Shapes, CallerType, Reservation, Callings, Waiting, Unsent, Nonces
  <1>4. Documented'
    BY DEF Shapes, CallerType, HookType, Reservation, Documented, IsOut, Waiting, Nonces
  <1>5. Leased'
    BY DEF Shapes, SweepType, Leased, OneSweep
  <1> QED
    BY <1>1, <1>2, <1>3, <1>4, <1>5 DEF CInv

LEMMA ClaimPropagationKeeps == ASSUME CInv, NEW s \in Sweepers, ClaimPropagation(s) PROVE CInv'
  <1> USE CircuitAssumption DEF CInv, ClaimPropagation, document, bound, Resting
  <1>1. Shapes'
    BY DEF Shapes, Status, Sent, Verdict, Reservation, Answer, CallerType, HookType, SweepType
  <1>2. Remembered'
    BY DEF Shapes, Reservation, Remembered, Nonces
  <1>3. Callings'
    BY DEF Shapes, CallerType, Reservation, Callings, Waiting, Unsent, Nonces
  <1>4. Documented'
    BY DEF Shapes, CallerType, HookType, Reservation, Documented, IsOut, Waiting, Nonces
  <1>5. Leased'
    BY DEF Shapes, SweepType, Leased, OneSweep
  <1> QED
    BY <1>1, <1>2, <1>3, <1>4, <1>5 DEF CInv

LEMMA FinishPropagationKeeps == ASSUME CInv, NEW s \in Sweepers, FinishPropagation(s) PROVE CInv'
  <1> USE CircuitAssumption DEF CInv, FinishPropagation, document, bound, OwnsLease, Resting
  <1>1. Shapes'
    BY DEF Shapes, Status, Sent, Verdict, Reservation, Answer, CallerType, HookType, SweepType
  <1>2. Remembered'
    BY DEF Shapes, Reservation, Remembered, Nonces
  <1>3. Callings'
    BY DEF Shapes, CallerType, Reservation, Callings, Waiting, Unsent, Nonces
  <1>4. Documented'
    BY DEF Shapes, CallerType, HookType, Reservation, Documented, IsOut, Waiting, Nonces
  <1>5. Leased'
    BY DEF Shapes, SweepType, Leased, OneSweep
  <1> QED
    BY <1>1, <1>2, <1>3, <1>4, <1>5 DEF CInv

LEMMA OutlivedType == \A w \in SweepType : Outlived(w) \in SweepType
  BY DEF Outlived, SweepType

LEMMA LapseUnseenKeeps == ASSUME CInv, NEW s \in Sweepers, LapseUnseen(s) PROVE CInv'
  <1> USE CircuitAssumption DEF CInv, LapseUnseen, document, bound
  <1>1. Shapes'
    <2>1. sweep' \in [Sweepers -> SweepType]
      BY OutlivedType DEF Shapes
    <2> QED
      BY <2>1 DEF Shapes, Status, Sent, Verdict, Reservation, Answer, CallerType, HookType
  <1>2. Remembered'
    BY DEF Shapes, Reservation, Remembered, Nonces
  <1>3. Callings'
    BY DEF Shapes, CallerType, Reservation, Callings, Waiting, Unsent, Nonces
  <1>4. Documented'
    BY DEF Shapes, CallerType, HookType, Reservation, Documented, IsOut, Waiting, Nonces
  <1>5. Leased'
    BY DEF Shapes, SweepType, Leased, OneSweep, Outlived
  <1> QED
    BY <1>1, <1>2, <1>3, <1>4, <1>5 DEF CInv

LEMMA LapseKeeps == ASSUME CInv, Lapse PROVE CInv'
  <1> USE CircuitAssumption DEF CInv, Lapse, document, bound
  <1>1. Shapes'
    <2>1. sweep' \in [Sweepers -> SweepType]
      BY OutlivedType DEF Shapes, Leased
    <2> QED
      BY <2>1 DEF Shapes, Status, Sent, Verdict, Reservation, Answer, CallerType, HookType
  <1>2. Remembered'
    BY DEF Shapes, Reservation, Remembered, Nonces
  <1>3. Callings'
    BY DEF Shapes, CallerType, Reservation, Callings, Waiting, Unsent, Nonces
  <1>4. Documented'
    BY DEF Shapes, CallerType, HookType, Reservation, Documented, IsOut, Waiting, Nonces
  <1>5. Leased'
    BY DEF Shapes, SweepType, Leased, OneSweep, Outlived
  <1> QED
    BY <1>1, <1>2, <1>3, <1>4, <1>5 DEF CInv

-----------------------------------------------------------------------------
(* The theorems.                                                           *)

LEMMA CInit == Init => CInv
  <1> SUFFICES ASSUME Init PROVE CInv
    OBVIOUS
  <1>1. MaxProbes \in Nat
    BY CircuitAssumption, FS_CardinalityType DEF MaxProbes
  <1>2. load.faults \in Nat
    BY CircuitAssumption DEF Init
  <1>3. runs = <<>> /\ probes = <<>> /\ Len(probes) = 0 /\ Len(runs) = 0 /\ Nonces = {}
    BY DEF Init, Nonces
  <1>4. Shapes
    <2>1. runs \in Seq(Verdict) /\ probes \in Seq(Reservation)
      BY <1>3
    <2>2. probe \in [nonce : Nat, status : Status, dispatch : Sent, good : BOOLEAN]
      BY DEF Init, NoProbe, Status, Sent
    <2>3. caller \in [Callers -> CallerType] /\ hook \in [Hooks -> HookType]
      BY DEF Init, Idle, Free, CallerType, HookType, Sent
    <2>4. /\ lease \in [token : Sweepers \cup {None}, until : {"due", "lease", "cooldown"}]
          /\ sweep \in [Sweepers -> SweepType]
          /\ history \in [Keys -> Answer \cup {None}]
      BY DEF Init, NoLease, Resting, SweepType
    <2>5. /\ load \in Workloads /\ state \in {"closed", "open"} /\ dropped \in BOOLEAN
          /\ epoch \in Nat /\ epoch <= MaxOpens /\ faults \in Nat /\ faults <= load.faults
      <3>1. 0 <= MaxOpens /\ 0 <= load.faults
        BY <1>2, CircuitAssumption
      <3> QED
        BY <3>1 DEF Init
    <2> QED
      BY <1>1, <1>3, <2>1, <2>2, <2>3, <2>4, <2>5 DEF Shapes
  <1>5. Remembered /\ Callings /\ Documented /\ Leased
    BY <1>3 DEF Init, Remembered, Callings, Documented, Leased, Unsent, Waiting,
                NoProbe, NoLease, Idle, Free, Resting, OneSweep
  <1> QED
    BY <1>4, <1>5 DEF CInv

LEMMA CNext == ASSUME CInv, [Next]_vars PROVE CInv'
  <1>1. load.callers \subseteq Callers /\ load.sweepers \subseteq Sweepers
    BY CircuitAssumption DEF CInv, Shapes
  <1>2. DOMAIN runs = Nonces
    BY DEF CInv, Shapes, Nonces
  <1>3. CASE UNCHANGED vars
    BY <1>3 DEF vars, document, bound, CInv, Shapes, Remembered, Callings, Documented, Leased,
                Nonces, Unsent, Waiting, IsOut, OneSweep
  <1>4. ASSUME NEW c \in load.callers, Request(c) PROVE CInv'
    BY <1>1, <1>4, ReserveKeeps, ReplayKeeps, ReauthorizeKeeps, DispatchKeeps,
       FinishDispatchKeeps, LoseCallerKeeps DEF Request
  <1>5. ASSUME NEW s \in load.sweepers, Propagate(s) PROVE CInv'
    BY <1>1, <1>5, ClaimPropagationKeeps, FinishPropagationKeeps, LapseUnseenKeeps DEF Propagate
  <1>6. ASSUME NEW h \in Hooks, RecordProbe(h) \/ CloseAfterProbe(h) \/ LoseHook(h) PROVE CInv'
    BY <1>6, RecordProbeKeeps, CloseAfterProbeKeeps, LoseHookKeeps
  <1>7. ASSUME NEW n \in DOMAIN runs, EndRun(n) PROVE CInv'
    BY <1>2, <1>7, EndRunKeeps
  <1>8. ASSUME NEW h \in Hooks, NEW n \in DOMAIN runs, Deliver(h, n) PROVE CInv'
    BY <1>2, <1>8, DeliverKeeps
  <1> QED
    BY <1>3, <1>4, <1>5, <1>6, <1>7, <1>8, OpenCircuitKeeps, LapseKeeps DEF Next

\* Every reachable state of the circuit satisfies the inductive invariant.
THEOREM CircuitIsSound == Spec => []CInv
  BY CInit, CNext, PTL DEF Spec

\* For any number of keys, requests, handlers, sweeps, openings and faults: a
\* key sends at most one workflow, at most one probe of an open circuit is out,
\* and at most one sweep of each opening holds a lease that has not lapsed
\* (reserve_probe, finish_probe_dispatch, open_circuit, claim_mode_propagation,
\* finish_mode_propagation).
THEOREM NothingDoubled == Spec => []NothingIsDoubled
  <1>1. ASSUME CInv PROVE NothingIsDoubled
    <2>0. DOMAIN probes = Nonces
      BY <1>1 DEF CInv, Shapes, Nonces
    <2>1. TypeOK
      <3>1. /\ Len(probes) \in Nat /\ probe.nonce \in Nat
            /\ \A c \in Callers : caller[c].nonce \in Nat
            /\ \A h \in Hooks : hook[h].nonce \in Nat
            /\ epoch \in Nat /\ MaxOpens \in Nat /\ faults \in Nat /\ load.faults \in Nat
        BY <1>1, CircuitAssumption, LenProperties DEF CInv, Shapes, CallerType, HookType, SweepType
      <3>2. /\ state \in {"closed", "open"} /\ probe.status \in Status /\ probe.dispatch \in Sent
            /\ lease.token \in Sweepers \cup {None} /\ lease.until \in {"due", "lease", "cooldown"}
            /\ Len(probes) = Len(runs) /\ Len(probes) <= MaxProbes
            /\ epoch <= MaxOpens /\ faults <= load.faults
        BY <1>1 DEF CInv, Shapes
      <3>3. /\ probe.nonce <= Len(probes)
            /\ \A c \in Callers : caller[c].nonce <= Len(probes)
            /\ \A h \in Hooks : hook[h].nonce <= Len(probes)
            /\ probe.nonce # 0 => history[probes[probe.nonce].key] =
                 [status |-> probe.status, dispatch |-> probe.dispatch, state |-> state]
        BY <1>1 DEF CInv, Callings, Documented
      <3> QED
        BY <3>1, <3>2, <3>3 DEF TypeOK, Status, Sent
    <2>2. KeySendsOnce
      BY <1>1, <2>0, Entries DEF CInv, Remembered, Callings, KeySendsOnce
    <2>3. OneProbeIsOut
      BY <1>1, <2>0 DEF CInv, Documented, IsOut, OneProbeIsOut
    <2>4. OneSweep
      BY <1>1 DEF CInv, Leased
    <2> QED
      BY <2>1, <2>2, <2>3, <2>4 DEF NothingIsDoubled
  <1> QED
    BY <1>1, CircuitIsSound, PTL

-----------------------------------------------------------------------------
Closing == state = "open" /\ state' = "closed" =>
             \E n \in DOMAIN probes : probes[n].epoch = epoch /\ runs[n] = "good"
                                       /\ probe.nonce = n
Final == probe.status = "verified" /\ probe'.nonce = probe.nonce =>
           probe'.status = "verified" /\ probe'.good = probe.good

\* No step but the close of a handler closes the circuit, and no step touches
\* a verdict.
LEMMA DecisiveSteps == ASSUME CInv, [Next]_vars PROVE [Closing]_vars /\ [Final]_vars
  <1>1. CASE UNCHANGED <<state, probe>>
    BY <1>1 DEF Closing, Final, CInv, Shapes
  <1>2. CASE OpenCircuit
    BY <1>2 DEF OpenCircuit, NoProbe, Closing, Final, CInv, Documented, Nonces
  <1>3. ASSUME NEW c \in Callers, Reserve(c) PROVE Closing /\ Final
    <2>1. UNCHANGED state /\ probe'.nonce = Len(probes) + 1
      BY <1>3 DEF Reserve
    <2>2. probe.nonce \in Nat /\ Len(probes) \in Nat /\ probe.nonce <= Len(probes)
      BY DEF CInv, Shapes, Documented
    <2> QED
      BY <2>1, <2>2 DEF Closing, Final
  <1>4. ASSUME NEW c \in Callers, FinishDispatch(c) PROVE Closing /\ Final
    BY <1>4 DEF FinishDispatch, FinishedStatus, Closing, Final, CInv, Shapes
  <1>5. ASSUME NEW h \in Hooks, RecordProbe(h) PROVE Closing /\ Final
    BY <1>5 DEF RecordProbe, CanRecord, Matches, Closing, Final, CInv, Shapes
  <1>6. ASSUME NEW h \in Hooks, CloseAfterProbe(h) PROVE Closing /\ Final
    <2>1. DOMAIN probes = Nonces
      BY DEF CInv, Shapes, Nonces
    <2>2. state = "open" /\ state' = "closed" => CanClose(hook[h].nonce)
      BY <1>6 DEF CloseAfterProbe
    <2> QED
      BY <1>6, <2>1, <2>2 DEF CloseAfterProbe, CanClose, Closing, Final, CInv, Documented,
         Nonces
  <1>7. ASSUME NEW c \in load.callers, Request(c)
        PROVE  Reserve(c) \/ FinishDispatch(c) \/ UNCHANGED <<state, probe>>
    BY <1>7 DEF Request, Replay, Reauthorize, Dispatch, LoseCaller, document
  <1>8. ASSUME NEW s \in load.sweepers, Propagate(s) PROVE UNCHANGED <<state, probe>>
    BY <1>8 DEF Propagate, ClaimPropagation, FinishPropagation, LapseUnseen, document
  <1>9. ASSUME NEW n, NEW h \in Hooks, EndRun(n) \/ Deliver(h, n) \/ LoseHook(h)
        PROVE  UNCHANGED <<state, probe>>
    BY <1>9 DEF EndRun, Deliver, LoseHook, document
  <1>10. ASSUME NEW n, EndRun(n) PROVE UNCHANGED <<state, probe>>
    BY <1>10 DEF EndRun, document
  <1>11. ASSUME Lapse \/ UNCHANGED vars PROVE UNCHANGED <<state, probe>>
    BY <1>11 DEF Lapse, vars, document
  <1>12. load.callers \subseteq Callers
    BY CircuitAssumption DEF CInv, Shapes
  <1> QED
    BY <1>1, <1>2, <1>3, <1>4, <1>5, <1>6, <1>7, <1>8, <1>9, <1>10, <1>11, <1>12 DEF Next

\* Only a good run of this opening closes the circuit, and a verdict that was
\* recorded stays (record_probe, close_after_successful_probe,
\* finish_probe_dispatch).
THEOREM VerdictsAreDecisive == Spec => VerdictsDecide
  <1>1. Spec => [][Closing]_vars /\ [][Final]_vars
    BY CircuitIsSound, DecisiveSteps, PTL DEF Spec
  <1> QED
    BY <1>1 DEF VerdictsDecide, ClosedByAGoodProbe, VerdictIsFinal, Closing, Final
=============================================================================
