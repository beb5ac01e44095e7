----------------------------- MODULE RuntimeLogs -----------------------------
(***************************************************************************)
(* Reading runtime logs: the permits and the queue that all replicas share *)
(* (services/log_budget.py), and the samples a replica keeps and refreshes *)
(* (services/runtime_logs.py, routers/logs.py, services/log_catalog.py).   *)
(*                                                                         *)
(* A participant is one resource under one policy in one replica; Threads  *)
(* serve requests.  The budget document is replaced by compare-and-swap:   *)
(* a thread computes its replacement from a snapshot (draft) and installs  *)
(* it unless the document was written meanwhile.  Time passes in units of  *)
(* CADENCE_SECONDS; times are kept relative to the present, in the drafts  *)
(* too, because they were computed from the time of their snapshot.        *)
(***************************************************************************)
EXTENDS Integers, Sequences, FiniteSets, SequencesExt

CONSTANTS
    Participants,  \* resources, as the FIFO knows them
    Threads,       \* requests served at the same time
    Objects,       \* Cache objects of the replica
    None,
    Limits,        \* _MAX_CACHE_RESOURCES with MAX_ATTEMPTS: pairs to look at
    MaxWaiters,    \* MAX_WAITERS
    Window,        \* 60 seconds, in units of the cadence
    WaiterTtl,     \* WAITER_TTL_SECONDS, likewise
    PageSize,      \* config.logs.page_size
    Buffer,        \* config.logs.buffer_entries
    MaxFaults      \* bound on crashes, lost answers and catalog changes

ASSUME NoneAssumption == None \notin Participants \cup Threads \cup Objects
ASSUME SizeAssumption ==
    /\ Limits \subseteq [caches : Nat \ {0}, attempts : Nat \ {0}]
    /\ MaxWaiters \in Nat \ {0} /\ Window \in Nat \ {0} /\ WaiterTtl \in Nat
    /\ PageSize \in Nat \ {0} /\ Buffer \in Nat \ {0} /\ MaxFaults \in Nat

VARIABLES
    doc,      \* the budget document of the quota project
    hand,     \* what each thread does
    caches,   \* _caches: the Cache object of a participant
    objs,     \* the Cache objects, those that were discarded too
    listed,   \* participants of the current catalog
    limits,   \* _MAX_CACHE_RESOURCES and MAX_ATTEMPTS
    begun,    \* history: calls of Cloud Logging by age
    faults

vars == <<doc, hand, caches, objs, listed, limits, begun, faults>>
replica == <<caches, objs, limits>>

NoObject == [size |-> 0, invalid |-> FALSE, lock |-> None]
EmptyDoc == [attempts |-> <<>>, waiters |-> <<>>, due |-> 0]
Idle == [pc |-> "idle", p |-> None, obj |-> None, items |-> {},
         draft |-> EmptyDoc, fit |-> FALSE, verdict |-> "none", page |-> 0]

At(t, pc) == hand[t].pc = pc
Goto(t, pc) == hand' = [hand EXCEPT ![t].pc = pc]
Return(t) == hand' = [hand EXCEPT ![t] = Idle]

Fault == faults < MaxFaults /\ faults' = faults + 1
NoFault == UNCHANGED faults

-----------------------------------------------------------------------------
(* The budget document.  What is older than _record keeps is dropped when  *)
(* time passes.                                                            *)

Aged(d) ==
    [attempts |-> SelectSeq([i \in DOMAIN d.attempts |->
                     [d.attempts[i] EXCEPT !.left = IF d.attempts[i].done
                                                    THEN @ - 1 ELSE @]],
                     LAMBDA a : ~a.done \/ a.left > 0),
     waiters |-> SelectSeq([i \in DOMAIN d.waiters |->
                     [d.waiters[i] EXCEPT !.idle = @ + 1]],
                     LAMBDA v : v.idle <= WaiterTtl),
     due |-> IF d.due = 0 THEN 0 ELSE d.due - 1]

Pending(d, p) == \E i \in DOMAIN d.attempts :
                    d.attempts[i].owner = p /\ ~d.attempts[i].done

Place(d, p) == SelectInSeq(d.waiters, LAMBDA v : v.who = p)

\* Joining the queue, or being seen in it.
Joined(d, p) ==
    IF Place(d, p) = 0
    THEN [d EXCEPT !.waiters = Append(@, [who |-> p, idle |-> 0])]
    ELSE [d EXCEPT !.waiters[Place(d, p)].idle = 0]

\* Seeded fault: whoever asks in time is served.
TurnFault(d, p) == d.due = 0 /\ Len(d.attempts) < limits.attempts

\* It is p's turn, the cadence is kept and a slot is free.
CanGrant(d, p) == /\ Place(d, p) = 1 /\ d.due = 0
                  /\ Len(d.attempts) < limits.attempts

Granted(d, p, t) ==
    [d EXCEPT !.waiters = SelectSeq(@, LAMBDA v : v.who # p),
              !.attempts = Append(@, [owner |-> p, token |-> t,
                                      done |-> FALSE, left |-> Window]),
              !.due = 1]

\* acquire: the answer of reserve.
Verdict(d, p) ==
    IF Pending(d, p) THEN "pending"
    ELSE IF Place(d, p) = 0 /\ Len(d.waiters) >= MaxWaiters THEN "overload"
    ELSE IF CanGrant(Joined(d, p), p) THEN "granted" ELSE "queued"

Reserved(d, p, t) ==
    CASE Verdict(d, p) = "granted" -> Granted(Joined(d, p), p, t)
      [] Verdict(d, p) = "queued" -> Joined(d, p)
      [] OTHER -> d

\* Seeded fault: a permit whose call has ended is refunded.
CompletedFault(d, t) ==
    [d EXCEPT !.attempts = SelectSeq(@, LAMBDA a : a.token # t)]

\* complete: the permit stays charged for the window that starts now.
Completed(d, t) ==
    [d EXCEPT !.attempts = [i \in DOMAIN d.attempts |->
        IF d.attempts[i].token = t
        THEN [d.attempts[i] EXCEPT !.done = TRUE, !.owner = None,
                                   !.token = None]
        ELSE d.attempts[i]]]

\* A permit that was not completed stays pending for ever.
Orphaned(d, t) ==
    [d EXCEPT !.attempts = [i \in DOMAIN d.attempts |->
        IF d.attempts[i].token = t
        THEN [d.attempts[i] EXCEPT !.token = None] ELSE d.attempts[i]]]

\* The snapshot is read and the replacement is computed.
Draft(t, d, verdict, pc) ==
    hand' = [hand EXCEPT ![t].draft = d, ![t].fit = TRUE,
                         ![t].verdict = verdict, ![t].pc = pc]

\* The replacement is given up.
Abandon(t, pc) ==
    hand' = [hand EXCEPT ![t].draft = EmptyDoc, ![t].fit = FALSE,
                         ![t].verdict = "none", ![t].pc = pc]

\* The document was not written since the snapshot.
Unwritten(t) == hand[t].fit

\* The replacement is written; the snapshots of the others are worthless.
Install(t, pc) ==
    /\ doc' = hand[t].draft
    /\ hand' = [u \in Threads |->
                  IF u = t THEN [hand[t] EXCEPT !.pc = pc, !.fit = FALSE,
                                                !.draft = EmptyDoc,
                                                !.verdict = "none"]
                  ELSE IF doc' = doc THEN hand[u]
                  ELSE [hand[u] EXCEPT !.fit = FALSE, !.draft = EmptyDoc]]

-----------------------------------------------------------------------------
(* The samples of the replica.                                             *)

\* Some other thread than t works with the object o.
Held(o, t) == \E u \in Threads \ {t} : hand[u].obj = o

\* _reconcile_locked: what is not in items leaves _caches and is discarded;
\* an object that is in nobody's hands is gone.
Reconciled(items) ==
    [p \in Participants |-> IF p \in items THEN caches[p] ELSE None]

Discarded(items) ==
    [o \in Objects |->
       IF \A p \in Participants \ items : caches[p] # o THEN objs[o]
       ELSE IF Held(o, None)
            THEN [objs[o] EXCEPT !.size = 0, !.invalid = TRUE] ELSE NoObject]

\* _is_current of a thread's object, against the catalog as it is now.
IsCurrent(t) == /\ hand[t].p \in listed
                /\ caches[hand[t].p] = hand[t].obj
                /\ ~objs[hand[t].obj].invalid

\* _is_current cannot read the catalog: the thread's own object is discarded,
\* and whatever object has its key leaves _caches, which is not a discard.
Popped(t) ==
    [o \in Objects |->
       IF o = hand[t].obj THEN [objs[o] EXCEPT !.size = 0, !.invalid = TRUE]
       ELSE IF o = caches[hand[t].p] /\ ~Held(o, None) THEN NoObject ELSE objs[o]]

Unread(t) == /\ Fault /\ objs' = Popped(t)
             /\ caches' = [caches EXCEPT ![hand[t].p] = None]

\* A thread leaves its object, which is gone when nothing else has it.
Left(o, t, those, map) ==
    IF Held(o, t) \/ \E p \in Participants : map[p] = o
    THEN those ELSE [those EXCEPT ![o] = NoObject]

Used == {caches[p] : p \in Participants} \cup {hand[t].obj : t \in Threads}

\* A reader asks for a resource that the catalog lists for him.
Ask(t, p) ==
    /\ At(t, "idle") /\ p \in listed
    /\ hand' = [hand EXCEPT ![t] = [Idle EXCEPT !.pc = "open", !.p = p,
                                                !.items = listed]]
    /\ NoFault /\ UNCHANGED <<doc, begun, listed>> /\ UNCHANGED replica

\* _cache, with the catalog the request began with: the object is there, is
\* created, or replaces one that is not being refreshed.
Open(t) ==
    LET p == hand[t].p
        kept == Reconciled(hand[t].items)
        full == Cardinality({q \in Participants : kept[q] # None}) >= limits.caches
        victims == {q \in Participants :
                      kept[q] # None /\ objs[kept[q]].lock = None}
        fresh(v) ==
          \E o \in Objects \ Used :
             /\ caches' = [q \in Participants |->
                             IF q = p THEN o ELSE IF q \in v THEN None ELSE kept[q]]
             /\ objs' = [Discarded(hand[t].items \ v) EXCEPT ![o] = NoObject]
             /\ hand' = [hand EXCEPT ![t].obj = o, ![t].items = {}, ![t].pc = "refresh"]
        same == caches' = kept /\ objs' = Discarded(hand[t].items)
    IN  /\ At(t, "open") /\ NoFault /\ UNCHANGED <<doc, begun, limits, listed>>
        /\ \/ /\ kept[p] # None /\ same
              /\ hand' = [hand EXCEPT ![t].obj = kept[p], ![t].items = {},
                                      ![t].pc = "refresh"]
           \/ kept[p] = None /\ ~full /\ fresh({})
           \/ kept[p] = None /\ full /\ \E v \in victims : fresh({v})
           \/ kept[p] = None /\ full /\ victims = {} /\ same /\ Return(t)

\* _refresh: not due, or taken by another thread.
Skip(t) ==
    /\ At(t, "refresh") /\ Goto(t, "check")
    /\ NoFault /\ UNCHANGED <<doc, begun, listed>> /\ UNCHANGED replica

\* The lock is free and _is_current, which reconciles, finds the object.
BeginRefresh(t) ==
    LET o == hand[t].obj
    IN  /\ At(t, "refresh") /\ objs[o].lock = None
        /\ \/ /\ caches' = Reconciled(listed) /\ NoFault
              /\ IF IsCurrent(t)
                 THEN /\ objs' = [Discarded(listed) EXCEPT ![o].lock = t]
                      /\ Goto(t, "reserve")
                 ELSE objs' = Discarded(listed) /\ Goto(t, "check")
           \/ Unread(t) /\ Goto(t, "check")
        /\ UNCHANGED <<doc, begun, limits, listed>>

\* The snapshot and the answer it gives; or the phase is out of time.
ReadBudget(t) ==
    /\ At(t, "reserve")
    /\ \/ Draft(t, Reserved(doc, hand[t].p, t), Verdict(doc, hand[t].p), "swap")
       \/ Goto(t, "release")
    /\ NoFault /\ UNCHANGED <<doc, begun, listed>> /\ UNCHANGED replica

\* Nothing to write, or the swap is made, its answer is lost, or it conflicts.
SwapBudget(t) ==
    LET v == hand[t].verdict
    IN  /\ At(t, "swap") /\ UNCHANGED <<begun, listed>> /\ UNCHANGED replica
        /\ \/ /\ v \in {"pending", "overload"} /\ NoFault
              /\ UNCHANGED doc /\ Abandon(t, "release")
           \/ /\ v \in {"queued", "granted"} /\ Unwritten(t) /\ NoFault
              /\ Install(t, IF v = "granted" THEN "guard" ELSE "release")
           \/ /\ v = "granted" /\ Unwritten(t) /\ Fault
              /\ Install(t, "release")
           \/ /\ v \in {"queued", "granted"} /\ ~Unwritten(t) /\ NoFault
              /\ UNCHANGED doc
              /\ Abandon(t, "reserve") \/ Abandon(t, "release")

\* dispatch_guard: _is_current reconciles; an object that is not current, or
\* work that is out of time, leads to finish.
Guarded(t, next, call) ==
    /\ \/ /\ caches' = Reconciled(listed) /\ objs' = Discarded(listed) /\ NoFault
          /\ \/ IsCurrent(t) /\ Goto(t, next) /\ call
             \/ Goto(t, "finish") /\ UNCHANGED begun
       \/ Unread(t) /\ Goto(t, "finish") /\ UNCHANGED begun
    /\ UNCHANGED <<doc, limits, listed>>

\* The guard runs after the reservation and, in fetch_page, again when the
\* client is built; between the two nothing changes.  Then the call is made.
Dispatch(t) ==
    At(t, "guard") /\ Guarded(t, "call", begun' = [begun EXCEPT ![0] = @ + 1])

\* An error, or a page: merged with the rows that are still in the window.
EndCall(t) ==
    /\ At(t, "call")
    /\ \/ \E n \in 0..(objs[hand[t].obj].size + PageSize) :
             hand' = [hand EXCEPT ![t].pc = "merge", ![t].page = n]
       \/ Goto(t, "finish")
    /\ NoFault /\ UNCHANGED <<doc, begun, listed>> /\ UNCHANGED replica

\* _is_current once more, before the rows are published.
Merge(t) == At(t, "merge") /\ Guarded(t, "publish", UNCHANGED begun)

\* _bound_locked: from the sizes n, k times one entry of the largest sample.
\* An entry is the unit; that the bytes are bounded too (buffer_bytes, by the
\* same loop with the largest sample in bytes) is left out.
Evicted(n, k) ==
    LET remove[i \in 0..k] ==
          IF i = 0 THEN n
          ELSE LET m == remove[i - 1]
                   largest == CHOOSE o \in DOMAIN m :
                                 \A x \in DOMAIN m : m[x] <= m[o]
               IN  [m EXCEPT ![largest] = @ - 1]
    IN  remove[k]

\* The samples that are left when the buffer is full.
Bounded(n) ==
    LET total == FoldFunction(+, 0, n)
    IN  IF total <= Buffer THEN n ELSE Evicted(n, total - Buffer)

\* Seeded fault: publication does not look at the cache again.
MayPublishFault(t) == TRUE

\* Under the lock of the caches: nobody discarded the object meanwhile.
MayPublish(t) == /\ ~objs[hand[t].obj].invalid
                 /\ caches[hand[t].p] = hand[t].obj

\* The rows replace those of the object, and all samples are trimmed at once.
Publish(t) ==
    LET o == hand[t].obj
        live == {caches[p] : p \in Participants} \ {None}
        kept == Bounded([x \in live \cup {o} |->
                           IF x = o THEN hand[t].page ELSE objs[x].size])
    IN  /\ At(t, "publish")
        /\ hand' = [hand EXCEPT ![t].pc = "finish", ![t].page = 0]
        /\ NoFault /\ UNCHANGED <<doc, begun, caches, limits, listed>>
        /\ objs' = IF ~MayPublish(t) THEN objs
                   ELSE [x \in Objects |->
                           IF x \in DOMAIN kept
                           THEN [objs[x] EXCEPT !.size = kept[x]] ELSE objs[x]]

\* finish: by compare-and-swap too; it gives up after three conflicts.
ReadPermit(t) ==
    /\ At(t, "finish") /\ Draft(t, Completed(doc, t), "none", "complete")
    /\ NoFault /\ UNCHANGED <<doc, begun, listed>> /\ UNCHANGED replica

Complete(t) ==
    /\ At(t, "complete") /\ NoFault
    /\ \/ Unwritten(t) /\ Install(t, "release")
       \/ ~Unwritten(t) /\ UNCHANGED doc
          /\ (Abandon(t, "finish") \/ Abandon(t, "release"))
    /\ UNCHANGED <<begun, listed>> /\ UNCHANGED replica

\* The lock is released, whatever became of the permit.
EndRefresh(t) ==
    /\ At(t, "release")
    /\ objs' = [objs EXCEPT ![hand[t].obj].lock = None]
    /\ doc' = Orphaned(doc, t)
    /\ hand' = [u \in Threads |->
                  IF u = t THEN [hand[t] EXCEPT !.pc = "check", !.page = 0]
                  ELSE [hand[u] EXCEPT !.draft = Orphaned(@, t)]]
    /\ NoFault /\ UNCHANGED <<begun, caches, limits, listed>>

\* read_logs: _is_current; the entries are copied, unless the object was
\* discarded, and the finished answer is authorized against the catalog again.
Collect(t) ==
    LET o == hand[t].obj
        popped == [caches EXCEPT ![hand[t].p] = None]
    IN  /\ At(t, "check") /\ Return(t) /\ UNCHANGED <<doc, begun, limits, listed>>
        /\ \/ /\ NoFault /\ caches' = Reconciled(listed)
              /\ objs' = Left(o, t, Discarded(listed), Reconciled(listed))
           \/ /\ Fault /\ caches' = popped
              /\ objs' = Left(o, t, Popped(t), popped)

-----------------------------------------------------------------------------
(* Time, the catalog, and the loss of the process.                         *)

Tick ==
    /\ doc' = Aged(doc)
    /\ hand' = [t \in Threads |-> [hand[t] EXCEPT !.draft = Aged(@)]]
    /\ begun' = [a \in DOMAIN begun |-> IF a = 0 THEN 0 ELSE begun[a - 1]]
    /\ <<doc, hand, begun>>' # <<doc, hand, begun>>
    /\ NoFault /\ UNCHANGED listed /\ UNCHANGED replica

ChangeCatalog(p) ==
    /\ Fault
    /\ listed' = IF p \in listed THEN listed \ {p} ELSE listed \cup {p}
    /\ UNCHANGED <<doc, hand, begun>> /\ UNCHANGED replica

\* The replica dies.  Its successor has another identity: the permits and the
\* places in the queue belong to nobody, and no permit is ever completed.
Crash ==
    /\ Fault /\ hand # [t \in Threads |-> Idle]
    /\ hand' = [t \in Threads |-> Idle]
    /\ doc' = [doc EXCEPT
         !.attempts = [i \in DOMAIN @ |-> [@[i] EXCEPT !.owner = None, !.token = None]],
         !.waiters = [i \in DOMAIN @ |-> [@[i] EXCEPT !.who = None]]]
    /\ caches' = [p \in Participants |-> None]
    /\ objs' = [o \in Objects |-> NoObject]
    /\ UNCHANGED <<begun, limits, listed>>

-----------------------------------------------------------------------------
Init ==
    /\ doc = EmptyDoc /\ hand = [t \in Threads |-> Idle]
    /\ caches = [p \in Participants |-> None]
    /\ objs = [o \in Objects |-> NoObject]
    /\ listed = Participants /\ limits \in Limits
    /\ begun = [a \in 0..(Window - 1) |-> 0] /\ faults = 0

Step(t) ==
    \/ Open(t) \/ Skip(t) \/ BeginRefresh(t) \/ ReadBudget(t) \/ SwapBudget(t)
    \/ Dispatch(t) \/ EndCall(t) \/ Merge(t) \/ Publish(t)
    \/ ReadPermit(t) \/ Complete(t) \/ EndRefresh(t) \/ Collect(t)

Next ==
    \/ \E t \in Threads : Step(t) \/ \E p \in Participants : Ask(t, p)
    \/ \E p \in Participants : ChangeCatalog(p)
    \/ Tick \/ Crash

Spec == Init /\ [][Next]_vars

-----------------------------------------------------------------------------
(* Properties.                                                             *)

Attempt == [owner : Participants \cup {None}, token : Threads \cup {None},
            done : BOOLEAN, left : 1..Window]
Waiter == [who : Participants \cup {None}, idle : 0..WaiterTtl]

IsDoc(d) == /\ Len(d.attempts) <= limits.attempts
            /\ \A i \in DOMAIN d.attempts : d.attempts[i] \in Attempt
            /\ Len(d.waiters) <= MaxWaiters
            /\ \A i \in DOMAIN d.waiters : d.waiters[i] \in Waiter
            /\ d.due \in 0..1

\* Every variable has a value the code can give it; attempts and waiters stay
\* within the limits beyond which _record refuses the document for good.
TypeOK ==
    /\ IsDoc(doc)
    /\ \A t \in Threads : /\ hand[t].p \in Participants \cup {None}
                          /\ hand[t].obj \in Objects \cup {None}
                          /\ IsDoc(hand[t].draft)
                          /\ hand[t].page \in 0..(Buffer + PageSize)
    /\ caches \in [Participants -> Objects \cup {None}]
    /\ objs \in [Objects -> [size : 0..Buffer, invalid : BOOLEAN,
                             lock : Threads \cup {None}]]
    /\ listed \subseteq Participants /\ faults \in 0..MaxFaults

\* log_budget: however requests interleave, answers are lost and replicas
\* restart, no 60 seconds see more than MAX_ATTEMPTS calls of Cloud Logging.
QuotaIsKept == FoldFunction(+, 0, begun) <= limits.attempts

\* reserve, finish: while a call is out the document holds its pending permit,
\* and no other thread has that permit.
CallsHoldPermits ==
    \A t \in Threads : At(t, "call") =>
        Cardinality({i \in DOMAIN doc.attempts :
                       /\ doc.attempts[i].token = t /\ ~doc.attempts[i].done
                       /\ doc.attempts[i].owner = hand[t].p}) = 1

\* _record would accept the document: a participant that lives holds at most
\* one pending permit, waits at most once, and does not wait while it holds.
DocumentIsReadable ==
    \A p \in Participants :
        /\ Cardinality({i \in DOMAIN doc.attempts :
                 doc.attempts[i].owner = p /\ ~doc.attempts[i].done}) <= 1
        /\ Cardinality({i \in DOMAIN doc.waiters : doc.waiters[i].who = p}) <= 1
        /\ Pending(doc, p) => Place(doc, p) = 0

\* _discard, _refresh: a call that was in flight when its resource was removed
\* or its sample evicted never fills the discarded sample again.
InvalidatedStaysEmpty ==
    \A o \in Objects : objs[o].invalid => objs[o].size = 0

\* _bound_locked: the samples of all resources that the replica keeps together
\* fit in the buffer, although a refresh merges rows it read before others
\* published theirs.  A sample that left _caches because another call could
\* not read the catalog stays beside them until its own call returns.
BufferIsBounded ==
    FoldFunction(+, 0, [o \in {caches[p] : p \in Participants} \ {None} |->
                          objs[o].size]) <= Buffer

\* _bound_locked: a noisy resource does not crowd out a sparse one: publishing
\* takes no row of another sample that is within its even share of the buffer.
SparseIsSpared ==
    [][\A t \in Threads : Publish(t) =>
         \A p \in Participants :
           LET o == caches[p]
           IN  (o \notin {None, hand[t].obj}
                /\ objs[o].size * Cardinality({q \in Participants : caches[q] # None})
                     <= Buffer)
                 => objs'[o].size = objs[o].size]_vars

\* acquire: however the polls of the replicas interleave with the queue, no
\* permit goes to a participant that stands in the queue behind another.
NoOvertaking ==
    [][\A p \in Participants :
         (~Pending(doc, p) /\ Pending(doc', p)) => Place(doc, p) <= 1]_vars

\* The budget is kept by a document that stays readable: no more calls than the
\* quota, each with a permit of its own (reserve, finish, _record).
BudgetIsKept == TypeOK /\ QuotaIsKept /\ CallsHoldPermits /\ DocumentIsReadable

\* The samples the replica keeps fit in the buffer, and discarded ones stay
\* empty (_bound_locked, _discard).
SamplesAreBounded == BufferIsBounded /\ InvalidatedStaysEmpty

\* Permits go by the queue and rows by the share of the buffer
\* (acquire, _bound_locked).
SharesAreFair == NoOvertaking /\ SparseIsSpared
=============================================================================
