----------------------- MODULE McpAuthorizationProofs -----------------------
(***************************************************************************)
(* The safety of the MCP authorization for every number of requests,       *)
(* grants, credentials, mutations and crashes.                             *)
(***************************************************************************)
EXTENDS McpAuthorization, FiniteSetTheorems, TLAPS

CallPcs == {"identify", "admit", "count", "authority", "act", "audit", "look", "recheck", "tell"}
IssuePcs == {"issue", "saveAccess", "saveRefresh", "activate", "discard", "answer"}
Pcs == {"idle", "takeState", "github", "bindBrowser", "takeConsent", "code",
        "takeCode", "reload", "purge"} \cup IssuePcs \cup CallPcs
Kinds == {"none", "callback", "allow", "deny", "exchange", "refresh",
          "read", "reconcile", "mutate", "database"}

HandType == [pc : Pcs, kind : Kinds, pair : Pairs \cup {None},
             new : Pairs \cup {None}, grant : Grants \cup {None},
             generation : Nat, source : {0, 1}, saw : {0, 1},
             wrote : BOOLEAN, ended : {"not", "early", "late"}]

\* What a request holds at each of its steps.
HandOK(h) ==
    /\ h.pc = "takeCode" => h.kind = "exchange"
    /\ h.pc = "reload" => h.kind = "refresh"
    /\ h.pc \in IssuePcs => h.kind \in {"exchange", "refresh"}
    /\ h.kind = "exchange" => h.pair = None
    /\ h.kind = "refresh" => h.pair \in Pairs
    /\ h.kind = "refresh" /\ h.pc \in IssuePcs => h.grant \in Grants
    /\ h.pc \in IssuePcs \ {"issue"} => h.grant \in Grants
    /\ h.pc \in IssuePcs \ {"issue", "saveAccess"} => h.new \in Pairs
    /\ h.pc \in CallPcs => h.pair \in Pairs

Typed == /\ TypeOK /\ hand \in [Workers -> HandType]
         /\ \A w \in Workers : HandOK(hand[w])

\* The one request that makes the grant of the authorization.
Exchanging(w) == /\ hand[w].kind = "exchange"
                 /\ hand[w].pc \in {"issue", "saveAccess", "saveRefresh", "activate"}

\* The right to go on passes from the state to the consent, to the code and to
\* the grant; at each moment one document or one request has it.
Handover ==
    /\ \A w \in Workers :
          /\ At(w, "github") => docs["state"] = "gone" /\ docs["consent"] = "none"
          /\ At(w, "takeConsent") => cookie /\ docs["consent"] # "none"
          /\ At(w, "code") => /\ docs["consent"] = "gone" /\ docs["code"] = "none"
                              /\ cookie
          /\ Exchanging(w) => /\ docs["code"] = "gone" /\ cookie
                              /\ \A g \in Grants : ~grants[g].exists
    /\ docs["consent"] # "none" => docs["state"] = "gone"
    /\ docs["code"] # "none" => docs["consent"] = "gone" /\ cookie
    /\ \A g \in Grants : grants[g].exists => docs["code"] = "gone" /\ cookie

Alone ==
    /\ \A v, w \in Workers : At(v, "github") /\ At(w, "github") => v = w
    /\ \A v, w \in Workers : At(v, "code") /\ At(w, "code") => v = w
    /\ \A v, w \in Workers : Exchanging(v) /\ Exchanging(w) => v = w
    /\ \A f, g \in Grants : grants[f].exists /\ grants[g].exists => f = g

\* The request that carries a credential nobody was given yet.
Carrying(w) == hand[w].pc \in {"saveRefresh", "activate", "discard"}

\* A credential that a grant names, or that a request is about to bring into
\* one, has not been exchanged, and no two of them bring the same.
Lineage ==
    /\ \A p \in Pairs : pairs[p] # NoPair => pairs[p].grant \in Grants
    /\ \A p \in Pairs : heirs[p] # 0 => pairs[p] # NoPair /\ heirs[p] = 1
    /\ \A g \in Grants :
          IF grants[g].exists
          THEN /\ grants[g].pair \in Pairs /\ heirs[grants[g].pair] = 0
               /\ pairs[grants[g].pair].grant = g
          ELSE grants[g] = NoGrant
    /\ \A w \in Workers :
          Carrying(w) => /\ pairs[hand[w].new].grant = hand[w].grant
                         /\ heirs[hand[w].new] = 0
                         /\ \A g \in Grants : grants[g].pair # hand[w].new
    /\ \A v, w \in Workers :
          Carrying(v) /\ Carrying(w) /\ hand[v].new = hand[w].new => v = w

\* Credentials in circulation belong to a grant that was made.
Granted(p) == pairs[p].grant \in Grants /\ grants[pairs[p].grant].exists

\* A call whose grant has ended is one whose grant stays withdrawn; it never
\* gets past a check, and has written only if it was admitted before.
Current(h) ==
    /\ h.pc = "answer" => Granted(h.new)
    /\ h.ended # "not" => /\ h.pair \in Pairs /\ h.pc \in CallPcs \ {"act", "tell"}
                          /\ Granted(h.pair) /\ ~Validate(pairs[h.pair].grant)
    /\ h.ended = "early" => h.pc \in {"identify", "admit", "count", "authority", "audit"}
    /\ h.wrote => h.pc \in {"recheck", "tell"}
    /\ h.pc \in {"admit", "look"} => h.source <= catalog
    /\ h.pc = "recheck" => h.source <= h.saw /\ h.saw <= catalog
    /\ h.pc = "tell" /\ Reads(h) => h.saw = h.source

Currency == /\ \A p \in known : Granted(p)
            /\ \A w \in Workers : Current(hand[w])

\* The calls that were counted and not audited, and those that have acted.
CountedPcs == {"authority", "act", "audit"}
Counted == {w \in Workers : hand[w].pc \in CountedPcs}
ToAudit == {w \in Workers : hand[w].pc = "audit"}

\* Every mutation is audited, about to be, or was cut off; and the calls that
\* were let in at once are at most one of each worker past the limit.
Ledger ==
    /\ acted <= audits + Cardinality(ToAudit) + crashes
    /\ audits + Cardinality(Counted) <= MutationLimit + Cardinality(Workers) - 1

-----------------------------------------------------------------------------
(* Types.                                                                  *)

LEMMA IdleOK == Idle \in HandType /\ HandOK(Idle)
  <1>1. Idle \in HandType
    BY DEF Idle, HandType, Pcs, Kinds
  <1>2. HandOK(Idle)
    BY DEF Idle, HandOK, CallPcs, IssuePcs
  <1> QED
    BY <1>1, <1>2

LEMMA TypedInit == Init => Typed
  <1> SUFFICES ASSUME Init PROVE Typed
    OBVIOUS
  <1>1. TypeOK
    <2>1. pairs \in [Pairs -> [grant : Grants \cup {None}, generation : Nat]]
      BY DEF Init, NoPair
    <2>2. grants \in [Grants -> [exists : BOOLEAN, pair : Pairs \cup {None},
                                generation : Nat, revoked : BOOLEAN,
                                expired : BOOLEAN]]
      BY DEF Init, NoGrant
    <2>3. docs \in [{"state", "consent", "code"} -> DocState]
      BY DEF Init, DocState
    <2>4. /\ client \in {"none", "registered", "revoked"} /\ cookie \in BOOLEAN
          /\ kept \subseteq {"access", "refresh"} \X Pairs /\ known \subseteq Pairs
      BY DEF Init
    <2>5. /\ catalog \in 0..1 /\ audits \in 0..MaxCalls /\ acted \in Nat
          /\ heirs \in [Pairs -> Nat] /\ crashes \in 0..MaxCrashes
      BY LimitAssumption DEF Init
    <2> QED
      BY <2>1, <2>2, <2>3, <2>4, <2>5 DEF TypeOK
  <1> QED
    BY <1>1, IdleOK DEF Typed, Init

\* A step gives one request the hand h.
LEMMA HandStep ==
  ASSUME Typed, NEW w \in Workers, NEW h \in HandType, HandOK(h),
         hand' = [hand EXCEPT ![w] = h]
  PROVE  hand' \in [Workers -> HandType] /\ \A v \in Workers : HandOK(hand'[v])
  BY DEF Typed

LEMMA GotoStep ==
  ASSUME Typed, NEW w \in Workers, NEW pc \in Pcs, Goto(w, pc),
         HandOK([hand[w] EXCEPT !.pc = pc])
  PROVE  hand' \in [Workers -> HandType] /\ \A v \in Workers : HandOK(hand'[v])
  <1>1. [hand[w] EXCEPT !.pc = pc] \in HandType
    BY DEF Typed, HandType
  <1> QED
    BY <1>1, HandStep DEF Goto

\* The three parts of a request's way keep apart what it must hold.
LEMMA FlowGoto ==
  ASSUME Typed, NEW w \in Workers,
         NEW pc \in Pcs \ (IssuePcs \cup CallPcs \cup {"takeCode", "reload"}), Goto(w, pc)
  PROVE  hand' \in [Workers -> HandType] /\ \A v \in Workers : HandOK(hand'[v])
  <1>1. hand[w] \in HandType /\ HandOK(hand[w])
    BY DEF Typed
  <1>2. HandOK([hand[w] EXCEPT !.pc = pc])
    BY <1>1 DEF HandOK, HandType, IssuePcs, CallPcs
  <1> QED
    BY <1>2, GotoStep

LEMMA IssueGoto ==
  ASSUME Typed, NEW w \in Workers, NEW pc \in IssuePcs, Goto(w, pc),
         hand[w].pc \in IssuePcs \ {"issue", "saveAccess"}
  PROVE  hand' \in [Workers -> HandType] /\ \A v \in Workers : HandOK(hand'[v])
  <1>1. hand[w] \in HandType /\ HandOK(hand[w])
    BY DEF Typed
  <1>2. HandOK([hand[w] EXCEPT !.pc = pc])
    BY <1>1 DEF HandOK, HandType, IssuePcs, CallPcs
  <1>3. pc \in Pcs
    BY DEF Pcs
  <1> QED
    BY <1>2, <1>3, GotoStep

LEMMA CallGoto ==
  ASSUME Typed, NEW w \in Workers, NEW pc \in CallPcs, Goto(w, pc), hand[w].pc \in CallPcs
  PROVE  hand' \in [Workers -> HandType] /\ \A v \in Workers : HandOK(hand'[v])
  <1>1. hand[w] \in HandType /\ HandOK(hand[w])
    BY DEF Typed
  <1>2. HandOK([hand[w] EXCEPT !.pc = pc])
    BY <1>1 DEF HandOK, HandType, IssuePcs, CallPcs
  <1>3. pc \in Pcs
    BY DEF Pcs
  <1> QED
    BY <1>2, <1>3, GotoStep

LEMMA ReturnStep ==
  ASSUME Typed, NEW w \in Workers, Return(w)
  PROVE  hand' \in [Workers -> HandType] /\ \A v \in Workers : HandOK(hand'[v])
  BY IdleOK, HandStep DEF Return

LEMMA BeginStep ==
  ASSUME Typed, NEW w \in Workers, NEW kind \in Kinds, NEW pc \in Pcs,
         NEW p \in Pairs \cup {None}, Begin(w, kind, pc, p),
         pc = "reload" => kind = "refresh", pc = "takeCode" => kind = "exchange",
         pc \notin IssuePcs, kind = "exchange" => p = None,
         kind = "refresh" => p \in Pairs, pc \in CallPcs => p \in Pairs
  PROVE  hand' \in [Workers -> HandType] /\ \A v \in Workers : HandOK(hand'[v])
  <1> DEFINE h == [Idle EXCEPT !.pc = pc, !.kind = kind, !.pair = p]
  <1>1. h \in HandType
    BY DEF HandType, Idle
  <1>2. HandOK(h)
    BY DEF HandOK, Idle
  <1> QED
    BY <1>1, <1>2, HandStep DEF Begin

LEMMA EndedOK ==
  ASSUME NEW h \in HandType, HandOK(h)
  PROVE  /\ [h EXCEPT !.ended = EndedNow(h)] \in HandType
         /\ HandOK([h EXCEPT !.ended = EndedNow(h)])
  <1>1. EndedNow(h) \in {"not", "early", "late"}
    BY DEF EndedNow, HandType
  <1> QED
    BY <1>1 DEF HandType, HandOK

LEMMA TypedNext == ASSUME Typed, [Next]_vars PROVE Typed'
  <1> DEFINE Hands == hand \in [Workers -> HandType] /\ \A v \in Workers : HandOK(hand[v])
  <1> SUFFICES TypeOK' /\ Hands'
    BY DEF Typed
  <1>1. ASSUME NEW w \in Workers, AskCallback(w) PROVE TypeOK' /\ Hands'
    <2>1. TypeOK'
      BY <1>1 DEF Typed, TypeOK, AskCallback, flow, credentials, tools
    <2>2. Hands'
      BY <1>1, BeginStep DEF AskCallback, Pcs, IssuePcs, CallPcs, Kinds
    <2> QED
      BY <2>1, <2>2
  <1>2. ASSUME NEW w \in Workers, TakeState(w) PROVE TypeOK' /\ Hands'
    <2>1. TypeOK'
      BY <1>2 DEF Typed, TypeOK, TakeState, Take, Consume, DocState, flow, credentials, tools
    <2>2. Hands'
      BY <1>2, FlowGoto, ReturnStep DEF TakeState, Take, Pcs, IssuePcs, CallPcs
    <2> QED
      BY <2>1, <2>2
  <1>3. ASSUME NEW w \in Workers, Identify(w) PROVE TypeOK' /\ Hands'
    <2>1. TypeOK'
      BY <1>3 DEF Typed, TypeOK, Identify, DocState, flow, credentials, tools
    <2>2. Hands'
      BY <1>3, FlowGoto, ReturnStep DEF Identify, Pcs, IssuePcs, CallPcs
    <2> QED
      BY <2>1, <2>2
  <1>4. ASSUME NEW w \in Workers, BindConsentBrowser(w) PROVE TypeOK' /\ Hands'
    <2>1. TypeOK'
      BY <1>4 DEF Typed, TypeOK, BindConsentBrowser, flow, credentials, tools
    <2>2. Hands'
      BY <1>4, ReturnStep DEF BindConsentBrowser
    <2> QED
      BY <2>1, <2>2
  <1>5. ASSUME NEW w \in Workers, AskConsent(w) PROVE TypeOK' /\ Hands'
    <2>1. TypeOK'
      BY <1>5 DEF Typed, TypeOK, AskConsent, flow, credentials, tools
    <2>2. Hands'
      BY <1>5, BeginStep DEF AskConsent, Pcs, IssuePcs, CallPcs, Kinds
    <2> QED
      BY <2>1, <2>2
  <1>6. ASSUME NEW w \in Workers, TakeConsent(w) PROVE TypeOK' /\ Hands'
    <2>1. TypeOK'
      BY <1>6 DEF Typed, TypeOK, TakeConsent, Consume, DocState, flow, credentials, tools
    <2>2. Hands'
      BY <1>6, FlowGoto, ReturnStep DEF TakeConsent, Pcs, IssuePcs, CallPcs
    <2> QED
      BY <2>1, <2>2
  <1>7. ASSUME NEW w \in Workers, IssueCode(w) PROVE TypeOK' /\ Hands'
    <2>1. TypeOK'
      BY <1>7 DEF Typed, TypeOK, IssueCode, DocState, flow, credentials, tools
    <2>2. Hands'
      BY <1>7, ReturnStep DEF IssueCode
    <2> QED
      BY <2>1, <2>2
  <1>8. ASSUME NEW w \in Workers, AskExchange(w) PROVE TypeOK' /\ Hands'
    <2>1. TypeOK'
      BY <1>8 DEF Typed, TypeOK, AskExchange, flow, credentials, tools
    <2>2. Hands'
      BY <1>8, BeginStep DEF AskExchange, Pcs, IssuePcs, CallPcs, Kinds
    <2> QED
      BY <2>1, <2>2
  <1>9. ASSUME NEW w \in Workers, TakeCode(w) PROVE TypeOK' /\ Hands'
    <2>1. TypeOK'
      BY <1>9 DEF Typed, TypeOK, TakeCode, Take, Consume, DocState, flow, credentials, tools
    <2>2. Hands'
      <3>1. CASE Return(w)
        BY <3>1, ReturnStep
      <3>2. CASE Goto(w, "issue")
        <4>1. hand[w] \in HandType /\ HandOK(hand[w]) /\ hand[w].pc = "takeCode"
          BY <1>9 DEF TakeCode, At, Typed
        <4>2. HandOK([hand[w] EXCEPT !.pc = "issue"]) /\ "issue" \in Pcs
          BY <4>1 DEF HandOK, HandType, Pcs, IssuePcs, CallPcs
        <4> QED
          BY <3>2, <4>2, GotoStep
      <3> QED
        BY <1>9, <3>1, <3>2 DEF TakeCode, Take
    <2> QED
      BY <2>1, <2>2
  <1>10. ASSUME NEW w \in Workers, Reload(w) PROVE TypeOK' /\ Hands'
    <2>1. TypeOK'
      BY <1>10 DEF Typed, TypeOK, Reload, flow, credentials, tools
    <2>2. CASE Credential("refresh", hand[w].pair)
      <3> DEFINE h == [hand[w] EXCEPT !.pc = "issue", !.grant = pairs[hand[w].pair].grant]
      <3>1. hand[w] \in HandType /\ HandOK(hand[w]) /\ hand[w].pc = "reload"
        BY <1>10 DEF Typed, Reload, At
      <3>2. pairs[hand[w].pair].grant \in Grants
        BY <2>2 DEF Credential
      <3>3. h \in HandType /\ HandOK(h)
        BY <3>1, <3>2 DEF HandType, HandOK, Pcs, IssuePcs, CallPcs
      <3>4. hand' = [hand EXCEPT ![w] = h]
        BY <1>10, <2>2 DEF Reload, Typed
      <3> QED
        BY <2>1, <3>3, <3>4, HandStep
    <2>3. CASE ~Credential("refresh", hand[w].pair)
      BY <1>10, <2>1, <2>3, ReturnStep DEF Reload
    <2> QED
      BY <2>2, <2>3
  <1>11. ASSUME NEW w \in Workers, Issue(w) PROVE TypeOK' /\ Hands'
    <2>1. TypeOK'
      BY <1>11 DEF Typed, TypeOK, Issue, flow, credentials, tools
    <2>2. hand[w] \in HandType /\ HandOK(hand[w]) /\ hand[w].pc = "issue"
      BY <1>11 DEF Typed, Issue, At
    <2>3. ASSUME NEW g \in Grants, hand[w].kind = "exchange",
                 hand' = [hand EXCEPT ![w].pc = "saveAccess", ![w].grant = g]
          PROVE  Hands'
      <3> DEFINE h == [hand[w] EXCEPT !.pc = "saveAccess", !.grant = g]
      <3>1. h \in HandType /\ HandOK(h)
        BY <2>2, <2>3 DEF HandType, HandOK, Pcs, IssuePcs, CallPcs
      <3>2. hand' = [hand EXCEPT ![w] = h]
        BY <2>3 DEF Typed
      <3> QED
        BY <3>1, <3>2, HandStep
    <2>4. ASSUME hand[w].kind = "refresh",
                 hand' = [hand EXCEPT ![w].pc = "saveAccess",
                            ![w].generation = grants[hand[w].grant].generation]
          PROVE  Hands'
      <3> DEFINE h == [hand[w] EXCEPT !.pc = "saveAccess",
                         !.generation = grants[hand[w].grant].generation]
      <3>1. grants[hand[w].grant].generation \in Nat
        BY <2>2, <2>4 DEF HandOK, IssuePcs, Typed, TypeOK
      <3>2. h \in HandType /\ HandOK(h)
        BY <2>2, <2>4, <3>1 DEF HandType, HandOK, Pcs, IssuePcs, CallPcs
      <3>3. hand' = [hand EXCEPT ![w] = h]
        BY <2>4 DEF Typed
      <3> QED
        BY <3>2, <3>3, HandStep
    <2> QED
      BY <1>11, <2>1, <2>3, <2>4, ReturnStep DEF Issue
  <1>12. ASSUME NEW w \in Workers, SaveAccess(w) PROVE TypeOK' /\ Hands'
    <2>1. hand[w] \in HandType /\ HandOK(hand[w]) /\ hand[w].pc = "saveAccess"
      BY <1>12 DEF Typed, SaveAccess, At
    <2>2. PICK p \in Pairs :
             /\ pairs' = [pairs EXCEPT ![p] = [grant |-> hand[w].grant,
                                               generation |-> hand[w].generation + 1]]
             /\ kept' = kept \cup {<<"access", p>>}
             /\ hand' = [hand EXCEPT ![w].pc = "saveRefresh", ![w].new = p]
      BY <1>12 DEF SaveAccess
    <2>3. pairs' \in [Pairs -> [grant : Grants \cup {None}, generation : Nat]]
      BY <2>1, <2>2 DEF Typed, TypeOK, HandType
    <2>4. kept' \subseteq {"access", "refresh"} \X Pairs
      BY <2>2 DEF Typed, TypeOK
    <2>5. TypeOK'
      BY <1>12, <2>3, <2>4 DEF Typed, TypeOK, SaveAccess, flow, tools
    <2> DEFINE h == [hand[w] EXCEPT !.pc = "saveRefresh", !.new = p]
    <2>6. h \in HandType /\ HandOK(h)
      BY <2>1 DEF HandType, HandOK, Pcs, IssuePcs, CallPcs
    <2>7. hand' = [hand EXCEPT ![w] = h]
      BY <2>2 DEF Typed
    <2> QED
      BY <2>5, <2>6, <2>7, HandStep
  <1>13. ASSUME NEW w \in Workers, SaveRefresh(w) PROVE TypeOK' /\ Hands'
    <2>1. hand[w].new \in Pairs
      BY <1>13 DEF Typed, SaveRefresh, At, HandOK, IssuePcs
    <2>2. kept' \subseteq {"access", "refresh"} \X Pairs
      BY <1>13, <2>1 DEF Typed, TypeOK, SaveRefresh
    <2>3. TypeOK'
      BY <1>13, <2>2 DEF Typed, TypeOK, SaveRefresh, flow, tools
    <2>4. Hands'
      BY <1>13, IssueGoto DEF SaveRefresh, At, IssuePcs
    <2> QED
      BY <2>3, <2>4
  <1>14. ASSUME NEW w \in Workers, Activate(w) PROVE TypeOK' /\ Hands'
    <2>1. hand[w] \in HandType /\ HandOK(hand[w]) /\ hand[w].pc = "activate"
      BY <1>14 DEF Typed, Activate, At
    <2>2. hand[w].new \in Pairs /\ hand[w].grant \in Grants
      BY <2>1 DEF HandOK, IssuePcs
    <2>3. Activated(hand[w]) \in [exists : BOOLEAN, pair : Pairs \cup {None},
                                  generation : Nat, revoked : BOOLEAN, expired : BOOLEAN]
      BY <2>1, <2>2 DEF HandType, Activated
    <2>4. UNCHANGED <<pairs, kept, known, crashes, flow, tools>>
      BY <1>14 DEF Activate
    <2>5. CASE Goto(w, "answer") /\ grants' = [grants EXCEPT ![hand[w].grant] = Activated(hand[w])]
               /\ heirs' = IF hand[w].pair = None THEN heirs
                           ELSE [heirs EXCEPT ![hand[w].pair] = @ + 1]
      <3>1. heirs' \in [Pairs -> Nat]
        BY <2>1, <2>5 DEF Typed, TypeOK, HandType
      <3>2. TypeOK'
        BY <2>3, <2>4, <2>5, <3>1 DEF Typed, TypeOK, flow, tools
      <3>3. HandOK([hand[w] EXCEPT !.pc = "answer"]) /\ "answer" \in Pcs
        BY <2>1 DEF HandType, HandOK, Pcs, IssuePcs, CallPcs
      <3> QED
        BY <2>5, <3>2, <3>3, GotoStep
    <2>6. CASE Goto(w, "discard") /\ UNCHANGED <<grants, heirs>>
      <3>1. TypeOK'
        BY <2>4, <2>6 DEF Typed, TypeOK, flow, tools
      <3>2. HandOK([hand[w] EXCEPT !.pc = "discard"]) /\ "discard" \in Pcs
        BY <2>1 DEF HandType, HandOK, Pcs, IssuePcs, CallPcs
      <3> QED
        BY <2>6, <3>1, <3>2, GotoStep
    <2> QED
      BY <1>14, <2>5, <2>6 DEF Activate
  <1>15. ASSUME NEW w \in Workers, Discard(w) PROVE TypeOK' /\ Hands'
    <2>1. TypeOK'
      BY <1>15 DEF Typed, TypeOK, Discard, flow, credentials, tools
    <2>2. Hands'
      BY <1>15, ReturnStep DEF Discard
    <2> QED
      BY <2>1, <2>2
  <1>16. ASSUME NEW w \in Workers, Answer(w) PROVE TypeOK' /\ Hands'
    <2>1. TypeOK'
      BY <1>16 DEF Typed, TypeOK, Answer, HandType, HandOK, At, IssuePcs, flow, credentials,
         tools
    <2>2. Hands'
      BY <1>16, ReturnStep DEF Answer
    <2> QED
      BY <2>1, <2>2
  <1>17. ASSUME NEW w \in Workers, NEW p \in Pairs, AskRefresh(w, p) PROVE TypeOK' /\ Hands'
    <2>1. TypeOK'
      BY <1>17 DEF Typed, TypeOK, AskRefresh, flow, credentials, tools
    <2>2. Hands'
      BY <1>17, BeginStep DEF AskRefresh, Pcs, IssuePcs, CallPcs, Kinds
    <2> QED
      BY <2>1, <2>2
  <1>18. ASSUME NEW w \in Workers, Authenticate(w) PROVE TypeOK' /\ Hands'
    <2>1. TypeOK'
      BY <1>18 DEF Typed, TypeOK, Authenticate, flow, credentials, tools
    <2>2. Hands'
      <3>1. CASE Return(w)
        BY <3>1, ReturnStep
      <3>2. CASE ~Return(w)
        <4> DEFINE pc == IF hand[w].kind = "mutate" THEN "count" ELSE "admit"
                   h == [hand[w] EXCEPT !.pc = pc, !.source = catalog]
        <4>1. hand' = [hand EXCEPT ![w] = h]
          BY <1>18, <3>2 DEF Authenticate
        <4>2. hand[w] \in HandType /\ HandOK(hand[w]) /\ hand[w].pc = "identify" /\ catalog \in {0, 1}
          BY <1>18 DEF Authenticate, At, Typed, TypeOK
        <4>3. h \in HandType
          BY <4>2 DEF HandType, Pcs, CallPcs
        <4>4. HandOK(h)
          BY <4>2 DEF HandOK, HandType, CallPcs, IssuePcs
        <4> QED
          BY <4>1, <4>3, <4>4, HandStep
      <3> QED
        BY <3>1, <3>2
    <2> QED
      BY <2>1, <2>2
  <1>19. ASSUME NEW w \in Workers, CountMutations(w) PROVE TypeOK' /\ Hands'
    <2>1. TypeOK'
      BY <1>19 DEF Typed, TypeOK, CountMutations, flow, credentials, tools
    <2>2. Hands'
      BY <1>19, CallGoto, ReturnStep DEF CountMutations, At, CallPcs
    <2> QED
      BY <2>1, <2>2
  <1>20. ASSUME NEW w \in Workers, Authority(w) PROVE TypeOK' /\ Hands'
    <2>1. TypeOK'
      BY <1>20 DEF Typed, TypeOK, Authority, flow, credentials, tools
    <2>2. Hands'
      BY <1>20, CallGoto, ReturnStep DEF Authority, At, CallPcs
    <2> QED
      BY <2>1, <2>2
  <1>21. ASSUME NEW w \in Workers, Act(w) PROVE TypeOK' /\ Hands'
    <2>1. TypeOK'
      BY <1>21 DEF Typed, TypeOK, Act, flow, credentials, tools
    <2>2. Hands'
      BY <1>21, CallGoto, ReturnStep DEF Act, At, CallPcs
    <2> QED
      BY <2>1, <2>2
  <1>22. ASSUME NEW w \in Workers, Audit(w) PROVE TypeOK' /\ Hands'
    <2>1. TypeOK'
      BY <1>22, LimitAssumption DEF Typed, TypeOK, Audit, flow, credentials, tools
    <2>2. Hands'
      BY <1>22, ReturnStep DEF Audit
    <2> QED
      BY <2>1, <2>2
  <1>23. ASSUME NEW w \in Workers, Admit(w) PROVE TypeOK' /\ Hands'
    <2>1. TypeOK'
      BY <1>23 DEF Typed, TypeOK, Admit, flow, credentials, tools
    <2>2. Hands'
      BY <1>23, CallGoto, ReturnStep DEF Admit, At, CallPcs
    <2> QED
      BY <2>1, <2>2
  <1>24. ASSUME NEW w \in Workers, Look(w) PROVE TypeOK' /\ Hands'
    <2>1. TypeOK'
      BY <1>24 DEF Typed, TypeOK, Look, flow, credentials, tools
    <2>2. Hands'
      <3>1. CASE Return(w)
        BY <3>1, ReturnStep
      <3>2. CASE ~Return(w)
        <4>1. PICK changed \in BOOLEAN :
                 hand' = [hand EXCEPT ![w] = [hand[w] EXCEPT !.pc = "recheck", !.saw = catalog,
                                                             !.wrote = changed]]
          BY <1>24, <3>2 DEF Look
        <4>2. hand[w] \in HandType /\ HandOK(hand[w]) /\ hand[w].pc = "look" /\ catalog \in {0, 1}
          BY <1>24 DEF Look, At, Typed, TypeOK
        <4> DEFINE h == [hand[w] EXCEPT !.pc = "recheck", !.saw = catalog, !.wrote = changed]
        <4>3. h \in HandType
          BY <4>2 DEF HandType, Pcs, CallPcs
        <4>4. HandOK(h)
          BY <4>2 DEF HandOK, HandType, CallPcs, IssuePcs
        <4> QED
          BY <4>1, <4>3, <4>4, HandStep
      <3> QED
        BY <3>1, <3>2
    <2> QED
      BY <2>1, <2>2
  <1>25. ASSUME NEW w \in Workers, Recheck(w) PROVE TypeOK' /\ Hands'
    <2>1. TypeOK'
      BY <1>25 DEF Typed, TypeOK, Recheck, flow, credentials, tools
    <2>2. Hands'
      BY <1>25, CallGoto, ReturnStep DEF Recheck, At, CallPcs
    <2> QED
      BY <2>1, <2>2
  <1>26. ASSUME NEW w \in Workers, Tell(w) PROVE TypeOK' /\ Hands'
    <2>1. TypeOK'
      BY <1>26 DEF Typed, TypeOK, Tell, flow, credentials, tools
    <2>2. Hands'
      BY <1>26, ReturnStep DEF Tell
    <2> QED
      BY <2>1, <2>2
  <1>27. ASSUME NEW w \in Workers, NEW p \in Pairs, CallTool(w, p) PROVE TypeOK' /\ Hands'
    <2>1. TypeOK'
      BY <1>27 DEF Typed, TypeOK, CallTool, flow, credentials, tools
    <2>2. Hands'
      BY <1>27, BeginStep DEF CallTool, Calls, Pcs, IssuePcs, CallPcs, Kinds
    <2> QED
      BY <2>1, <2>2
  <1>28. ASSUME NEW w \in Workers, NEW p \in Pairs, Revoke(w, p) PROVE TypeOK' /\ Hands'
    <2>1. grants' \in [Grants -> [exists : BOOLEAN, pair : Pairs \cup {None},
                           generation : Nat, revoked : BOOLEAN, expired : BOOLEAN]]
      <3> DEFINE g == pairs[p].grant
                 b == grants[g].revoked \/ grants[g].exists
      <3>1. grants' = [grants EXCEPT ![g].revoked = b]
        BY <1>28 DEF Revoke, Withdrawn
      <3>2. b \in BOOLEAN
        OBVIOUS
      <3> HIDE DEF b
      <3> QED
        BY <3>1, <3>2 DEF Typed, TypeOK
    <2>2. TypeOK'
      BY <1>28, <2>1 DEF Typed, TypeOK, Revoke, flow, tools
    <2> DEFINE purge == [Idle EXCEPT !.pc = "purge"]
    <2>3. purge \in HandType /\ HandOK(purge)
      BY DEF Idle, HandType, HandOK, Pcs, Kinds, IssuePcs, CallPcs
    <2>4. \A v \in Workers : \/ hand'[v] = purge \/ hand'[v] = hand[v]
                             \/ hand'[v] = [hand[v] EXCEPT !.ended = EndedNow(hand[v])]
      BY <1>28 DEF Revoke
    <2>5. hand' = [v \in Workers |-> hand'[v]]
      BY <1>28 DEF Revoke
    <2> QED
      BY <2>2, <2>3, <2>4, <2>5, EndedOK DEF Typed
  <1>29. ASSUME NEW w \in Workers, Purge(w) PROVE TypeOK' /\ Hands'
    <2>1. TypeOK'
      BY <1>29 DEF Typed, TypeOK, Purge, flow, credentials, tools
    <2>2. Hands'
      BY <1>29, ReturnStep DEF Purge
    <2> QED
      BY <2>1, <2>2
  <1>30. ASSUME NEW w \in Workers, Crash(w) PROVE TypeOK' /\ Hands'
    <2>1. TypeOK'
      BY <1>30, LimitAssumption DEF Typed, TypeOK, Crash, flow, credentials, tools
    <2>2. Hands'
      BY <1>30, ReturnStep DEF Crash
    <2> QED
      BY <2>1, <2>2
  <1>31. ASSUME NEW g \in Grants, ExpireGrant(g) PROVE TypeOK' /\ Hands'
    <2>1. TypeOK'
      BY <1>31 DEF Typed, TypeOK, ExpireGrant, flow, tools
    <2>2. \A v \in Workers : hand'[v] = hand[v] \/ hand'[v] = [hand[v] EXCEPT !.ended = EndedNow(hand[v])]
      BY <1>31 DEF ExpireGrant
    <2>3. hand' = [v \in Workers |-> hand'[v]]
      BY <1>31 DEF ExpireGrant
    <2> QED
      BY <2>1, <2>2, <2>3, EndedOK DEF Typed
  <1>32. ASSUME NEW d \in {"state", "consent", "code"}, ExpireDoc(d) PROVE TypeOK' /\ Hands'
    <2>1. TypeOK'
      BY <1>32 DEF Typed, TypeOK, ExpireDoc, DocState, flow, credentials, tools
    <2>2. Hands'
      BY <1>32 DEF Typed, ExpireDoc
    <2> QED
      BY <2>1, <2>2
  <1>33. ASSUME RegisterClient PROVE TypeOK' /\ Hands'
    <2>1. TypeOK'
      BY <1>33 DEF Typed, TypeOK, RegisterClient, DocState, flow, credentials, tools
    <2>2. Hands'
      BY <1>33 DEF Typed, RegisterClient
    <2> QED
      BY <2>1, <2>2
  <1>34. ASSUME Authorize PROVE TypeOK' /\ Hands'
    <2>1. TypeOK'
      BY <1>34 DEF Typed, TypeOK, Authorize, DocState, flow, credentials, tools
    <2>2. Hands'
      BY <1>34 DEF Typed, Authorize
    <2> QED
      BY <2>1, <2>2
  <1>35. ASSUME WithdrawClient PROVE TypeOK' /\ Hands'
    <2>1. TypeOK'
      BY <1>35 DEF Typed, TypeOK, WithdrawClient, DocState, flow, credentials, tools
    <2>2. Hands'
      BY <1>35 DEF Typed, WithdrawClient
    <2> QED
      BY <2>1, <2>2
  <1>36. ASSUME ReplaceCatalog PROVE TypeOK' /\ Hands'
    <2>1. TypeOK'
      BY <1>36 DEF Typed, TypeOK, ReplaceCatalog, DocState, flow, credentials, tools
    <2>2. Hands'
      BY <1>36 DEF Typed, ReplaceCatalog
    <2> QED
      BY <2>1, <2>2
  <1>37. CASE UNCHANGED vars
    BY <1>37 DEF vars, Typed, TypeOK
  <1> QED
    BY <1>1, <1>23, <1>2, <1>3, <1>4, <1>5, <1>6, <1>7, <1>8, <1>9, <1>10, <1>11, <1>12, <1>13,
       <1>14, <1>15, <1>16, <1>17, <1>18, <1>19, <1>20, <1>21, <1>22, <1>24, <1>25, <1>26,
       <1>27, <1>28, <1>29, <1>30, <1>31, <1>32, <1>33, <1>34, <1>35, <1>36, <1>37
       DEF Next, Consenting, Issuing, Calling

-----------------------------------------------------------------------------
(* One grant of a consent.                                                 *)

Flow == Handover /\ Alone

\* No document goes back to what it was, and no request gets hold of the
\* right to go on: whoever has it had it before.
FlowQuiet ==
  /\ \A d \in {"state", "consent", "code"} : docs[d] = "gone" => docs'[d] = "gone"
  /\ \A d \in {"consent", "code"} : docs'[d] = "none" <=> docs[d] = "none"
  /\ cookie => cookie'
  /\ \A g \in Grants : grants'[g].exists <=> grants[g].exists
  /\ \A v \in Workers :
        /\ hand'[v].pc \in {"github", "takeConsent", "code"} => hand[v].pc = hand'[v].pc
        /\ Exchanging(v)' => Exchanging(v)

LEMMA FlowQuietKeeps == ASSUME Typed, Flow, FlowQuiet PROVE Flow'
  <1>1. Handover'
    BY DEF Flow, Handover, FlowQuiet, At
  <1>2. Alone'
    BY DEF Flow, Alone, FlowQuiet, At
  <1> QED
    BY <1>1, <1>2 DEF Flow

LEMMA FlowNext == ASSUME Typed, Typed', Flow, [Next]_vars PROVE Flow'
  \* Steps that leave alone what the invariant is about.
  <1> USE DEF FlowQuiet, Typed, TypeOK, HandType, At, Goto, Return, Begin, Idle, Exchanging,
      flow, credentials, tools
  <1>1. ASSUME NEW w \in Workers, AskCallback(w) PROVE FlowQuiet
    BY <1>1 DEF AskCallback
  <1>2. ASSUME NEW w \in Workers, BindConsentBrowser(w) PROVE FlowQuiet
    BY <1>2 DEF BindConsentBrowser
  <1>3. ASSUME NEW w \in Workers, AskExchange(w) PROVE FlowQuiet
    BY <1>3 DEF AskExchange
  <1>4. ASSUME NEW w \in Workers, Reload(w) PROVE FlowQuiet
    <2>1. UNCHANGED <<docs, cookie, grants>> /\ HandOK(hand[w]) /\ hand[w].pc = "reload"
      BY <1>4 DEF Reload
    <2>2. \A v \in Workers \ {w} : hand'[v] = hand[v]
      BY <1>4 DEF Reload
    <2>3. hand'[w].pc \in {"issue", "idle"} /\ ~Exchanging(w)'
      BY <1>4, <2>1 DEF Reload, HandOK
    <2> QED
      BY <2>1, <2>2, <2>3
  <1>5. ASSUME NEW w \in Workers, Issue(w) PROVE FlowQuiet
    BY <1>5 DEF Issue
  <1>6. ASSUME NEW w \in Workers, SaveAccess(w) PROVE FlowQuiet
    BY <1>6 DEF SaveAccess
  <1>7. ASSUME NEW w \in Workers, SaveRefresh(w) PROVE FlowQuiet
    BY <1>7 DEF SaveRefresh
  <1>8. ASSUME NEW w \in Workers, Discard(w) PROVE FlowQuiet
    BY <1>8 DEF Discard
  <1>9. ASSUME NEW w \in Workers, Answer(w) PROVE FlowQuiet
    BY <1>9 DEF Answer
  <1>10. ASSUME NEW w \in Workers, NEW p \in Pairs, AskRefresh(w, p) PROVE FlowQuiet
    BY <1>10 DEF AskRefresh
  <1>11. ASSUME NEW w \in Workers, Authenticate(w) PROVE FlowQuiet
    BY <1>11 DEF Authenticate
  <1>12. ASSUME NEW w \in Workers, Admit(w) PROVE FlowQuiet
    BY <1>12 DEF Admit
  <1>13. ASSUME NEW w \in Workers, CountMutations(w) PROVE FlowQuiet
    BY <1>13 DEF CountMutations
  <1>14. ASSUME NEW w \in Workers, Authority(w) PROVE FlowQuiet
    BY <1>14 DEF Authority
  <1>15. ASSUME NEW w \in Workers, Act(w) PROVE FlowQuiet
    BY <1>15 DEF Act
  <1>16. ASSUME NEW w \in Workers, Audit(w) PROVE FlowQuiet
    BY <1>16 DEF Audit
  <1>17. ASSUME NEW w \in Workers, Look(w) PROVE FlowQuiet
    BY <1>17 DEF Look
  <1>18. ASSUME NEW w \in Workers, Recheck(w) PROVE FlowQuiet
    BY <1>18 DEF Recheck
  <1>19. ASSUME NEW w \in Workers, Tell(w) PROVE FlowQuiet
    BY <1>19 DEF Tell
  <1>20. ASSUME NEW w \in Workers, NEW p \in Pairs, CallTool(w, p) PROVE FlowQuiet
    BY <1>20 DEF CallTool
  <1>21. ASSUME NEW w \in Workers, NEW p \in Pairs, Revoke(w, p) PROVE FlowQuiet
    BY <1>21 DEF Revoke, Withdrawn
  <1>22. ASSUME NEW w \in Workers, Purge(w) PROVE FlowQuiet
    BY <1>22 DEF Purge
  <1>23. ASSUME NEW w \in Workers, Crash(w) PROVE FlowQuiet
    BY <1>23 DEF Crash
  <1>24. ASSUME NEW g \in Grants, ExpireGrant(g) PROVE FlowQuiet
    BY <1>24 DEF ExpireGrant
  <1>25. ASSUME NEW d \in {"state", "consent", "code"}, ExpireDoc(d) PROVE FlowQuiet
    BY <1>25 DEF ExpireDoc
  <1>26. ASSUME RegisterClient PROVE FlowQuiet
    BY <1>26 DEF RegisterClient
  <1>27. ASSUME Authorize PROVE FlowQuiet
    BY <1>27 DEF Authorize
  <1>28. ASSUME WithdrawClient PROVE FlowQuiet
    BY <1>28 DEF WithdrawClient
  <1>29. ASSUME ReplaceCatalog PROVE FlowQuiet
    BY <1>29 DEF ReplaceCatalog
  <1> HIDE DEF FlowQuiet, Typed, TypeOK, HandType, At, Goto, Return, Begin, Idle, Exchanging,
      flow, credentials, tools
  \* The steps it is about.
  <1>30. ASSUME NEW w \in Workers, TakeState(w) PROVE Flow'
    <2>1. CASE docs["state"] = "live"
      <3>1. /\ UNCHANGED <<cookie, grants>>
            /\ docs' = [docs EXCEPT !["state"] = "gone"]
            /\ Goto(w, "github") /\ hand[w].pc = "takeState"
        BY <1>30, <2>1 DEF TakeState, Take, Consume, credentials, At
      <3>2. /\ hand'[w].pc = "github" /\ hand'[w].kind = hand[w].kind
            /\ \A v \in Workers \ {w} : hand'[v] = hand[v]
        BY <1>30, <3>1 DEF Goto, Typed, HandType
      <3>3. docs["consent"] = "none" /\ \A v \in Workers : ~At(v, "github")
        BY <2>1, <3>1 DEF Flow, Handover, At, Exchanging
      <3>4. Handover'
        BY <2>1, <3>1, <3>2, <3>3 DEF Flow, Handover, At, Exchanging, Typed, TypeOK
      <3>5. Alone'
        BY <3>1, <3>2, <3>3 DEF Flow, Alone, At, Exchanging
      <3> QED
        BY <3>4, <3>5 DEF Flow
    <2>2. CASE ~(docs["state"] = "live")
      <3>1. FlowQuiet
        <4>1. /\ docs' \in {docs, [docs EXCEPT !["state"] = "gone"]} /\ Return(w)
              /\ UNCHANGED <<cookie, grants>>
          BY <1>30, <2>2 DEF TakeState, Take, Consume, credentials
        <4>2. hand'[w].pc = "idle" /\ \A v \in Workers \ {w} : hand'[v] = hand[v]
          BY <4>1 DEF Return, Idle, Typed
        <4> QED
          BY <4>1, <4>2 DEF FlowQuiet, Exchanging, Typed, TypeOK
      <3> QED
        BY <3>1, FlowQuietKeeps
    <2> QED
      BY <2>1, <2>2
  <1>31. ASSUME NEW w \in Workers, Identify(w) PROVE Flow'
    <2>1. CASE hand' # [hand EXCEPT ![w] = Idle]
      <3>1. /\ UNCHANGED <<cookie, grants>>
            /\ docs' = [docs EXCEPT !["consent"] = "live"]
            /\ Goto(w, "bindBrowser") /\ hand[w].pc = "github"
        BY <1>31, <2>1 DEF Identify, credentials, At, Return
      <3>2. /\ hand'[w].pc = "bindBrowser" /\ hand'[w].kind = hand[w].kind
            /\ \A v \in Workers \ {w} : hand'[v] = hand[v]
        BY <1>31, <3>1 DEF Goto, Typed, HandType
      <3>3. /\ docs["state"] = "gone" /\ docs["code"] = "none"
            /\ \A v \in Workers \ {w} : ~At(v, "github")
        BY <3>1 DEF Flow, Handover, Alone, At
      <3>4. Handover'
        BY <2>1, <3>1, <3>2, <3>3 DEF Flow, Handover, At, Exchanging, Typed, TypeOK
      <3>5. Alone'
        BY <3>1, <3>2, <3>3 DEF Flow, Alone, At, Exchanging
      <3> QED
        BY <3>4, <3>5 DEF Flow
    <2>2. CASE ~(hand' # [hand EXCEPT ![w] = Idle])
      <3>1. FlowQuiet
        BY <1>31, <2>2 DEF FlowQuiet, Identify, Typed, TypeOK, HandType, At, Goto, Return,
           Begin, Idle, Exchanging, flow, credentials, tools
      <3> QED
        BY <3>1, FlowQuietKeeps
    <2> QED
      BY <2>1, <2>2
  <1>32. ASSUME NEW w \in Workers, AskConsent(w) PROVE Flow'
    <2>1. /\ UNCHANGED <<docs, cookie, grants>> /\ cookie /\ docs["consent"] = "live"
          /\ hand'[w].pc = "takeConsent" /\ hand'[w].kind # "exchange"
          /\ \A v \in Workers \ {w} : hand'[v] = hand[v]
      BY <1>32 DEF AskConsent, ConsentRecord, Begin, Idle, Typed, HandType, flow, credentials
    <2>2. Handover'
      BY <2>1 DEF Flow, Handover, At, Exchanging
    <2>3. Alone'
      BY <2>1 DEF Flow, Alone, At, Exchanging
    <2> QED
      BY <2>2, <2>3 DEF Flow
  <1>33. ASSUME NEW w \in Workers, TakeConsent(w) PROVE Flow'
    <2>1. CASE docs["consent"] \in {"live", "expired"} /\ hand[w].kind = "allow"
      <3>1. /\ UNCHANGED <<cookie, grants>>
            /\ docs' = [docs EXCEPT !["consent"] = "gone"]
            /\ Goto(w, "code") /\ hand[w].pc = "takeConsent"
        BY <1>33, <2>1 DEF TakeConsent, Consume, credentials, At
      <3>2. /\ hand'[w].pc = "code" /\ hand'[w].kind = hand[w].kind
            /\ \A v \in Workers \ {w} : hand'[v] = hand[v]
        BY <1>33, <3>1 DEF Goto, Typed, HandType
      <3>3. /\ docs["code"] = "none" /\ cookie
            /\ \A v \in Workers : ~At(v, "code")
        BY <2>1, <3>1 DEF Flow, Handover, At, Exchanging
      <3>4. Handover'
        BY <2>1, <3>1, <3>2, <3>3 DEF Flow, Handover, At, Exchanging, Typed, TypeOK
      <3>5. Alone'
        BY <3>1, <3>2, <3>3 DEF Flow, Alone, At, Exchanging
      <3> QED
        BY <3>4, <3>5 DEF Flow
    <2>2. CASE ~(docs["consent"] \in {"live", "expired"} /\ hand[w].kind = "allow")
      <3>1. FlowQuiet
        BY <1>33, <2>2 DEF FlowQuiet, TakeConsent, Consume, Typed, TypeOK, HandType, At, Goto,
           Return, Begin, Idle, Exchanging, flow, credentials, tools
      <3> QED
        BY <3>1, FlowQuietKeeps
    <2> QED
      BY <2>1, <2>2
  <1>34. ASSUME NEW w \in Workers, IssueCode(w) PROVE Flow'
    <2>1. Handover'
      BY <1>34 DEF Flow, Handover, Alone, IssueCode, Typed, TypeOK, HandType, At, Goto,
         Return, Begin, Idle, Exchanging, flow, credentials, tools
    <2>2. Alone'
      BY <1>34 DEF Flow, Handover, Alone, IssueCode, Typed, TypeOK, HandType, At, Goto,
         Return, Begin, Idle, Exchanging, flow, credentials, tools
    <2> QED
      BY <2>1, <2>2 DEF Flow
  <1>35. ASSUME NEW w \in Workers, TakeCode(w) PROVE Flow'
    <2>1. CASE docs["code"] = "live"
      <3>1. /\ UNCHANGED <<cookie, grants>>
            /\ docs' = [docs EXCEPT !["code"] = "gone"]
            /\ Goto(w, "issue") /\ hand[w].pc = "takeCode"
        BY <1>35, <2>1 DEF TakeCode, Take, Consume, credentials, At
      <3>2. /\ hand'[w].pc = "issue" /\ hand'[w].kind = "exchange"
            /\ \A v \in Workers \ {w} : hand'[v] = hand[v]
        BY <1>35, <3>1 DEF Goto, Typed, HandType, HandOK
      <3>3. /\ \A v \in Workers : ~Exchanging(v)
            /\ cookie /\ \A g \in Grants : ~grants[g].exists
        BY <2>1, <3>1 DEF Flow, Handover, At, Exchanging
      <3>4. Handover'
        BY <2>1, <3>1, <3>2, <3>3 DEF Flow, Handover, At, Exchanging, Typed, TypeOK
      <3>5. Alone'
        BY <3>1, <3>2, <3>3 DEF Flow, Alone, At, Exchanging
      <3> QED
        BY <3>4, <3>5 DEF Flow
    <2>2. CASE ~(docs["code"] = "live")
      <3>1. FlowQuiet
        BY <1>35, <2>2 DEF FlowQuiet, TakeCode, Take, Consume, Typed, TypeOK, HandType, At,
           Goto, Return, Begin, Idle, Exchanging, flow, credentials, tools
      <3> QED
        BY <3>1, FlowQuietKeeps
    <2> QED
      BY <2>1, <2>2
  <1>36. ASSUME NEW w \in Workers, Activate(w) PROVE Flow'
    <2>1. hand[w] \in HandType /\ HandOK(hand[w]) /\ hand[w].pc = "activate"
      BY <1>36 DEF Typed, Activate, At
    <2>2. hand[w].grant \in Grants /\ hand[w].kind \in {"exchange", "refresh"}
      BY <2>1 DEF HandOK, IssuePcs
    <2>3. UNCHANGED <<docs, cookie>>
      BY <1>36 DEF Activate, flow
    <2>4. CASE hand[w].kind = "exchange" /\ ~grants[hand[w].grant].exists
      <3>1. /\ grants' = [grants EXCEPT ![hand[w].grant] = Activated(hand[w])]
            /\ Goto(w, "answer") /\ Exchanging(w)
        BY <1>36, <2>1, <2>4 DEF Activate, Exchanging
      <3>2. /\ ~Exchanging(w)' /\ hand'[w].pc = "answer"
            /\ \A v \in Workers \ {w} : hand'[v] = hand[v]
        BY <3>1 DEF Exchanging, Goto, Typed, HandType
      <3>3. \A v \in Workers : ~Exchanging(v)'
        BY <3>1, <3>2 DEF Flow, Alone, Exchanging
      <3>4. \A g \in Grants : grants'[g].exists <=> g = hand[w].grant
        BY <2>2, <3>1 DEF Flow, Handover, Activated, Typed, TypeOK
      <3>5. docs["code"] = "gone" /\ cookie
        BY <3>1 DEF Flow, Handover
      <3>6. Handover'
        BY <2>3, <3>2, <3>3, <3>5 DEF Flow, Handover, At
      <3>7. Alone'
        BY <3>2, <3>3, <3>4 DEF Flow, Alone, At
      <3> QED
        BY <3>6, <3>7 DEF Flow
    <2>5. CASE hand[w].kind = "refresh" /\ StillGranted(hand[w])
      <3>1. FlowQuiet
        <4>1. /\ grants' = [grants EXCEPT ![hand[w].grant] = Activated(hand[w])]
              /\ Goto(w, "answer") /\ grants[hand[w].grant].exists
          BY <1>36, <2>2, <2>5 DEF Activate, StillGranted
        <4>2. \A g \in Grants : grants'[g].exists <=> grants[g].exists
          BY <2>2, <4>1 DEF Activated, Typed, TypeOK
        <4>3. hand'[w].pc = "answer" /\ \A v \in Workers \ {w} : hand'[v] = hand[v]
          BY <4>1 DEF Goto, Typed, HandType
        <4> QED
          BY <2>3, <4>2, <4>3 DEF FlowQuiet, Exchanging
      <3> QED
        BY <3>1, FlowQuietKeeps
    <2>6. CASE Goto(w, "discard") /\ UNCHANGED <<grants, heirs>>
      <3>1. FlowQuiet
        BY <2>3, <2>6 DEF FlowQuiet, Typed, TypeOK, HandType, Goto, Exchanging
      <3> QED
        BY <3>1, FlowQuietKeeps
    <2> QED
      BY <1>36, <2>2, <2>4, <2>5, <2>6 DEF Activate
  <1>37. CASE UNCHANGED vars
    BY <1>37 DEF vars, Flow, Handover, Alone, At, Exchanging
  <1> QED
    BY <1>1, <1>12, <1>2, <1>3, <1>4, <1>5, <1>6, <1>7, <1>8, <1>9, <1>10, <1>11, <1>13,
       <1>14, <1>15, <1>16, <1>17, <1>18, <1>19, <1>20, <1>21, <1>22, <1>23, <1>24,
       <1>25, <1>26, <1>27, <1>28, <1>29, <1>30, <1>31, <1>32, <1>33, <1>34, <1>35,
       <1>36, <1>37, FlowQuietKeeps
       DEF Next, Consenting, Issuing, Calling

-----------------------------------------------------------------------------
(* One successor of a credential.                                          *)

\* Credentials and grants stay what they are, but for a revocation or the end
\* of a grant's life, and nobody gets hold of a credential to bring in.
LineageQuiet ==
  /\ pairs' = pairs /\ heirs' = heirs
  /\ \A g \in Grants : IF grants[g].exists
                        THEN grants'[g].exists /\ grants'[g].pair = grants[g].pair
                        ELSE grants'[g] = grants[g]
  /\ \A v \in Workers : Carrying(v)' =>
        /\ Carrying(v) /\ hand'[v].new = hand[v].new /\ hand'[v].grant = hand[v].grant

LEMMA LineageQuietKeeps == ASSUME Typed, Lineage, LineageQuiet PROVE Lineage'
  BY DEF Lineage, LineageQuiet, Typed, TypeOK

LEMMA LineageNext == ASSUME Typed, Typed', Lineage, [Next]_vars PROVE Lineage'
  \* Steps that leave alone what the invariant is about.
  <1> USE DEF LineageQuiet, Typed, TypeOK, HandType, At, Goto, Return, Begin, Idle, Carrying,
      flow, credentials, tools
  <1>1. ASSUME NEW w \in Workers, AskCallback(w) PROVE LineageQuiet
    BY <1>1 DEF AskCallback
  <1>2. ASSUME NEW w \in Workers, TakeState(w) PROVE LineageQuiet
    BY <1>2 DEF TakeState, Take, Consume
  <1>3. ASSUME NEW w \in Workers, Identify(w) PROVE LineageQuiet
    BY <1>3 DEF Identify
  <1>4. ASSUME NEW w \in Workers, BindConsentBrowser(w) PROVE LineageQuiet
    BY <1>4 DEF BindConsentBrowser
  <1>5. ASSUME NEW w \in Workers, AskConsent(w) PROVE LineageQuiet
    BY <1>5 DEF AskConsent
  <1>6. ASSUME NEW w \in Workers, TakeConsent(w) PROVE LineageQuiet
    BY <1>6 DEF TakeConsent
  <1>7. ASSUME NEW w \in Workers, IssueCode(w) PROVE LineageQuiet
    BY <1>7 DEF IssueCode
  <1>8. ASSUME NEW w \in Workers, AskExchange(w) PROVE LineageQuiet
    BY <1>8 DEF AskExchange
  <1>9. ASSUME NEW w \in Workers, TakeCode(w) PROVE LineageQuiet
    BY <1>9 DEF TakeCode, Take
  <1>10. ASSUME NEW w \in Workers, Reload(w) PROVE LineageQuiet
    BY SMTT(30), <1>10 DEF Reload
  <1>11. ASSUME NEW w \in Workers, Issue(w) PROVE LineageQuiet
    BY <1>11 DEF Issue
  <1>12. ASSUME NEW w \in Workers, SaveRefresh(w) PROVE LineageQuiet
    BY <1>12 DEF SaveRefresh
  <1>13. ASSUME NEW w \in Workers, Discard(w) PROVE LineageQuiet
    BY <1>13 DEF Discard
  <1>14. ASSUME NEW w \in Workers, Answer(w) PROVE LineageQuiet
    BY <1>14 DEF Answer
  <1>15. ASSUME NEW w \in Workers, NEW p \in Pairs, AskRefresh(w, p) PROVE LineageQuiet
    BY <1>15 DEF AskRefresh
  <1>16. ASSUME NEW w \in Workers, Authenticate(w) PROVE LineageQuiet
    BY <1>16 DEF Authenticate
  <1>17. ASSUME NEW w \in Workers, CountMutations(w) PROVE LineageQuiet
    BY <1>17 DEF CountMutations
  <1>18. ASSUME NEW w \in Workers, Authority(w) PROVE LineageQuiet
    BY <1>18 DEF Authority
  <1>19. ASSUME NEW w \in Workers, Act(w) PROVE LineageQuiet
    BY <1>19 DEF Act
  <1>20. ASSUME NEW w \in Workers, Audit(w) PROVE LineageQuiet
    BY <1>20 DEF Audit
  <1>21. ASSUME NEW w \in Workers, Admit(w) PROVE LineageQuiet
    BY <1>21 DEF Admit
  <1>22. ASSUME NEW w \in Workers, Look(w) PROVE LineageQuiet
    BY <1>22 DEF Look
  <1>23. ASSUME NEW w \in Workers, Recheck(w) PROVE LineageQuiet
    BY <1>23 DEF Recheck
  <1>24. ASSUME NEW w \in Workers, Tell(w) PROVE LineageQuiet
    BY <1>24 DEF Tell
  <1>25. ASSUME NEW w \in Workers, NEW p \in Pairs, CallTool(w, p) PROVE LineageQuiet
    BY <1>25 DEF CallTool
  <1>26. ASSUME NEW w \in Workers, NEW p \in Pairs, Revoke(w, p) PROVE LineageQuiet
    <2>1. UNCHANGED <<pairs, heirs>>
      BY <1>26 DEF Revoke
    <2>2. \A g \in Grants : IF grants[g].exists
                           THEN grants'[g].exists /\ grants'[g].pair = grants[g].pair
                           ELSE grants'[g] = grants[g]
      BY <1>26 DEF Revoke, Withdrawn
    <2>3. \A v \in Workers : \/ hand'[v] = [Idle EXCEPT !.pc = "purge"]
                            \/ hand'[v] = [hand[v] EXCEPT !.ended = EndedNow(hand[v])]
                            \/ hand'[v] = hand[v]
      BY <1>26 DEF Revoke
    <2>4. \A v \in Workers : Carrying(v)' =>
            /\ Carrying(v) /\ hand'[v].new = hand[v].new /\ hand'[v].grant = hand[v].grant
      <3>1. ASSUME NEW v \in Workers, hand'[v] = [hand[v] EXCEPT !.ended = EndedNow(hand[v])]
            PROVE  /\ hand'[v].pc = hand[v].pc /\ hand'[v].new = hand[v].new
                   /\ hand'[v].grant = hand[v].grant
        BY <3>1
      <3>2. [Idle EXCEPT !.pc = "purge"].pc = "purge"
        OBVIOUS
      <3> QED
        BY <2>3, <3>1, <3>2
    <2> QED
      BY <2>1, <2>2, <2>4
  <1>27. ASSUME NEW w \in Workers, Purge(w) PROVE LineageQuiet
    BY <1>27 DEF Purge
  <1>28. ASSUME NEW w \in Workers, Crash(w) PROVE LineageQuiet
    BY <1>28 DEF Crash
  <1>29. ASSUME NEW g \in Grants, ExpireGrant(g) PROVE LineageQuiet
    BY <1>29 DEF ExpireGrant
  <1>30. ASSUME NEW d \in {"state", "consent", "code"}, ExpireDoc(d) PROVE LineageQuiet
    BY <1>30 DEF ExpireDoc
  <1>31. ASSUME RegisterClient PROVE LineageQuiet
    BY <1>31 DEF RegisterClient
  <1>32. ASSUME Authorize PROVE LineageQuiet
    BY <1>32 DEF Authorize
  <1>33. ASSUME WithdrawClient PROVE LineageQuiet
    BY <1>33 DEF WithdrawClient
  <1>34. ASSUME ReplaceCatalog PROVE LineageQuiet
    BY <1>34 DEF ReplaceCatalog
  <1> HIDE DEF LineageQuiet, Typed, TypeOK, HandType, At, Goto, Return, Begin, Idle, Carrying,
      flow, credentials, tools
  \* The steps it is about.
  <1>35. ASSUME NEW w \in Workers, SaveAccess(w) PROVE Lineage'
    <2>1. hand[w] \in HandType /\ HandOK(hand[w]) /\ hand[w].pc = "saveAccess"
      BY <1>35 DEF Typed, SaveAccess, At
    <2>2. PICK p \in Pairs :
             /\ pairs[p] = NoPair
             /\ pairs' = [pairs EXCEPT ![p] = [grant |-> hand[w].grant,
                                               generation |-> hand[w].generation + 1]]
             /\ hand' = [hand EXCEPT ![w].pc = "saveRefresh", ![w].new = p]
      BY <1>35 DEF SaveAccess
    <2>3. UNCHANGED <<grants, heirs>> /\ hand[w].grant \in Grants
      BY <1>35, <2>1 DEF SaveAccess, HandOK, IssuePcs
    <2>4. /\ Carrying(w)' /\ hand'[w].new = p /\ hand'[w].grant = hand[w].grant
          /\ \A v \in Workers \ {w} : hand'[v] = hand[v]
      BY <2>2 DEF Carrying, Typed, HandType
    <2>5. /\ pairs'[p].grant = hand[w].grant /\ pairs'[p] # NoPair
          /\ \A q \in Pairs \ {p} : pairs'[q] = pairs[q]
      BY <2>2, <2>3, NoneAssumption DEF Typed, TypeOK, NoPair
    <2>6. heirs[p] = 0
      BY <2>2 DEF Lineage
    <2>7. \A g \in Grants : grants[g].pair # p
      BY <2>2, NoneAssumption DEF Lineage, NoPair, NoGrant
    <2>8. \A v \in Workers : Carrying(v) => hand[v].new \in Pairs \ {p}
      <3> SUFFICES ASSUME NEW v \in Workers, Carrying(v) PROVE hand[v].new \in Pairs \ {p}
        OBVIOUS
      <3>1. hand[v].new \in Pairs /\ hand[v].grant \in Grants
        BY DEF Carrying, Typed, HandOK, IssuePcs
      <3>2. pairs[hand[v].new].grant = hand[v].grant
        BY DEF Lineage
      <3> QED
        BY <2>2, <3>1, <3>2, NoneAssumption DEF NoPair
    <2>9. \A g \in Grants :
            IF grants'[g].exists
            THEN /\ grants'[g].pair \in Pairs /\ heirs'[grants'[g].pair] = 0
                 /\ pairs'[grants'[g].pair].grant = g
            ELSE grants'[g] = NoGrant
      BY <2>3, <2>5, <2>7 DEF Lineage
    <2>10. \A v \in Workers :
             Carrying(v)' => /\ pairs'[hand'[v].new].grant = hand'[v].grant
                             /\ heirs'[hand'[v].new] = 0
                             /\ \A g \in Grants : grants'[g].pair # hand'[v].new
      BY <2>3, <2>4, <2>5, <2>6, <2>7, <2>8 DEF Lineage, Carrying
    <2>11. \A v, u \in Workers :
             Carrying(v)' /\ Carrying(u)' /\ hand'[v].new = hand'[u].new => v = u
      BY <2>4, <2>8 DEF Lineage, Carrying
    <2> QED
      BY <2>3, <2>5, <2>9, <2>10, <2>11 DEF Lineage
  <1>36. ASSUME NEW w \in Workers, Activate(w) PROVE Lineage'
    <2>1. hand[w] \in HandType /\ HandOK(hand[w]) /\ hand[w].pc = "activate"
      BY <1>36 DEF Typed, Activate, At
    <2>2. /\ hand[w].grant \in Grants /\ hand[w].new \in Pairs
          /\ hand[w].kind \in {"exchange", "refresh"}
          /\ hand[w].kind = "exchange" => hand[w].pair = None
          /\ hand[w].kind = "refresh" => hand[w].pair \in Pairs
      BY <2>1 DEF HandOK, IssuePcs
    <2>3. UNCHANGED pairs
      BY <1>36 DEF Activate
    <2>4. CASE Goto(w, "discard") /\ UNCHANGED <<grants, heirs>>
      <3>1. LineageQuiet
        BY <2>1, <2>3, <2>4 DEF LineageQuiet, Goto, Carrying, Typed, HandType
      <3> QED
        BY <3>1, LineageQuietKeeps
    <2>5. CASE /\ Goto(w, "answer")
               /\ grants' = [grants EXCEPT ![hand[w].grant] = Activated(hand[w])]
               /\ hand[w].kind = "refresh" => grants[hand[w].grant].exists /\ grants[hand[w].grant].pair = hand[w].pair
               /\ heirs' = IF hand[w].pair = None THEN heirs
                           ELSE [heirs EXCEPT ![hand[w].pair] = @ + 1]
      <3>1. /\ hand'[w].pc = "answer" /\ \A v \in Workers \ {w} : hand'[v] = hand[v]
        BY <2>5 DEF Goto, Typed, HandType
      <3>2. /\ Carrying(w) /\ ~Carrying(w)'
            /\ \A v \in Workers \ {w} : Carrying(v)' = Carrying(v)
        BY <2>1, <3>1 DEF Carrying
      <3>3. /\ grants'[hand[w].grant].exists /\ grants'[hand[w].grant].pair = hand[w].new
            /\ \A g \in Grants \ {hand[w].grant} : grants'[g] = grants[g]
        BY <2>2, <2>5 DEF Activated, Typed, TypeOK
      <3>4. /\ pairs[hand[w].new].grant = hand[w].grant /\ heirs[hand[w].new] = 0
            /\ \A g \in Grants : grants[g].pair # hand[w].new
        BY <3>2 DEF Lineage
      \* The exchanged credential is the one the grant held, and no other
      \* grant or request has it.
      <3>5. \A q \in Pairs : heirs'[q] # heirs[q] =>
               /\ q = hand[w].pair /\ heirs[q] = 0 /\ heirs'[q] = 1
               /\ pairs[q].grant = hand[w].grant /\ grants[hand[w].grant].pair = q
        <4>1. CASE hand[w].kind = "exchange"
          BY <2>2, <2>5, <4>1
        <4>2. CASE hand[w].kind = "refresh"
          <5>1. hand[w].pair # None
            BY <2>2, <4>2, NoneAssumption
          <5>2. /\ heirs[hand[w].pair] = 0 /\ pairs[hand[w].pair].grant = hand[w].grant
            BY <2>2, <2>5, <4>2 DEF Lineage
          <5> QED
            BY <2>2, <2>5, <4>2, <5>1, <5>2 DEF Typed, TypeOK
        <4> QED
          BY <2>2, <4>1, <4>2
      <3>6. \A q \in Pairs : pairs[q] = NoPair => pairs[q].grant = None
        BY DEF NoPair
      <3>7. \A q \in Pairs : heirs'[q] # 0 => pairs'[q] # NoPair /\ heirs'[q] = 1
        BY <2>2, <2>3, <3>5, <3>6, NoneAssumption DEF Lineage
      <3>8. \A g \in Grants :
              IF grants'[g].exists
              THEN /\ grants'[g].pair \in Pairs /\ heirs'[grants'[g].pair] = 0
                   /\ pairs'[grants'[g].pair].grant = g
              ELSE grants'[g] = NoGrant
        BY <2>2, <2>3, <3>3, <3>4, <3>5 DEF Lineage
      <3>9. \A v \in Workers \ {w} : Carrying(v) => hand[v].new \in Pairs /\ hand[v].new # hand[w].new
        BY <3>2 DEF Lineage, Carrying, Typed, HandOK, IssuePcs
      <3>10. \A v \in Workers :
               Carrying(v)' => /\ pairs'[hand'[v].new].grant = hand'[v].grant
                               /\ heirs'[hand'[v].new] = 0
                               /\ \A g \in Grants : grants'[g].pair # hand'[v].new
        BY <2>2, <2>3, <3>1, <3>2, <3>3, <3>5, <3>9 DEF Lineage
      <3>11. \A v, u \in Workers :
               Carrying(v)' /\ Carrying(u)' /\ hand'[v].new = hand'[u].new => v = u
        BY <3>1, <3>2 DEF Lineage
      <3> QED
        BY <2>3, <3>7, <3>8, <3>10, <3>11 DEF Lineage
    <2> QED
      BY <1>36, <2>2, <2>4, <2>5 DEF Activate, StillGranted
  <1>37. CASE UNCHANGED vars
    BY <1>37 DEF vars, Lineage, Carrying
  <1> QED
    BY <1>1, <1>21, <1>2, <1>3, <1>4, <1>5, <1>6, <1>7, <1>8, <1>9, <1>10, <1>11, <1>12,
       <1>13, <1>14, <1>15, <1>16, <1>17, <1>18, <1>19, <1>20, <1>22, <1>23, <1>24,
       <1>25, <1>26, <1>27, <1>28, <1>29, <1>30, <1>31, <1>32, <1>33, <1>34, <1>35,
       <1>36, <1>37, LineageQuietKeeps
       DEF Next, Consenting, Issuing, Calling

-----------------------------------------------------------------------------
(* Calls and what they answer.                                             *)

\* What no step of anybody changes: whose a credential is, that a grant was
\* made, and that it was withdrawn; and the catalog only moves on.
WorldMovesOn ==
  /\ \A p \in Pairs : pairs[p] # NoPair => pairs'[p] = pairs[p]
  /\ \A g \in Grants :
        grants[g].exists => /\ grants'[g].exists /\ (Validate(g)' => Validate(g))
                            /\ grants[g].revoked => grants'[g].revoked
  /\ catalog <= catalog'

LEMMA WorldStep == ASSUME Typed, Lineage, [Next]_vars PROVE WorldMovesOn
  <1> USE DEF Typed, TypeOK, flow, credentials, tools
  <1>1. ASSUME NEW w \in Workers, SaveAccess(w) PROVE WorldMovesOn
    BY <1>1 DEF SaveAccess, WorldMovesOn, Validate
  <1>2. ASSUME NEW w \in Workers, Activate(w) PROVE WorldMovesOn
    <2>1. /\ UNCHANGED <<pairs, catalog>>
          /\ \/ UNCHANGED grants
             \/ /\ grants' = [grants EXCEPT ![hand[w].grant] = Activated(hand[w])]
                /\ grants[hand[w].grant].exists =>
                      ~grants[hand[w].grant].revoked /\ Validate(hand[w].grant)
      BY <1>2 DEF Activate, StillGranted, Validate
    <2>2. CASE UNCHANGED grants
      BY <2>1, <2>2 DEF WorldMovesOn, Validate
    <2>3. CASE ~UNCHANGED grants
      <3>1. \A g \in Grants : g # hand[w].grant => grants'[g] = grants[g]
        BY <2>1, <2>3
      <3>2. hand[w].grant \in Grants => grants'[hand[w].grant].exists
        BY <2>1, <2>3 DEF Activated
      <3> QED
        BY <2>1, <2>3, <3>1, <3>2 DEF WorldMovesOn, Validate
    <2> QED
      BY <2>2, <2>3
  <1>3. ASSUME NEW w \in Workers, NEW p \in Pairs, Revoke(w, p) PROVE WorldMovesOn
    BY <1>3 DEF Revoke, Withdrawn, WorldMovesOn, Validate
  <1>4. ASSUME NEW g \in Grants, ExpireGrant(g) PROVE WorldMovesOn
    BY <1>4 DEF ExpireGrant, WorldMovesOn, Validate
  <1>5. ASSUME ReplaceCatalog PROVE WorldMovesOn
    BY <1>5 DEF ReplaceCatalog, WorldMovesOn, Validate
  <1>6. ASSUME UNCHANGED <<pairs, grants, catalog>> PROVE WorldMovesOn
    BY <1>6 DEF WorldMovesOn, Validate
  <1>7. ASSUME NEW w \in Workers, Consenting(w) PROVE UNCHANGED <<pairs, grants, catalog>>
    BY <1>7 DEF Consenting, AskCallback, TakeState, Take, Identify, BindConsentBrowser,
                AskConsent, TakeConsent, IssueCode
  <1>8. ASSUME NEW w \in Workers, Calling(w) PROVE UNCHANGED <<pairs, grants, catalog>>
    BY <1>8 DEF Calling, Authenticate, Admit, CountMutations, Authority, Act, Audit, Look,
                Recheck, Tell, CallTool
  <1>9. ASSUME NEW w \in Workers, Issuing(w)
        PROVE  SaveAccess(w) \/ Activate(w) \/ UNCHANGED <<pairs, grants, catalog>>
    BY <1>9 DEF Issuing, AskExchange, TakeCode, Take, Reload, Issue, SaveRefresh, Discard,
                Answer, AskRefresh
  <1>10. ASSUME NEW w \in Workers, Purge(w) \/ Crash(w)
         PROVE  UNCHANGED <<pairs, grants, catalog>>
    BY <1>10 DEF Purge, Crash
  <1>11. ASSUME NEW d \in {"state", "consent", "code"}, ExpireDoc(d)
         PROVE  UNCHANGED <<pairs, grants, catalog>>
    BY <1>11 DEF ExpireDoc
  <1>12. ASSUME RegisterClient \/ Authorize \/ WithdrawClient \/ UNCHANGED vars
         PROVE  UNCHANGED <<pairs, grants, catalog>>
    BY <1>12 DEF RegisterClient, Authorize, WithdrawClient, vars
  <1> QED
    BY <1>1, <1>2, <1>3, <1>4, <1>5, <1>6, <1>7, <1>8, <1>9, <1>10, <1>11, <1>12 DEF Next

\* A request that a step leaves alone stays current.
LEMMA CurrentStays ==
  ASSUME Typed, Typed', Lineage, Currency, WorldMovesOn,
         NEW v \in Workers, hand'[v] = hand[v]
  PROVE  Current(hand[v])'
  <1>1. hand[v] \in HandType /\ HandOK(hand[v]) /\ Current(hand[v])
    BY DEF Typed, Currency
  <1>2. \A p \in Pairs : Granted(p) =>
           Granted(p)' /\ pairs'[p] = pairs[p] /\ (Validate(pairs[p].grant)' => Validate(pairs[p].grant))
    BY NoneAssumption DEF Granted, WorldMovesOn, NoPair, Validate
  <1>3. (hand[v].pc = "answer" => Granted(hand[v].new))'
    BY <1>1, <1>2 DEF Current, HandOK, IssuePcs, Granted
  <1>4. (hand[v].ended # "not" =>
           /\ hand[v].pair \in Pairs /\ hand[v].pc \in CallPcs \ {"act", "tell"}
           /\ Granted(hand[v].pair) /\ ~Validate(pairs[hand[v].pair].grant))'
    BY <1>1, <1>2 DEF Current, Granted, Validate
  <1>5. /\ catalog <= catalog' /\ catalog \in {0, 1} /\ catalog' \in {0, 1}
        /\ hand[v].source \in {0, 1} /\ hand[v].saw \in {0, 1}
    BY <1>1 DEF WorldMovesOn, Typed, TypeOK, HandType
  <1>6. (/\ hand[v].pc \in {"admit", "look"} => hand[v].source <= catalog
         /\ hand[v].pc = "recheck" => hand[v].source <= hand[v].saw /\ hand[v].saw <= catalog
         /\ hand[v].pc = "tell" /\ Reads(hand[v]) => hand[v].saw = hand[v].source
         /\ hand[v].ended = "early" =>
              hand[v].pc \in {"identify", "admit", "count", "authority", "audit"}
         /\ hand[v].wrote => hand[v].pc \in {"recheck", "tell"})'
    BY <1>1, <1>5 DEF Current, Reads
  <1> QED
    BY <1>3, <1>4, <1>6 DEF Current

LEMMA KnownStays ==
  ASSUME Lineage, Currency, WorldMovesOn, known \subseteq Pairs
  PROVE  \A p \in known : Granted(p)'
  BY NoneAssumption DEF Currency, Lineage, WorldMovesOn, Granted, NoPair

LEMMA CurrencyNext ==
  ASSUME Typed, Typed', Lineage, Currency, [Next]_vars PROVE Currency'
  <1>1. WorldMovesOn /\ known \subseteq Pairs
    BY WorldStep DEF Typed, TypeOK
  \* It is enough to look at the credentials that are answered now, and at
  \* the requests that move.
  <1> SUFFICES /\ \A p \in known' \ known : Granted(p)'
               /\ \A v \in Workers : hand'[v] # hand[v] => Current(hand[v])'
    BY <1>1, CurrentStays, KnownStays DEF Currency
  <1> DEFINE Goal == /\ \A p \in known' \ known : Granted(p)'
                     /\ \A v \in Workers : hand'[v] # hand[v] => Current(hand[v])'
  <1> DEFINE Plain(w) == /\ known' = known /\ \A v \in Workers \ {w} : hand'[v] = hand[v]
                         /\ hand'[w].pc \notin {"answer", "admit", "look", "recheck", "tell"}
                         /\ hand'[w].ended = "not" /\ ~hand'[w].wrote
  <1>a. ASSUME NEW w \in Workers, Plain(w) PROVE Goal
    BY <1>a DEF Current
  <1>b. ASSUME NEW w \in Workers, Return(w)
        PROVE  /\ hand'[w].pc = "idle" /\ hand'[w].ended = "not" /\ ~hand'[w].wrote
               /\ \A v \in Workers \ {w} : hand'[v] = hand[v]
    BY <1>b DEF Return, Idle, Typed, HandType
  <1>c. ASSUME NEW w \in Workers, hand[w].pc \notin CallPcs \ {"act", "tell"}
        PROVE  hand[w].ended = "not"
    BY <1>c DEF Currency, Current, Typed, HandType
  <1>e. ASSUME NEW w \in Workers, hand[w].pc \notin {"recheck", "tell"} PROVE ~hand[w].wrote
    BY <1>e DEF Currency, Current, Typed, HandType
  <1>d. ASSUME NEW w \in Workers, Principal(hand[w]) PROVE hand[w].ended = "not"
    BY <1>d DEF Currency, Current, Typed, HandType, Principal, Credential
  <1> USE DEF At, Goto, Begin, Idle, flow, credentials, tools
  \* Steps after which the request has nothing to answer.
  <1> USE DEF CallPcs, Typed, HandType
  <1>2. ASSUME NEW w \in Workers, AskCallback(w) PROVE Plain(w)
    BY <1>2, <1>b, <1>c, <1>e DEF AskCallback
  <1>3. ASSUME NEW w \in Workers, TakeState(w) PROVE Plain(w)
    BY <1>3, <1>b, <1>c, <1>e DEF TakeState, Take
  <1>4. ASSUME NEW w \in Workers, Identify(w) PROVE Plain(w)
    BY <1>4, <1>b, <1>c, <1>e DEF Identify
  <1>5. ASSUME NEW w \in Workers, BindConsentBrowser(w) PROVE Plain(w)
    BY <1>5, <1>b, <1>c, <1>e DEF BindConsentBrowser
  <1>6. ASSUME NEW w \in Workers, AskConsent(w) PROVE Plain(w)
    BY <1>6, <1>b, <1>c, <1>e DEF AskConsent
  <1>7. ASSUME NEW w \in Workers, TakeConsent(w) PROVE Plain(w)
    BY <1>7, <1>b, <1>c, <1>e DEF TakeConsent
  <1>8. ASSUME NEW w \in Workers, IssueCode(w) PROVE Plain(w)
    BY <1>8, <1>b, <1>c, <1>e DEF IssueCode
  <1>9. ASSUME NEW w \in Workers, AskExchange(w) PROVE Plain(w)
    BY <1>9, <1>b, <1>c, <1>e DEF AskExchange
  <1>10. ASSUME NEW w \in Workers, TakeCode(w) PROVE Plain(w)
    BY <1>10, <1>b, <1>c, <1>e DEF TakeCode, Take
  <1>11. ASSUME NEW w \in Workers, SaveAccess(w) PROVE Plain(w)
    <2>1. PICK p \in Pairs : hand' = [hand EXCEPT ![w].pc = "saveRefresh", ![w].new = p]
      BY <1>11 DEF SaveAccess
    <2>2. known' = known /\ hand[w].ended = "not" /\ ~hand[w].wrote
      BY <1>11, <1>c, <1>e DEF SaveAccess
    <2> QED
      BY <2>1, <2>2
  <1>12. ASSUME NEW w \in Workers, SaveRefresh(w) PROVE Plain(w)
    BY <1>12, <1>b, <1>c, <1>e DEF SaveRefresh
  <1>13. ASSUME NEW w \in Workers, Discard(w) PROVE Plain(w)
    BY <1>13, <1>b, <1>c, <1>e DEF Discard
  <1>14. ASSUME NEW w \in Workers, NEW p \in Pairs, AskRefresh(w, p) PROVE Plain(w)
    BY <1>14, <1>b, <1>c, <1>e DEF AskRefresh
  <1>15. ASSUME NEW w \in Workers, Act(w) PROVE Plain(w)
    BY <1>15, <1>b, <1>c, <1>e DEF Act
  <1>16. ASSUME NEW w \in Workers, Audit(w) PROVE Plain(w)
    BY <1>16, <1>b, <1>c, <1>e DEF Audit
  <1>17. ASSUME NEW w \in Workers, Tell(w) PROVE Plain(w)
    BY <1>17, <1>b, <1>c, <1>e DEF Tell
  <1>18. ASSUME NEW w \in Workers, NEW p \in Pairs, CallTool(w, p) PROVE Plain(w)
    BY <1>18, <1>b, <1>c, <1>e DEF CallTool
  <1>19. ASSUME NEW w \in Workers, Purge(w) PROVE Plain(w)
    BY <1>19, <1>b, <1>c, <1>e DEF Purge
  <1>20. ASSUME NEW w \in Workers, Crash(w) PROVE Plain(w)
    BY <1>20, <1>b, <1>c, <1>e DEF Crash
  <1> HIDE DEF CallPcs, Typed, HandType
  \* The steps of calls, of the grant that is made and of its end.
  <1>21. ASSUME NEW w \in Workers, Reload(w) PROVE Goal
    <2>1. hand[w].ended = "not" /\ known' = known
      BY <1>21, <1>c DEF Reload, CallPcs
    <2>2. CASE Credential("refresh", hand[w].pair)
      <3>1. /\ \A v \in Workers \ {w} : hand'[v] = hand[v]
            /\ hand'[w].pc \in {"issue", "saveAccess"} /\ hand'[w].ended = "not" /\ ~hand'[w].wrote
        BY <1>21, <2>1, <2>2, <1>e DEF Reload, Typed, HandType
      <3> QED
        BY <2>1, <3>1, <1>a
    <2>3. CASE Return(w)
      BY <2>1, <2>3, <1>a, <1>b
    <2> QED
      BY <1>21, <2>2, <2>3 DEF Reload
  <1>22. ASSUME NEW w \in Workers, Issue(w) PROVE Goal
    <2>1. hand[w].ended = "not" /\ known' = known
      BY <1>22, <1>c DEF Issue, CallPcs
    <2>2. CASE ~(hand[w].kind = "refresh" /\ ~Validate(hand[w].grant))
      <3>1. /\ \A v \in Workers \ {w} : hand'[v] = hand[v]
            /\ hand'[w].pc \in {"issue", "saveAccess"} /\ hand'[w].ended = "not" /\ ~hand'[w].wrote
        BY <1>22, <2>1, <2>2, <1>e DEF Issue, Typed, HandType
      <3> QED
        BY <2>1, <3>1, <1>a
    <2>3. CASE Return(w)
      BY <2>1, <2>3, <1>a, <1>b
    <2> QED
      BY <1>22, <2>2, <2>3 DEF Issue
  <1>23. ASSUME NEW w \in Workers, Activate(w) PROVE Goal
    <2>1. /\ hand[w].pc = "activate" /\ HandOK(hand[w]) /\ known' = known /\ pairs' = pairs
      BY <1>23 DEF Activate, Typed
    <2>2. hand[w].grant \in Grants /\ hand[w].new \in Pairs /\ pairs[hand[w].new].grant = hand[w].grant
      BY <2>1 DEF HandOK, IssuePcs, Lineage, Carrying
    <2>3. CASE Goto(w, "discard")
      <3>1. /\ \A v \in Workers \ {w} : hand'[v] = hand[v]
            /\ hand'[w].pc = "discard" /\ hand'[w].ended = "not" /\ ~hand'[w].wrote
        BY <2>1, <2>3, <1>c, <1>e DEF CallPcs, Typed, HandType
      <3> QED
        BY <2>1, <3>1, <1>a
    <2>4. CASE Goto(w, "answer") /\ grants' = [grants EXCEPT ![hand[w].grant] = Activated(hand[w])]
      <3>1. /\ \A v \in Workers \ {w} : hand'[v] = hand[v]
            /\ hand'[w].pc = "answer" /\ hand'[w].ended = "not" /\ hand'[w].new = hand[w].new
            /\ ~hand'[w].wrote
        BY <2>1, <2>4, <1>c, <1>e DEF CallPcs, Typed, HandType
      <3>2. Granted(hand[w].new)'
        BY <2>1, <2>2, <2>4, <3>1 DEF Granted, Activated, Typed, TypeOK
      <3>3. Current(hand[w])'
        BY <3>1, <3>2 DEF Current
      <3> QED
        BY <2>1, <3>1, <3>3
    <2> QED
      BY <1>23, <2>3, <2>4 DEF Activate
  <1>24. ASSUME NEW w \in Workers, Answer(w) PROVE Goal
    <2>1. /\ hand[w].pc = "answer" /\ known' = known \cup {hand[w].new} /\ Return(w)
          /\ hand[w].new \in Pairs /\ Granted(hand[w].new)
      BY <1>24 DEF Answer, Currency, Current, Typed, HandOK, IssuePcs
    <2>2. UNCHANGED <<pairs, grants>>
      BY <1>24 DEF Answer
    <2>3. \A p \in known' \ known : Granted(p)'
      BY <2>1, <2>2 DEF Granted
    <2>4. \A v \in Workers : hand'[v] # hand[v] => Current(hand[v])'
      BY <2>1, <1>b DEF Current
    <2> QED
      BY <2>3, <2>4
  <1>25. ASSUME NEW w \in Workers, Authenticate(w) PROVE Goal
    <2>1. known' = known /\ catalog' = catalog /\ catalog \in {0, 1} /\ hand[w] \in HandType
          /\ HandOK(hand[w]) /\ Current(hand[w])
      BY <1>25 DEF Authenticate, Typed, TypeOK, Currency
    <2>2. \A v \in Workers \ {w} : hand'[v] = hand[v]
      BY <1>25, <1>b DEF Authenticate, Typed
    <2>3. hand'[w] # hand[w] => Current(hand[w])'
      <3>1. CASE Principal(hand[w])
        <4>1. /\ hand'[w].pc \in {"count", "admit"} /\ hand'[w].ended = "not"
              /\ hand'[w].source = catalog /\ ~hand'[w].wrote
          <5>1. hand' = [hand EXCEPT ![w] = [hand[w] EXCEPT
                           !.pc = IF hand[w].kind = "mutate" THEN "count" ELSE "admit",
                           !.source = catalog]]
            BY <1>25, <3>1 DEF Authenticate, Typed
          <5>2. hand[w].pc = "identify"
            BY <1>25 DEF Authenticate
          <5> QED
            BY <2>1, <3>1, <5>1, <5>2, <1>d, <1>e DEF Typed, HandType
        <4> QED
          BY <2>1, <4>1 DEF Current, CallPcs
      <3>2. CASE ~Principal(hand[w])
        BY <1>25, <3>2, <1>b DEF Authenticate, Current
      <3> QED
        BY <3>1, <3>2
    <2> QED
      BY <2>1, <2>2, <2>3
  <1>26. ASSUME NEW w \in Workers, CountMutations(w) PROVE Goal
    <2>1. known' = known /\ catalog' = catalog /\ catalog \in {0, 1} /\ hand[w] \in HandType
          /\ HandOK(hand[w]) /\ Current(hand[w])
      BY <1>26 DEF CountMutations, Typed, TypeOK, Currency
    <2>2. \A v \in Workers \ {w} : hand'[v] = hand[v]
      BY <1>26, <1>b DEF CountMutations, Typed
    <2>3. hand'[w] # hand[w] => Current(hand[w])'
      <3>1. CASE UnderLimit
        <4>1. /\ hand'[w].pc = "authority" /\ hand'[w].ended = hand[w].ended
              /\ hand'[w].wrote = hand[w].wrote /\ hand[w].pc = "count"
              /\ hand'[w].pair = hand[w].pair /\ UNCHANGED <<pairs, grants>>
          BY <1>26, <3>1 DEF CountMutations, Typed, HandType
        <4> QED
          BY <2>1, <4>1 DEF Current, CallPcs, Granted, Validate
      <3>2. CASE ~UnderLimit
        BY <1>26, <3>2, <1>b DEF CountMutations, Current
      <3> QED
        BY <3>1, <3>2
    <2> QED
      BY <2>1, <2>2, <2>3
  <1>27. ASSUME NEW w \in Workers, Authority(w) PROVE Goal
    <2>1. known' = known /\ catalog' = catalog /\ catalog \in {0, 1} /\ hand[w] \in HandType
          /\ HandOK(hand[w]) /\ Current(hand[w])
      BY <1>27 DEF Authority, Typed, TypeOK, Currency
    <2>2. \A v \in Workers \ {w} : hand'[v] = hand[v]
      BY <1>27, <1>b DEF Authority, Typed
    <2>3. hand'[w] # hand[w] => Current(hand[w])'
      <3>1. CASE Principal(hand[w])
        BY <1>27, <2>1, <3>1, <1>d, <1>e DEF Authority, Current, Typed, HandType
      <3>2. CASE ~Principal(hand[w])
        <4>1. /\ hand'[w].pc = "audit" /\ hand'[w].ended = hand[w].ended
              /\ hand'[w].wrote = hand[w].wrote /\ hand[w].pc = "authority"
              /\ hand'[w].pair = hand[w].pair /\ UNCHANGED <<pairs, grants>>
          BY <1>27, <3>2 DEF Authority, Typed, HandType
        <4> QED
          BY <2>1, <4>1 DEF Current, CallPcs, Granted, Validate
      <3> QED
        BY <3>1, <3>2
    <2> QED
      BY <2>1, <2>2, <2>3
  <1>28. ASSUME NEW w \in Workers, Admit(w) PROVE Goal
    <2>1. known' = known /\ catalog' = catalog /\ catalog \in {0, 1} /\ hand[w] \in HandType
          /\ HandOK(hand[w]) /\ Current(hand[w])
      BY <1>28 DEF Admit, Typed, TypeOK, Currency
    <2>2. \A v \in Workers \ {w} : hand'[v] = hand[v]
      BY <1>28, <1>b DEF Admit, Typed
    <2>3. hand'[w] # hand[w] => Current(hand[w])'
      <3>1. CASE Principal(hand[w])
        <4>1. /\ hand'[w].pc = "look" /\ hand'[w].ended = "not" /\ ~hand'[w].wrote
              /\ hand'[w].source = hand[w].source /\ hand[w].pc = "admit"
          BY <1>28, <3>1, <1>d, <1>e DEF Admit, Typed, HandType
        <4> QED
          BY <2>1, <4>1 DEF Current
      <3>2. CASE ~Principal(hand[w])
        BY <1>28, <3>2, <1>b DEF Admit, Current
      <3> QED
        BY <3>1, <3>2
    <2> QED
      BY <2>1, <2>2, <2>3
  <1>29. ASSUME NEW w \in Workers, Look(w) PROVE Goal
    <2>1. known' = known /\ catalog' = catalog /\ catalog \in {0, 1} /\ hand[w] \in HandType
          /\ HandOK(hand[w]) /\ Current(hand[w])
      BY <1>29 DEF Look, Typed, TypeOK, Currency
    <2>2. \A v \in Workers \ {w} : hand'[v] = hand[v]
      BY <1>29, <1>b DEF Look, Typed
    <2>3. hand'[w] # hand[w] => Current(hand[w])'
      <3>1. CASE ~Return(w)
        <4>0. PICK changed \in BOOLEAN :
                 hand' = [hand EXCEPT ![w].pc = "recheck", ![w].saw = catalog,
                                      ![w].wrote = changed]
          BY <1>29, <3>1 DEF Look
        <4>1. /\ hand'[w].pc = "recheck" /\ hand'[w].ended = hand[w].ended
              /\ hand'[w].saw = catalog /\ hand'[w].source = hand[w].source
              /\ hand'[w].pair = hand[w].pair /\ UNCHANGED <<pairs, grants>>
              /\ hand[w].pc = "look"
          BY <1>29, <4>0 DEF Look, Typed, HandType
        <4> QED
          BY <2>1, <4>1 DEF Current, CallPcs, Granted, Validate
      <3>2. CASE Return(w)
        BY <3>2, <1>b DEF Current
      <3> QED
        BY <1>29, <3>1, <3>2 DEF Look
    <2> QED
      BY <2>1, <2>2, <2>3
  <1>30. ASSUME NEW w \in Workers, Recheck(w) PROVE Goal
    <2>1. known' = known /\ catalog' = catalog /\ catalog \in {0, 1} /\ hand[w] \in HandType
          /\ HandOK(hand[w]) /\ Current(hand[w])
      BY <1>30 DEF Recheck, Typed, TypeOK, Currency
    <2>2. \A v \in Workers \ {w} : hand'[v] = hand[v]
      BY <1>30, <1>b DEF Recheck, Typed
    <2>3. hand'[w] # hand[w] => Current(hand[w])'
      <3>1. CASE MayTell(hand[w])
        <4>1. /\ hand'[w].pc = "tell" /\ hand'[w].ended = "not"
              /\ hand'[w].saw = hand[w].saw /\ hand'[w].source = hand[w].source
              /\ hand'[w].kind = hand[w].kind /\ hand[w].pc = "recheck"
              /\ Reads(hand[w]) => hand[w].source = catalog
          BY ZenonT(30), <1>30, <3>1, <1>d DEF Recheck, MayTell, Typed, HandType
        <4> QED
          BY <2>1, <4>1 DEF Current, HandType, Reads
      <3>2. CASE ~MayTell(hand[w])
        BY <1>30, <3>2, <1>b DEF Recheck, Current
      <3> QED
        BY <3>1, <3>2
    <2> QED
      BY <2>1, <2>2, <2>3
  <1>31. ASSUME NEW w \in Workers, NEW p \in Pairs, Revoke(w, p) PROVE Goal
    <2> DEFINE g == pairs[p].grant
    <2>0. Granted(p)
      BY <1>31 DEF Revoke, Currency
    <2>1. /\ UNCHANGED <<known, pairs, catalog>> /\ g \in Grants /\ grants[g].exists
          /\ \A f \in Grants : grants'[f].exists <=> grants[f].exists
          /\ ~Validate(g)'
      BY <1>31, <2>0 DEF Granted, Revoke, Withdrawn, Validate, Typed, TypeOK
    <2>2. ASSUME NEW v \in Workers, hand'[v] # hand[v] PROVE Current(hand[v])'
      <3>1. CASE v = w
        BY <1>31, <3>1 DEF Revoke, Current
      <3>2. CASE hand'[v] = [hand[v] EXCEPT !.ended = EndedNow(hand[v])] /\ Unchecked(hand[v], g)
        <4>1. hand[v] \in HandType /\ Current(hand[v])
          BY DEF Typed, Currency
        <4>2. /\ hand'[v].pc = hand[v].pc /\ hand'[v].pair = hand[v].pair
              /\ hand'[v].source = hand[v].source /\ hand'[v].saw = hand[v].saw
              /\ hand'[v].wrote = hand[v].wrote /\ hand'[v].ended = EndedNow(hand[v])
              /\ hand[v].pc \in {"identify", "admit", "count", "authority", "look", "recheck"}
              /\ hand[v].pair \in Pairs /\ pairs[hand[v].pair].grant = g
          BY <3>2, <4>1 DEF Unchecked, HandType
        <4> QED
          BY <2>1, <4>1, <4>2 DEF Current, CallPcs, Granted, Validate, EndedNow
      <3> QED
        BY <1>31, <2>2, <3>1, <3>2 DEF Revoke
    <2> QED
      BY <2>1, <2>2
  <1>32. ASSUME NEW g \in Grants, ExpireGrant(g) PROVE Goal
    <2>1. /\ UNCHANGED <<known, pairs, catalog>> /\ g \in Grants /\ grants[g].exists
          /\ \A f \in Grants : grants'[f].exists <=> grants[f].exists
          /\ ~Validate(g)'
      BY <1>32 DEF ExpireGrant, Validate, Typed, TypeOK
    <2>2. ASSUME NEW v \in Workers, hand'[v] # hand[v] PROVE Current(hand[v])'
      <3>2. CASE hand'[v] = [hand[v] EXCEPT !.ended = EndedNow(hand[v])] /\ Unchecked(hand[v], g)
        <4>1. hand[v] \in HandType /\ Current(hand[v])
          BY DEF Typed, Currency
        <4>2. /\ hand'[v].pc = hand[v].pc /\ hand'[v].pair = hand[v].pair
              /\ hand'[v].source = hand[v].source /\ hand'[v].saw = hand[v].saw
              /\ hand'[v].wrote = hand[v].wrote /\ hand'[v].ended = EndedNow(hand[v])
              /\ hand[v].pc \in {"identify", "admit", "count", "authority", "look", "recheck"}
              /\ hand[v].pair \in Pairs /\ pairs[hand[v].pair].grant = g
          BY <3>2, <4>1 DEF Unchecked, HandType
        <4> QED
          BY <2>1, <4>1, <4>2 DEF Current, CallPcs, Granted, Validate, EndedNow
      <3> QED
        BY <1>32, <2>2, <3>2 DEF ExpireGrant
    <2> QED
      BY <2>1, <2>2
  <1>33. ASSUME NEW d \in {"state", "consent", "code"}, ExpireDoc(d) PROVE Goal
    BY <1>33 DEF ExpireDoc
  <1>34. ASSUME RegisterClient PROVE Goal
    BY <1>34 DEF RegisterClient
  <1>35. ASSUME Authorize PROVE Goal
    BY <1>35 DEF Authorize
  <1>36. ASSUME WithdrawClient PROVE Goal
    BY <1>36 DEF WithdrawClient
  <1>37. ASSUME ReplaceCatalog PROVE Goal
    BY <1>37 DEF ReplaceCatalog
  <1>38. CASE UNCHANGED vars
    BY <1>38 DEF vars
  <1> QED
    BY <1>2, <1>28, <1>3, <1>4, <1>5, <1>6, <1>7, <1>8, <1>9, <1>10, <1>11, <1>12, <1>13,
       <1>14, <1>15, <1>16, <1>17, <1>18, <1>19, <1>20, <1>21, <1>22, <1>23, <1>24,
       <1>25, <1>26, <1>27, <1>29, <1>30, <1>31, <1>32, <1>33, <1>34, <1>35, <1>36,
       <1>37, <1>38, <1>a
       DEF Next, Consenting, Issuing, Calling

-----------------------------------------------------------------------------
(* The limit of mutations.                                                 *)

\* Nobody comes to be counted or audited, and nobody ceases to be.
LedgerQuiet ==
  /\ UNCHANGED <<audits, acted, crashes>>
  /\ \A v \in Workers : hand[v].pc \in CountedPcs \/ hand'[v].pc \in CountedPcs
                           => hand'[v].pc = hand[v].pc

LEMMA LedgerQuietKeeps == ASSUME Ledger, LedgerQuiet PROVE Ledger'
  <1>1. Counted' = Counted /\ ToAudit' = ToAudit
    BY DEF LedgerQuiet, Counted, ToAudit, CountedPcs
  <1> QED
    BY <1>1 DEF Ledger, LedgerQuiet

\* The numbers of the ledger.
LEMMA LedgerTypes ==
  ASSUME Typed
  PROVE  /\ IsFiniteSet(Counted) /\ IsFiniteSet(ToAudit)
         /\ Cardinality(Counted) \in Nat /\ Cardinality(ToAudit) \in Nat
         /\ Cardinality(Counted) <= Cardinality(Workers)
         /\ Cardinality(ToAudit) <= Cardinality(Counted)
         /\ Cardinality(Workers) \in Nat /\ Cardinality(Workers) > 0
         /\ audits \in Nat /\ acted \in Nat /\ crashes \in Nat /\ MutationLimit \in Nat
  <1>1. Counted \subseteq Workers /\ ToAudit \subseteq Counted
    BY DEF Counted, ToAudit, CountedPcs
  <1>2. IsFiniteSet(Workers) /\ Cardinality(Workers) \in Nat /\ Cardinality(Workers) > 0
    <2>1. IsFiniteSet(Workers) /\ Workers # {}
      BY WorkersAssumption
    <2>2. Cardinality(Workers) \in Nat /\ Cardinality(Workers) # 0
      BY <2>1, FS_CardinalityType, FS_EmptySet
    <2> QED
      BY <2>1, <2>2
  <1>3. IsFiniteSet(Counted) /\ Cardinality(Counted) <= Cardinality(Workers)
    BY <1>1, <1>2, FS_Subset
  <1>4. IsFiniteSet(ToAudit) /\ Cardinality(ToAudit) <= Cardinality(Counted)
    BY <1>1, <1>3, FS_Subset
  <1>5. Cardinality(Counted) \in Nat /\ Cardinality(ToAudit) \in Nat
    BY <1>3, <1>4, FS_CardinalityType
  <1>6. audits \in Nat /\ acted \in Nat /\ crashes \in Nat /\ MutationLimit \in Nat
    BY LimitAssumption DEF Typed, TypeOK
  <1> QED
    BY <1>2, <1>3, <1>4, <1>5, <1>6

LEMMA LedgerInit == Init => Ledger
  <1> SUFFICES ASSUME Init PROVE Ledger
    OBVIOUS
  <1>1. Typed
    BY TypedInit
  <1>2. Counted = {} /\ ToAudit = {}
    BY DEF Init, Counted, ToAudit, CountedPcs, Idle
  <1>3. Cardinality(Counted) = 0 /\ Cardinality(ToAudit) = 0
    BY <1>2, FS_EmptySet
  <1>4. acted = 0 /\ audits = 0 /\ crashes = 0
    BY DEF Init
  <1> QED
    BY <1>1, <1>3, <1>4, LedgerTypes DEF Ledger

LEMMA LedgerNext == ASSUME Typed, Typed', Ledger, [Next]_vars PROVE Ledger'
  <1>1. /\ Cardinality(Counted) \in Nat /\ Cardinality(ToAudit) \in Nat
        /\ Cardinality(Counted') \in Nat /\ Cardinality(ToAudit') \in Nat
        /\ Cardinality(Counted) <= Cardinality(Workers)
        /\ Cardinality(Counted') <= Cardinality(Workers)
        /\ Cardinality(Workers) \in Nat /\ Cardinality(Workers) > 0
        /\ audits \in Nat /\ acted \in Nat /\ crashes \in Nat /\ MutationLimit \in Nat
        /\ audits' \in Nat /\ acted' \in Nat /\ crashes' \in Nat
        /\ IsFiniteSet(Counted) /\ IsFiniteSet(ToAudit)
        /\ IsFiniteSet(Counted') /\ IsFiniteSet(ToAudit')
    <2>1. (/\ Cardinality(Counted) \in Nat /\ Cardinality(ToAudit) \in Nat
           /\ Cardinality(Counted) <= Cardinality(Workers)
           /\ IsFiniteSet(Counted) /\ IsFiniteSet(ToAudit)
           /\ audits \in Nat /\ acted \in Nat /\ crashes \in Nat)'
      BY LedgerTypes, PTL
    <2> QED
      BY <2>1, LedgerTypes
  <1>a. ASSUME NEW S, IsFiniteSet(S), NEW w PROVE
          /\ Cardinality(S \cup {w}) \in {Cardinality(S), Cardinality(S) + 1}
          /\ Cardinality(S \ {w}) = IF w \in S THEN Cardinality(S) - 1 ELSE Cardinality(S)
    BY <1>a, FS_AddElement, FS_RemoveElement, FS_CardinalityType
  \* Steps that leave alone what the invariant is about.
  <1> USE DEF LedgerQuiet, Typed, HandType, At, Goto, Return, Begin, Idle, flow, credentials,
      tools, CountedPcs
  <1>2. ASSUME NEW w \in Workers, AskCallback(w) PROVE LedgerQuiet
    BY <1>2 DEF AskCallback
  <1>3. ASSUME NEW w \in Workers, TakeState(w) PROVE LedgerQuiet
    BY <1>3 DEF TakeState, Take
  <1>4. ASSUME NEW w \in Workers, Identify(w) PROVE LedgerQuiet
    BY <1>4 DEF Identify
  <1>5. ASSUME NEW w \in Workers, BindConsentBrowser(w) PROVE LedgerQuiet
    BY <1>5 DEF BindConsentBrowser
  <1>6. ASSUME NEW w \in Workers, AskConsent(w) PROVE LedgerQuiet
    BY <1>6 DEF AskConsent
  <1>7. ASSUME NEW w \in Workers, TakeConsent(w) PROVE LedgerQuiet
    BY <1>7 DEF TakeConsent
  <1>8. ASSUME NEW w \in Workers, IssueCode(w) PROVE LedgerQuiet
    BY <1>8 DEF IssueCode
  <1>9. ASSUME NEW w \in Workers, AskExchange(w) PROVE LedgerQuiet
    BY <1>9 DEF AskExchange
  <1>10. ASSUME NEW w \in Workers, TakeCode(w) PROVE LedgerQuiet
    BY <1>10 DEF TakeCode, Take
  <1>11. ASSUME NEW w \in Workers, Reload(w) PROVE LedgerQuiet
    BY <1>11 DEF Reload
  <1>12. ASSUME NEW w \in Workers, Issue(w) PROVE LedgerQuiet
    BY <1>12 DEF Issue
  <1>13. ASSUME NEW w \in Workers, SaveAccess(w) PROVE LedgerQuiet
    BY <1>13 DEF SaveAccess
  <1>14. ASSUME NEW w \in Workers, SaveRefresh(w) PROVE LedgerQuiet
    BY <1>14 DEF SaveRefresh
  <1>15. ASSUME NEW w \in Workers, Activate(w) PROVE LedgerQuiet
    BY <1>15 DEF Activate
  <1>16. ASSUME NEW w \in Workers, Discard(w) PROVE LedgerQuiet
    BY <1>16 DEF Discard
  <1>17. ASSUME NEW w \in Workers, Answer(w) PROVE LedgerQuiet
    BY <1>17 DEF Answer
  <1>18. ASSUME NEW w \in Workers, NEW p \in Pairs, AskRefresh(w, p) PROVE LedgerQuiet
    BY <1>18 DEF AskRefresh
  <1>19. ASSUME NEW w \in Workers, Authenticate(w) PROVE LedgerQuiet
    BY <1>19 DEF Authenticate
  <1>20. ASSUME NEW w \in Workers, Admit(w) PROVE LedgerQuiet
    BY <1>20 DEF Admit
  <1>21. ASSUME NEW w \in Workers, Look(w) PROVE LedgerQuiet
    BY <1>21 DEF Look
  <1>22. ASSUME NEW w \in Workers, Recheck(w) PROVE LedgerQuiet
    BY <1>22 DEF Recheck
  <1>23. ASSUME NEW w \in Workers, Tell(w) PROVE LedgerQuiet
    BY <1>23 DEF Tell
  <1>24. ASSUME NEW w \in Workers, NEW p \in Pairs, CallTool(w, p) PROVE LedgerQuiet
    BY <1>24 DEF CallTool
  <1>25. ASSUME NEW w \in Workers, NEW p \in Pairs, Revoke(w, p) PROVE LedgerQuiet
    BY <1>25 DEF Revoke
  <1>26. ASSUME NEW w \in Workers, Purge(w) PROVE LedgerQuiet
    BY <1>26 DEF Purge
  <1>27. ASSUME NEW g \in Grants, ExpireGrant(g) PROVE LedgerQuiet
    BY <1>27 DEF ExpireGrant
  <1>28. ASSUME NEW d \in {"state", "consent", "code"}, ExpireDoc(d) PROVE LedgerQuiet
    BY <1>28 DEF ExpireDoc
  <1>29. ASSUME RegisterClient PROVE LedgerQuiet
    BY <1>29 DEF RegisterClient
  <1>30. ASSUME Authorize PROVE LedgerQuiet
    BY <1>30 DEF Authorize
  <1>31. ASSUME WithdrawClient PROVE LedgerQuiet
    BY <1>31 DEF WithdrawClient
  <1>32. ASSUME ReplaceCatalog PROVE LedgerQuiet
    BY <1>32 DEF ReplaceCatalog
  <1> HIDE DEF LedgerQuiet, Typed, HandType, At, Goto, Return, Begin, Idle, flow, credentials,
      tools, CountedPcs
  \* The steps it is about.
  <1>33. ASSUME NEW w \in Workers, CountMutations(w) PROVE Ledger'
    <2>1. CASE UnderLimit
      <3>1. UNCHANGED <<audits, acted, crashes>> /\ ToAudit' = ToAudit /\ audits < MutationLimit
        BY <1>33, <2>1 DEF CountMutations, UnderLimit, tools, Counted, ToAudit, CountedPcs,
           Typed, HandType, At, Goto, Return, Idle
      <3> QED
        BY <3>1, <1>1 DEF Ledger
    <2>2. CASE ~UnderLimit
      <3>1. LedgerQuiet
        BY <1>33, <2>2 DEF LedgerQuiet, CountMutations, Typed, HandType, At, Goto, Return,
           Begin, Idle, flow, credentials, tools, CountedPcs
      <3> QED
        BY <3>1, LedgerQuietKeeps
    <2> QED
      BY <2>1, <2>2
  <1>34. ASSUME NEW w \in Workers, Authority(w) PROVE Ledger'
    <2>1. /\ UNCHANGED <<audits, acted, crashes>> /\ Counted' = Counted
          /\ ToAudit' = ToAudit \/ ToAudit' = ToAudit \cup {w}
      BY <1>34 DEF Authority, tools, Counted, ToAudit, CountedPcs, Typed, HandType, At, Goto,
         Return, Idle
    <2>2. ToAudit \subseteq ToAudit'
      BY <2>1
    <2>3. Cardinality(ToAudit') >= Cardinality(ToAudit)
      BY <2>2, <1>1, FS_Subset
    <2> QED
      BY <2>1, <2>3, <1>1 DEF Ledger
  <1>35. ASSUME NEW w \in Workers, Act(w) PROVE Ledger'
    <2>1. /\ UNCHANGED <<audits, crashes>> /\ Counted' = Counted
          /\ w \notin ToAudit /\ ToAudit' = ToAudit \cup {w} /\ acted' <= acted + 1
      BY <1>35, <1>1 DEF Act, Counted, ToAudit, CountedPcs, Typed, HandType, At, Goto, Return,
         Idle
    <2>2. Cardinality(ToAudit') = Cardinality(ToAudit) + 1
      BY <2>1, <1>1, FS_AddElement
    <2> QED
      BY <2>1, <2>2, <1>1 DEF Ledger
  <1>36. ASSUME NEW w \in Workers, Audit(w) PROVE Ledger'
    <2>1. /\ UNCHANGED <<acted, crashes>> /\ audits' = audits + 1
          /\ w \in Counted /\ Counted' = Counted \ {w}
          /\ w \in ToAudit /\ ToAudit' = ToAudit \ {w}
      BY <1>36 DEF Audit, Counted, ToAudit, CountedPcs, Typed, HandType, At, Goto, Return, Idle
    <2>2. /\ Cardinality(ToAudit') = Cardinality(ToAudit) - 1
          /\ Cardinality(Counted') = Cardinality(Counted) - 1
      BY <2>1, <1>1, <1>a
    <2> QED
      BY <2>1, <2>2, <1>1 DEF Ledger
  <1>37. ASSUME NEW w \in Workers, Crash(w) PROVE Ledger'
    <2>1. /\ UNCHANGED <<acted, audits>> /\ crashes' = crashes + 1
          /\ Counted' = Counted \ {w} /\ ToAudit' = ToAudit \ {w}
      BY <1>37 DEF Crash, tools, Counted, ToAudit, CountedPcs, Typed, HandType, At, Goto,
         Return, Idle
    <2>2. Cardinality(ToAudit') >= Cardinality(ToAudit) - 1
      <3>1. CASE w \in ToAudit
        <4>1. Cardinality(ToAudit \ {w}) = Cardinality(ToAudit) - 1
          BY <3>1, <1>1, FS_RemoveElement
        <4> QED
          BY <2>1, <4>1, <1>1
      <3>2. CASE w \notin ToAudit
        <4>1. ToAudit' = ToAudit
          BY <2>1, <3>2
        <4> QED
          BY <4>1, <1>1
      <3> QED
        BY <3>1, <3>2
    <2>3. Cardinality(Counted') <= Cardinality(Counted)
      BY <2>1, <1>1, FS_Subset
    <2> QED
      BY <2>1, <2>2, <2>3, <1>1 DEF Ledger
  <1>38. CASE UNCHANGED vars
    BY <1>38 DEF vars, Ledger, Counted, ToAudit
  <1> QED
    BY <1>2, <1>20, <1>3, <1>4, <1>5, <1>6, <1>7, <1>8, <1>9, <1>10, <1>11, <1>12, <1>13,
       <1>14, <1>15, <1>16, <1>17, <1>18, <1>19, <1>21, <1>22, <1>23, <1>24, <1>25,
       <1>26, <1>27, <1>28, <1>29, <1>30, <1>31, <1>32, <1>33, <1>34, <1>35, <1>36,
       <1>37, <1>38, LedgerQuietKeeps
       DEF Next, Consenting, Issuing, Calling

-----------------------------------------------------------------------------
(* The theorems.                                                           *)

AuthInv == Typed /\ Flow /\ Lineage /\ Currency /\ Ledger

LEMMA AuthInit == Init => AuthInv
  <1> SUFFICES ASSUME Init PROVE AuthInv
    OBVIOUS
  <1>1. \A w \in Workers : hand[w] = Idle
    BY DEF Init
  <1>2. Flow
    BY <1>1 DEF Init, Flow, Handover, Alone, At, Exchanging, Idle, NoGrant
  <1>3. Lineage
    BY <1>1 DEF Init, Lineage, Carrying, Idle, NoGrant
  <1>4. Currency
    BY <1>1 DEF Init, Currency, Current, Idle
  <1> QED
    BY <1>2, <1>3, <1>4, TypedInit, LedgerInit DEF AuthInv

LEMMA AuthNext == ASSUME AuthInv, [Next]_vars PROVE AuthInv'
  <1>1. Typed'
    BY TypedNext DEF AuthInv
  <1> QED
    BY <1>1, FlowNext, LineageNext, CurrencyNext, LedgerNext DEF AuthInv

\* Every reachable state of the endpoint satisfies the inductive invariant.
THEOREM Authorized == Spec => []AuthInv
  BY AuthInit, AuthNext, PTL DEF Spec

\* For any number of requests at a time: one consent leads to at most one
\* grant, made for the browser the consent was bound to, and a refresh token is
\* exchanged at most once (consume, activate of mcp_store and mcp_grants).
THEOREM OneLine == Spec => []OneLineOfCredentials
  <1>1. ASSUME AuthInv PROVE OneLineOfCredentials
    <2>1. Cardinality({g \in Grants : grants[g].exists}) <= 1
      <3> DEFINE S == {g \in Grants : grants[g].exists}
      <3>1. CASE S = {}
        BY <3>1, FS_EmptySet
      <3>2. CASE S # {}
        <4>1. PICK f \in Grants : f \in S
          BY <3>2
        <4>2. S = {f}
          BY <1>1, <4>1 DEF AuthInv, Flow, Alone
        <4> QED
          BY <4>2, FS_Singleton
      <3> QED
        BY <3>1, <3>2
    <2>2. (\E g \in Grants : grants[g].exists) => cookie
      BY <1>1 DEF AuthInv, Flow, Handover
    <2>3. RefreshIsSpentOnce
      BY <1>1 DEF AuthInv, Lineage, RefreshIsSpentOnce, Typed, TypeOK
    <2> QED
      BY <1>1, <2>1, <2>2, <2>3 DEF AuthInv, Typed, OneLineOfCredentials, OneGrantPerConsent
  <1> QED
    BY <1>1, Authorized, PTL

\* A call changes nothing when its grant was withdrawn before the check in front
\* of the change, and is not answered when it was withdrawn before the last
\* check; and a read is answered from the one catalog it started from, however
\* revocations, expiries, rotations and calls interleave.  A database tool and
\* get_deployment change before their last check: a refused answer of theirs
\* does not mean that nothing was changed (_mutate, _database_call, _read).
THEOREM CallsAreCurrent == Spec => []AnswersAreCurrent
  <1>1. AuthInv => AnswersAreCurrent
    BY DEF AuthInv, Currency, Current, AnswersAreCurrent, StaleCallsEndUnserved,
           ReadsSeeOneCatalog, Typed, HandType
  <1> QED
    BY <1>1, Authorized, PTL

\* For any limit and any number of requests: what is carried out exceeds the
\* hourly limit by no more than the calls counted at once and those cut off
\* (mutation_count and the audit of mcp_server).
THEOREM LimitHolds == Spec => []MutationsAreBounded
  <1>1. ASSUME AuthInv PROVE MutationsAreBounded
    BY <1>1, LedgerTypes DEF AuthInv, Ledger, MutationsAreBounded
  <1> QED
    BY <1>1, Authorized, PTL

\* No refresh under way brings a revoked grant back: activate writes
\* revoked_at = 0, and its transaction never does so over a revocation.
THEOREM RevocationIsFinal == Spec => RevokedStaysRevoked
  <1>1. ASSUME AuthInv, [Next]_vars
        PROVE  [\A g \in Grants : grants[g].revoked => grants'[g].revoked]_vars
    <2>1. \A g \in Grants : grants[g].revoked => grants[g].exists
      BY <1>1 DEF AuthInv, Lineage, NoGrant
    <2>2. WorldMovesOn
      BY <1>1, WorldStep DEF AuthInv
    <2> QED
      BY <2>1, <2>2 DEF WorldMovesOn
  <1> QED
    BY <1>1, Authorized, PTL DEF Spec, RevokedStaysRevoked
=============================================================================
