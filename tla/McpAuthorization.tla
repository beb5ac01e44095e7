-------------------------- MODULE McpAuthorization --------------------------
(***************************************************************************)
(* The OAuth provider of the MCP endpoint and the gate in front of its     *)
(* tools: services/mcp_auth.py, mcp_grants.py, mcp_store.py,               *)
(* routers/mcp_consent.py, the callback of routers/auth.py and the helpers *)
(* of mcp_server.py.                                                       *)
(*                                                                         *)
(* One authorization is followed from the GitHub callback to the consent   *)
(* of the browser, the one-time code, the grant and the credentials that   *)
(* rotate under it.  Requests are handled by Workers, and every document   *)
(* of the store is read and written in a step of its own; only consume()   *)
(* and the change of a grant are transactions.  A credential is an access  *)
(* and a refresh token issued together; tokens are stored by hash, so they *)
(* are known here by name only.                                            *)
(***************************************************************************)
EXTENDS Naturals, FiniteSets

CONSTANTS
    Workers,        \* requests handled at the same time
    Grants,         \* identities of grants
    Pairs,          \* credentials: an access and a refresh token
    None,           \* no grant, no credential
    MutationLimit,  \* config.mcp.mutation_limit_per_hour
    MaxCalls,       \* bound on the mutations that are audited
    MaxCrashes      \* bound on requests that are cut off

ASSUME NoneAssumption == None \notin Grants \cup Pairs
ASSUME LimitAssumption == /\ MutationLimit \in Nat /\ MaxCalls \in Nat
                          /\ MaxCrashes \in Nat
ASSUME WorkersAssumption == Workers # {} /\ IsFiniteSet(Workers)

VARIABLES
    client,   \* the registered public client
    docs,     \* the state, consent and code documents of the authorization
    cookie,   \* the browser holds the nonce its consent is bound to
    pairs,    \* what the indices of a credential say: grant and generation
    kept,     \* the access and refresh indices in the store
    grants,   \* the grants, in the control store of the database jobs
    known,    \* credentials whose owner was answered
    hand,     \* the request each worker handles
    catalog,  \* the source of the runtime catalog
    audits,   \* audited mutations of the subject in the last hour
    acted,    \* mutations that were carried out
    heirs,    \* history: how often a credential was exchanged
    crashes

vars == <<client, docs, cookie, pairs, kept, grants, known, hand, catalog,
          audits, acted, heirs, crashes>>

flow == <<client, docs, cookie>>
credentials == <<pairs, kept, grants, known, heirs>>
tools == <<catalog, audits, acted>>

DocState == {"none", "live", "expired", "gone"}
NoGrant == [exists |-> FALSE, pair |-> None, generation |-> 0,
            revoked |-> FALSE, expired |-> FALSE]
NoPair == [grant |-> None, generation |-> 0]
Idle == [pc |-> "idle", kind |-> "none", pair |-> None, new |-> None,
         grant |-> None, generation |-> 0, source |-> 0, saw |-> 0,
         wrote |-> FALSE, ended |-> "not"]

\* What a tool is to its gate.  A read tells what it saw; the tools of the
\* databases and get_deployment also change something before their last check.
Calls == {"read", "reconcile", "database", "mutate"}
Reads(h) == h.kind \in {"read", "reconcile"}
Writes(h) == h.kind \in {"reconcile", "database"}

-----------------------------------------------------------------------------
(* Requests.                                                               *)

At(w, pc) == hand[w].pc = pc
Goto(w, pc) == hand' = [hand EXCEPT ![w].pc = pc]
Return(w) == hand' = [hand EXCEPT ![w] = Idle]

Begin(w, kind, pc, p) ==
    /\ At(w, "idle")
    /\ hand' = [hand EXCEPT ![w] = [Idle EXCEPT !.pc = pc, !.kind = kind,
                                                !.pair = p]]

-----------------------------------------------------------------------------
(* Registration, the GitHub callback and the consent.                      *)

\* register_client: only a public PKCE client with safe redirects is stored.
RegisterClient ==
    /\ client = "none" /\ client' = "registered"
    /\ UNCHANGED <<docs, cookie, hand, crashes>> /\ UNCHANGED credentials
    /\ UNCHANGED tools

\* get_client: the record of the client is there and not revoked.
Registered == client = "registered"

\* authorize: the state of the round trip to GitHub.
Authorize ==
    /\ Registered /\ docs["state"] = "none"
    /\ docs' = [docs EXCEPT !["state"] = "live"]
    /\ UNCHANGED <<client, cookie, hand, crashes>> /\ UNCHANGED credentials
    /\ UNCHANGED tools

\* auth_callback: the state belongs to a live MCP authorization.
AskCallback(w) ==
    /\ docs["state"] = "live" /\ Begin(w, "callback", "takeState", None)
    /\ UNCHANGED crashes /\ UNCHANGED flow /\ UNCHANGED credentials
    /\ UNCHANGED tools

\* mcp_store.consume: a transaction that reads and deletes.
Consume(d) == /\ docs[d] \in {"live", "expired"}
              /\ docs' = [docs EXCEPT ![d] = "gone"]

\* What a handler does that wants document d: go on, or be refused.
Take(w, d, next) ==
    /\ \/ /\ Consume(d)
          /\ IF docs[d] = "live" THEN Goto(w, next) ELSE Return(w)
       \/ docs[d] \in {"none", "gone"} /\ UNCHANGED docs /\ Return(w)
    /\ UNCHANGED <<client, cookie, crashes>> /\ UNCHANGED credentials
    /\ UNCHANGED tools

TakeState(w) == At(w, "takeState") /\ Take(w, "state", "github")

\* GitHub confirms the identity, and the consent is stored; or it does not.
Identify(w) ==
    /\ At(w, "github")
    /\ \/ /\ docs' = [docs EXCEPT !["consent"] = "live"]
          /\ Goto(w, "bindBrowser")
       \/ UNCHANGED docs /\ Return(w)
    /\ UNCHANGED <<client, cookie, crashes>> /\ UNCHANGED credentials
    /\ UNCHANGED tools

\* bind_consent_browser: the nonce goes to the browser with the redirect.
BindConsentBrowser(w) ==
    /\ At(w, "bindBrowser") /\ Return(w)
    /\ cookie' = (cookie \/ docs["consent"] = "live")
    /\ UNCHANGED <<client, docs, crashes>> /\ UNCHANGED credentials
    /\ UNCHANGED tools

\* consent_record: the consent is live and bound to this browser.
ConsentRecord == docs["consent"] = "live" /\ cookie

\* The decision of the user; nothing keeps the form from being sent twice.
AskConsent(w) ==
    /\ ConsentRecord
    /\ \E allow \in BOOLEAN :
          Begin(w, IF allow THEN "allow" ELSE "deny", "takeConsent", None)
    /\ UNCHANGED crashes /\ UNCHANGED flow /\ UNCHANGED credentials
    /\ UNCHANGED tools

\* complete_consent: the consent may run out after its last check.
TakeConsent(w) ==
    /\ At(w, "takeConsent")
    /\ \/ /\ Consume("consent")
          /\ IF hand[w].kind = "allow" THEN Goto(w, "code") ELSE Return(w)
       \/ /\ docs["consent"] \notin {"live", "expired"}
          /\ UNCHANGED docs /\ Return(w)
    /\ UNCHANGED <<client, cookie, crashes>> /\ UNCHANGED credentials
    /\ UNCHANGED tools

\* _authorization_redirect
IssueCode(w) ==
    /\ At(w, "code") /\ Return(w)
    /\ docs' = [docs EXCEPT !["code"] = "live"]
    /\ UNCHANGED <<client, cookie, crashes>> /\ UNCHANGED credentials
    /\ UNCHANGED tools

Consenting(w) == \/ AskCallback(w) \/ TakeState(w) \/ Identify(w)
                 \/ BindConsentBrowser(w) \/ AskConsent(w)
                 \/ TakeConsent(w) \/ IssueCode(w)

-----------------------------------------------------------------------------
(* Credentials.                                                            *)

\* mcp_grants.validate
Validate(g) == grants[g].exists /\ ~grants[g].revoked /\ ~grants[g].expired

\* _credential: the index names a valid grant that holds this credential.
Credential(kind, p) ==
    /\ <<kind, p>> \in kept
    /\ pairs[p].grant \in Grants /\ Validate(pairs[p].grant)
    /\ grants[pairs[p].grant].generation = pairs[p].generation
    /\ grants[pairs[p].grant].pair = p

\* load_authorization_code, then exchange_authorization_code.
AskExchange(w) ==
    /\ Registered /\ docs["code"] = "live"
    /\ Begin(w, "exchange", "takeCode", None)
    /\ UNCHANGED crashes /\ UNCHANGED flow /\ UNCHANGED credentials
    /\ UNCHANGED tools

TakeCode(w) == At(w, "takeCode") /\ Take(w, "code", "issue")

\* load_refresh_token
AskRefresh(w, p) ==
    /\ Registered /\ p \in known /\ Credential("refresh", p)
    /\ Begin(w, "refresh", "reload", p)
    /\ UNCHANGED crashes /\ UNCHANGED flow /\ UNCHANGED credentials
    /\ UNCHANGED tools

\* exchange_refresh_token
Reload(w) ==
    /\ At(w, "reload")
    /\ IF Credential("refresh", hand[w].pair)
       THEN hand' = [hand EXCEPT ![w].pc = "issue",
                                 ![w].grant = pairs[hand[w].pair].grant]
       ELSE Return(w)
    /\ UNCHANGED crashes /\ UNCHANGED flow /\ UNCHANGED credentials
    /\ UNCHANGED tools

\* _issue_tokens: a fresh identity, or the generation that is read now.
Issue(w) ==
    /\ At(w, "issue")
    /\ \/ /\ hand[w].kind = "exchange"
          /\ \E g \in Grants :
                /\ ~grants[g].exists
                /\ \A v \in Workers : hand[v].grant # g
                /\ hand' = [hand EXCEPT ![w].pc = "saveAccess",
                                        ![w].grant = g]
       \/ /\ hand[w].kind = "refresh" /\ Validate(hand[w].grant)
          /\ hand' = [hand EXCEPT ![w].pc = "saveAccess",
                         ![w].generation = grants[hand[w].grant].generation]
       \/ hand[w].kind = "refresh" /\ ~Validate(hand[w].grant) /\ Return(w)
    /\ UNCHANGED crashes /\ UNCHANGED flow /\ UNCHANGED credentials
    /\ UNCHANGED tools

\* Inactive indices: first the access token, then the refresh token.
SaveAccess(w) ==
    /\ At(w, "saveAccess")
    /\ \E p \in Pairs :
          /\ pairs[p] = NoPair
          /\ pairs' = [pairs EXCEPT ![p] =
                         [grant |-> hand[w].grant,
                          generation |-> hand[w].generation + 1]]
          /\ kept' = kept \cup {<<"access", p>>}
          /\ hand' = [hand EXCEPT ![w].pc = "saveRefresh", ![w].new = p]
    /\ UNCHANGED <<grants, known, heirs, crashes>> /\ UNCHANGED flow
    /\ UNCHANGED tools

SaveRefresh(w) ==
    /\ At(w, "saveRefresh") /\ Goto(w, "activate")
    /\ kept' = kept \cup {<<"refresh", hand[w].new>>}
    /\ UNCHANGED <<pairs, grants, known, heirs, crashes>> /\ UNCHANGED flow
    /\ UNCHANGED tools

\* Seeded fault: the transaction compares neither the generation nor the
\* refresh token with what the exchange has read.
UnchangedSinceFault(h) == /\ grants[h.grant].exists /\ ~grants[h.grant].revoked
                          /\ ~grants[h.grant].expired

\* Seeded fault: the transaction does not look whether the grant was revoked.
StillGrantedFault(h) == /\ grants[h.grant].exists /\ ~grants[h.grant].expired
                        /\ grants[h.grant].generation = h.generation
                        /\ grants[h.grant].pair = h.pair

\* What activate requires of a rotation; a new identity must be unused.
StillGranted(h) == /\ grants[h.grant].exists /\ ~grants[h.grant].revoked
                   /\ grants[h.grant].generation = h.generation
                   /\ grants[h.grant].pair = h.pair
                   /\ ~grants[h.grant].expired

Activated(h) ==
    [exists |-> TRUE, pair |-> h.new, generation |-> h.generation + 1,
     revoked |-> FALSE, expired |-> FALSE]

Activate(w) ==
    LET h == hand[w]
        accepted == IF h.kind = "refresh" THEN StillGranted(h)
                                          ELSE ~grants[h.grant].exists
    IN  /\ At(w, "activate")
        /\ \/ /\ accepted /\ Goto(w, "answer")
              /\ grants' = [grants EXCEPT ![h.grant] = Activated(h)]
              /\ heirs' = IF h.pair = None THEN heirs
                          ELSE [heirs EXCEPT ![h.pair] = @ + 1]
           \/ ~accepted /\ Goto(w, "discard") /\ UNCHANGED <<grants, heirs>>
        /\ UNCHANGED <<pairs, kept, known, crashes>> /\ UNCHANGED flow
        /\ UNCHANGED tools

\* The loser deletes its indices and is refused.
Discard(w) ==
    /\ At(w, "discard") /\ Return(w)
    /\ kept' = kept \ {<<"access", hand[w].new>>, <<"refresh", hand[w].new>>}
    /\ UNCHANGED <<pairs, grants, known, heirs, crashes>> /\ UNCHANGED flow
    /\ UNCHANGED tools

Answer(w) ==
    /\ At(w, "answer") /\ Return(w)
    /\ known' = known \cup {hand[w].new}
    /\ UNCHANGED <<pairs, kept, grants, heirs, crashes>> /\ UNCHANGED flow
    /\ UNCHANGED tools

Issuing(w) == \/ AskExchange(w) \/ TakeCode(w) \/ Reload(w) \/ Issue(w)
              \/ SaveAccess(w) \/ SaveRefresh(w) \/ Activate(w)
              \/ Discard(w) \/ Answer(w)
              \/ \E p \in Pairs : AskRefresh(w, p)

-----------------------------------------------------------------------------
(* Disconnection.                                                          *)

\* The calls of grant g that have not passed their last check yet.
Unchecked(h, g) ==
    /\ h.pc \in {"identify", "admit", "count", "authority", "look", "recheck"}
    /\ h.pair # None /\ pairs[h.pair].grant = g

\* History: the grant of a call ends before the check that lets it change
\* something ("early"), or after it and before the one that lets it answer.
EndedNow(h) == IF h.ended # "not" THEN h.ended
               ELSE IF h.pc \in {"look", "recheck"} THEN "late" ELSE "early"

\* mcp_grants.revoke: the first revocation counts, and none is undone.
Withdrawn(g) == [grants EXCEPT ![g].revoked = @ \/ grants[g].exists]

\* revoke_client_token finds the family by any credential that is retained,
\* a rotated one too, and revokes it.
Revoke(w, p) ==
    /\ Registered /\ p \in known /\ At(w, "idle")
    /\ <<"access", p>> \in kept \/ <<"refresh", p>> \in kept
    /\ LET g == pairs[p].grant
       IN /\ grants' = Withdrawn(g)
          /\ hand' = [v \in Workers |->
                        IF v = w THEN [Idle EXCEPT !.pc = "purge"]
                        ELSE IF Unchecked(hand[v], g)
                             THEN [hand[v] EXCEPT !.ended = EndedNow(hand[v])]
                             ELSE hand[v]]
    /\ UNCHANGED <<pairs, kept, known, heirs, crashes>> /\ UNCHANGED flow
    /\ UNCHANGED tools

\* purge_session (see DatabaseJobs) and the audit record.
Purge(w) ==
    /\ At(w, "purge") /\ Return(w)
    /\ UNCHANGED crashes /\ UNCHANGED flow /\ UNCHANGED credentials
    /\ UNCHANGED tools

-----------------------------------------------------------------------------
(* Calls of tools.                                                         *)

\* verify_token of the SDK, then the gate of the tool.
CallTool(w, p) ==
    /\ p \in known /\ Credential("access", p)
    /\ \E call \in Calls : Begin(w, call, "identify", p)
    /\ UNCHANGED crashes /\ UNCHANGED flow /\ UNCHANGED credentials
    /\ UNCHANGED tools

\* Seeded fault: the principal is taken from the token alone.
PrincipalFault(h) == <<"access", h.pair>> \in kept

\* _principal: the credential is loaded again at every call.
Principal(h) == Credential("access", h.pair)

\* _identity, with the catalog a read starts from.
Authenticate(w) ==
    /\ At(w, "identify")
    /\ IF Principal(hand[w])
       THEN hand' = [hand EXCEPT
                       ![w].pc = IF hand[w].kind = "mutate" THEN "count"
                                                            ELSE "admit",
                       ![w].source = catalog]
       ELSE Return(w)
    /\ UNCHANGED crashes /\ UNCHANGED flow /\ UNCHANGED credentials
    /\ UNCHANGED tools

\* The first _catalog_access of a read, or the first database_jobs._session.
Admit(w) ==
    /\ At(w, "admit")
    /\ IF Principal(hand[w]) THEN Goto(w, "look") ELSE Return(w)
    /\ UNCHANGED crashes /\ UNCHANGED flow /\ UNCHANGED credentials
    /\ UNCHANGED tools

\* Seeded fault: the limit is off by one.
UnderLimitFault == audits <= MutationLimit

\* mutation_count of the last hour
UnderLimit == audits < MutationLimit

CountMutations(w) ==
    /\ At(w, "count")
    /\ IF UnderLimit THEN Goto(w, "authority") ELSE Return(w)
    /\ UNCHANGED crashes /\ UNCHANGED flow /\ UNCHANGED credentials
    /\ UNCHANGED tools

\* authority(_principal()): a refusal is audited as a failed mutation.
Authority(w) ==
    /\ At(w, "authority")
    /\ Goto(w, IF Principal(hand[w]) THEN "act" ELSE "audit")
    /\ UNCHANGED crashes /\ UNCHANGED flow /\ UNCHANGED credentials
    /\ UNCHANGED tools

Act(w) ==
    /\ At(w, "act") /\ Goto(w, "audit")
    /\ acted' \in {acted, acted + 1}
    /\ UNCHANGED <<catalog, audits, crashes>> /\ UNCHANGED flow
    /\ UNCHANGED credentials

Audit(w) ==
    /\ At(w, "audit") /\ audits < MaxCalls /\ Return(w)
    /\ audits' = audits + 1
    /\ UNCHANGED <<catalog, acted, crashes>> /\ UNCHANGED flow
    /\ UNCHANGED credentials

\* The action of a read or of a database tool, which may fail.  A database
\* tool commits its change here, and get_deployment saves what it reconciled.
Look(w) ==
    /\ At(w, "look")
    /\ \/ \E changed \in BOOLEAN :
             /\ changed => Writes(hand[w])
             /\ hand' = [hand EXCEPT ![w].pc = "recheck", ![w].saw = catalog,
                                     ![w].wrote = changed]
       \/ Return(w)
    /\ UNCHANGED crashes /\ UNCHANGED flow /\ UNCHANGED credentials
    /\ UNCHANGED tools

\* _catalog_access again and the same catalog, or database_jobs._session.
MayTell(h) == /\ Principal(h)
              /\ Reads(h) => h.source = catalog

Recheck(w) ==
    /\ At(w, "recheck")
    /\ IF MayTell(hand[w]) THEN Goto(w, "tell") ELSE Return(w)
    /\ UNCHANGED crashes /\ UNCHANGED flow /\ UNCHANGED credentials
    /\ UNCHANGED tools

\* The answer, audited as "ok".
Tell(w) ==
    /\ At(w, "tell") /\ Return(w)
    /\ UNCHANGED crashes /\ UNCHANGED flow /\ UNCHANGED credentials
    /\ UNCHANGED tools

Calling(w) == \/ Authenticate(w) \/ Admit(w) \/ CountMutations(w) \/ Authority(w)
              \/ Act(w) \/ Audit(w) \/ Look(w) \/ Recheck(w) \/ Tell(w)
              \/ \E p \in Pairs : CallTool(w, p)

-----------------------------------------------------------------------------
(* Time and faults.                                                        *)

ExpireDoc(d) ==
    /\ docs[d] = "live" /\ docs' = [docs EXCEPT ![d] = "expired"]
    /\ UNCHANGED <<client, cookie, hand, crashes>> /\ UNCHANGED credentials
    /\ UNCHANGED tools

ExpireGrant(g) ==
    /\ grants[g].exists /\ ~grants[g].expired
    /\ grants' = [grants EXCEPT ![g].expired = TRUE]
    /\ hand' = [v \in Workers |-> IF Unchecked(hand[v], g)
                                  THEN [hand[v] EXCEPT !.ended = EndedNow(hand[v])]
                                  ELSE hand[v]]
    /\ UNCHANGED <<pairs, kept, known, heirs, crashes>> /\ UNCHANGED flow
    /\ UNCHANGED tools

\* Operators withdraw the client; the runtime catalog is replaced.
WithdrawClient ==
    /\ client = "registered" /\ client' = "revoked"
    /\ UNCHANGED <<docs, cookie, hand, crashes>> /\ UNCHANGED credentials
    /\ UNCHANGED tools

ReplaceCatalog ==
    /\ catalog = 0 /\ catalog' = 1
    /\ UNCHANGED <<audits, acted, hand, crashes>> /\ UNCHANGED flow
    /\ UNCHANGED credentials

\* The replica dies, or the answer does not arrive.
Crash(w) ==
    /\ ~At(w, "idle") /\ crashes < MaxCrashes
    /\ crashes' = crashes + 1 /\ Return(w)
    /\ UNCHANGED flow /\ UNCHANGED credentials /\ UNCHANGED tools

-----------------------------------------------------------------------------
Init ==
    /\ client = "none" /\ cookie = FALSE
    /\ docs = [d \in {"state", "consent", "code"} |-> "none"]
    /\ pairs = [p \in Pairs |-> NoPair] /\ kept = {} /\ known = {}
    /\ grants = [g \in Grants |-> NoGrant]
    /\ hand = [w \in Workers |-> Idle]
    /\ catalog = 0 /\ audits = 0 /\ acted = 0 /\ crashes = 0
    /\ heirs = [p \in Pairs |-> 0]

Next ==
    \/ RegisterClient \/ Authorize \/ WithdrawClient \/ ReplaceCatalog
    \/ \E d \in {"state", "consent", "code"} : ExpireDoc(d)
    \/ \E g \in Grants : ExpireGrant(g)
    \/ \E w \in Workers :
          \/ Consenting(w) \/ Issuing(w) \/ Calling(w) \/ Purge(w) \/ Crash(w)
          \/ \E p \in Pairs : Revoke(w, p)

Spec == Init /\ [][Next]_vars

-----------------------------------------------------------------------------
(* Properties.                                                             *)

TypeOK ==
    /\ client \in {"none", "registered", "revoked"} /\ cookie \in BOOLEAN
    /\ docs \in [{"state", "consent", "code"} -> DocState]
    /\ pairs \in [Pairs -> [grant : Grants \cup {None}, generation : Nat]]
    /\ kept \subseteq {"access", "refresh"} \X Pairs
    /\ known \subseteq Pairs
    /\ grants \in [Grants -> [exists : BOOLEAN, pair : Pairs \cup {None},
                              generation : Nat, revoked : BOOLEAN,
                              expired : BOOLEAN]]
    /\ catalog \in 0..1 /\ audits \in 0..MaxCalls /\ acted \in Nat
    /\ heirs \in [Pairs -> Nat] /\ crashes \in 0..MaxCrashes

\* One consent of one browser leads to one grant: neither a form sent twice
\* nor a code exchanged twice opens a second family of credentials.
OneGrantPerConsent ==
    /\ Cardinality({g \in Grants : grants[g].exists}) <= 1
    /\ (\E g \in Grants : grants[g].exists) => cookie

\* A refresh token is exchanged at most once, however its exchanges overlap.
RefreshIsSpentOnce == \A p \in Pairs : heirs[p] <= 1

\* Disconnecting wins over a refresh that is under way: what was revoked
\* never comes back (activate writes revoked_at = 0, past its own check).
RevokedStaysRevoked ==
    [][\A g \in Grants : grants[g].revoked => grants'[g].revoked]_vars

\* A call changes nothing when its grant was revoked or ran out before the
\* check in front of the change: authority of a mutation, the first _session of
\* a database tool, the first _catalog_access of get_deployment.  And it is not
\* answered when the grant ended before the last check, although a database
\* tool or get_deployment may then have made its change (_mutate,
\* _database_call, _read).
StaleCallsEndUnserved ==
    \A w \in Workers :
        /\ hand[w].ended # "not" => hand[w].pc \notin {"act", "tell"}
        /\ hand[w].wrote => hand[w].ended # "early"

\* A read is answered from one catalog: the one it started from.
ReadsSeeOneCatalog ==
    \A w \in Workers : hand[w].pc = "tell" /\ Reads(hand[w]) =>
                          hand[w].saw = hand[w].source

\* Credentials descend in one line: one grant of a consent, one successor of a
\* refresh token (consume, exchange_authorization_code, exchange_refresh_token).
OneLineOfCredentials == TypeOK /\ OneGrantPerConsent /\ RefreshIsSpentOnce

\* What a tool does is allowed at the check before it, and what it answers is
\* still allowed and still true at the last check (authority, _session,
\* _catalog_access).
AnswersAreCurrent == StaleCallsEndUnserved /\ ReadsSeeOneCatalog

\* The limit of mutations can be overrun only by calls that were counted at
\* the same time, and by calls that were cut off before their audit record.
MutationsAreBounded ==
    acted <= MutationLimit + Cardinality(Workers) - 1 + crashes
=============================================================================
