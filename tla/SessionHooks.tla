---------------------------- MODULE SessionHooks ----------------------------
(***************************************************************************)
(* Concurrent completion of self-service flows against the shared session  *)
(* store.  Every request is its own goroutine: it starts a flow (login,    *)
(* refresh/step-up login, recovery, settings or registration), persists    *)
(* what the flow produced, runs the flow's post hook and answers.  The     *)
(* post hooks are the ones of selfservice/hook: SessionDestroyer after     *)
(* login, recovery and settings, SessionIssuer after registration.  The    *)
(* hook executor and the session persister are not part of the source     *)
(* tree; they follow spec sections 4.4, 4.5 and 5 (read, mutate and write *)
(* back; revocation as one update; the abort sentinel).                    *)
(***************************************************************************)
EXTENDS Naturals, FiniteSets

CONSTANTS
    Identity,              \* identities that may register (model values)
    SessionId,             \* the pool of session ids the runs may allocate
    Request,               \* concurrent requests, one goroutine each
    Operation,             \* the self-service operations the requests perform
    WebAuthnPasswordless,  \* config selfservice.methods.webauthn passwordless
    None                   \* no identity / no session

ASSUME ConstantsAssumption ==
    /\ IsFiniteSet(SessionId)
    /\ Operation \subseteq {"registration", "login", "refresh", "recovery", "settings"}
    /\ WebAuthnPasswordless \in BOOLEAN
    /\ None \notin Identity \cup SessionId

VARIABLES
    session,     \* the persisted sessions: SessionId -> row
    created,     \* number of sessions created so far (creation stamp)
    registered,  \* identities persisted by a registration
    pc,          \* where each request is in its handler
    op,          \* the operation of each request
    who,         \* the identity each request acts for
    sid,         \* the session each request issues or is authenticated by
    ms,          \* the authentication methods of the request's session value
    flow,        \* the request's flow: type, JSON accept, ID token, requested AAL
    hookOut,     \* what the post hook returned
    writes,      \* how many responses each request has written
    cookie,      \* whether the request set the session cookie
    setTokens,   \* SetToken continue_with items the request sent
    redirect,    \* whether the request answered with a redirect
    status,      \* how the request was answered
    cuts         \* ghost: the revocations a successful SessionDestroyer made

resp == <<writes, cookie, setTokens, redirect, status>>

vars == <<session, created, registered, pc, op, who, sid, ms, flow, hookOut, resp, cuts>>

-----------------------------------------------------------------------------
(* Strategies and the authentication method each one completes.            *)

Strategy == {"password", "oidc", "totp", "lookup", "webauthn", "code"}

Method == [method : Strategy, aal : {1, 2}]

\* password.Strategy.CompletedAuthenticationMethod
PasswordMethod == [method |-> "password", aal |-> 1]

\* lookup.Strategy.CompletedAuthenticationMethod
LookupMethod == [method |-> "lookup", aal |-> 2]

\* totp.Strategy.CompletedAuthenticationMethod
TOTPMethod == [method |-> "totp", aal |-> 2]

\* webauthn.Strategy.CompletedAuthenticationMethod: AAL1 only when webauthn
\* is configured as a passwordless first factor.
WebAuthnMethod == [method |-> "webauthn", aal |-> IF WebAuthnPasswordless THEN 1 ELSE 2]

\* The method each strategy completes (oidc and code are first factors).
CompletedAuthenticationMethod(st) ==
    CASE st = "password" -> PasswordMethod
      [] st = "lookup"   -> LookupMethod
      [] st = "totp"     -> TOTPMethod
      [] st = "webauthn" -> WebAuthnMethod
      [] OTHER           -> [method |-> st, aal |-> 1]

\* The session's AAL, derived afresh from its methods (spec 4.2).
AALOf(methods) ==
    IF \E m \in methods : m.aal = 2 THEN 2 ELSE IF methods = {} THEN 0 ELSE 1

\* login.CheckAAL: a strategy is responsible only for the AAL the flow requests.
CheckAAL(requested, expected) == requested = expected

-----------------------------------------------------------------------------
(* Rows, flows and responses.                                              *)

Row == [owner : Identity \cup {None}, active : BOOLEAN, methods : SUBSET Method, born : Nat]

NoRow == [owner |-> None, active |-> FALSE, methods |-> {}, born |-> 0]

Flow == [type : {"browser", "api"}, json : BOOLEAN, idToken : BOOLEAN, aal : {1, 2}]

\* Flows of registration submissions; an API flow always accepts JSON.
RegistrationFlow == {f \in Flow : f.aal = 1 /\ (f.type = "api" => f.json)}

\* The flow of a login, recovery or settings submission by a browser.
BrowserFlow(aal) == [type |-> "browser", json |-> FALSE, idToken |-> FALSE, aal |-> aal]

Status == {"none", "ok", "error", "not_responsible"}

Cut == [n : Nat, keep : SessionId, stale : SUBSET Request]

\* Session ids that are neither persisted nor already drawn by a request.
FreeIds == {s \in SessionId : session[s].owner = None /\ s \notin {sid[q] : q \in Request}}

\* Refresh logins that read their session and have not yet written it back.
PendingWriteBacks == {q \in Request : pc[q] = "persist" /\ op[q] = "refresh"}

\* Active sessions a request can be authenticated by.
LiveSessions == {s \in SessionId : session[s].active}

-----------------------------------------------------------------------------
(* The persister (spec 4.5, 6).                                            *)

\* Faulty revocation: the WHERE clause lost its identity filter.
RevokeSessionsExcept(i, keep) ==
    { [store |-> [x \in SessionId |->
                    IF x # keep THEN [session[x] EXCEPT !.active = FALSE] ELSE session[x]],
       err |-> FALSE],
      [store |-> session, err |-> TRUE] }

\* RevokeSessionsIdentityExcept: one UPDATE flipping active to false on every
\* other session of the identity; it either happens or fails as a whole.
RevokeSessionsIdentityExcept(i, keep) ==
    { [store |-> [x \in SessionId |->
                    IF session[x].owner = i /\ x # keep
                    THEN [session[x] EXCEPT !.active = FALSE]
                    ELSE session[x]],
       err |-> FALSE],
      [store |-> session, err |-> TRUE] }

-----------------------------------------------------------------------------
(* Hooks.  A hook yields the store it leaves, its return value ("nil",     *)
(* "error" or the "abort" sentinel) and what it wrote to the client.       *)

HookOut(store, ret, w, c, t, rd) ==
    [store |-> store, ret |-> ret, writes |-> w, cookie |-> c, setTokens |-> t, redirect |-> rd]

\* A hook that wrote nothing.
Returned(store, ret) == HookOut(store, ret, 0, FALSE, 0, FALSE)

\* Faulty SessionDestroyer: the persister's error is dropped and nil returned.
DestroyOthersIgnoringError(i, s) ==
    {Returned(o.store, "nil") : o \in RevokeSessionsIdentityExcept(i, s)}

\* The three SessionDestroyer handlers: revoke every other session of the
\* identity and return the persister's error, if any.
DestroyOthers(i, s) ==
    {Returned(o.store, IF o.err THEN "error" ELSE "nil") : o \in RevokeSessionsIdentityExcept(i, s)}

ExecuteLoginPostHook(i, s) == DestroyOthers(i, s)

ExecutePostRecoveryHook(i, s) == DestroyOthers(i, s)

\* Faulty settings hook: revokes with a session whose id is not set, so no
\* session is kept.
ExecuteSettingsKeepingNone(i, s) == DestroyOthers(i, None)

ExecuteSettingsPostPersistHook(i, s) == DestroyOthers(i, s)

\* Faulty SessionIssuer: the SPA branch raises the sentinel without writing
\* the response body.
IssuerAbortWithoutBody(f, methods) ==
    IF f.type = "api"
    THEN { HookOut(session, "abort", 1, FALSE, 1, FALSE) }
    ELSE { HookOut(session, IF f.json THEN "abort" ELSE "nil", 0, TRUE, 0, FALSE) }

\* Faulty SessionIssuer: the API branch forgets the SetToken continuation.
IssuerWithoutContinueWith(f, methods) ==
    IF f.type = "api"
    THEN { HookOut(session, "abort", 1, FALSE, 0, FALSE) }
    ELSE { HookOut(session, IF f.json THEN "abort" ELSE "nil", IF f.json THEN 1 ELSE 0, TRUE, 0, FALSE) }

\* SessionIssuer.executePostRegistrationPostPersistHook.  API flows: when the
\* session came from OIDC without an ID token, MaybeRedirectAPICodeFlow may
\* fail, may redirect (handled: return nil) or may not apply; otherwise a
\* SetToken continuation and the body are written and the sentinel raised.
\* Browser flows: IssueCookie may fail; SPA (JSON) requests also get the body
\* and the sentinel.
ExecutePostRegistrationPostPersistHook(f, methods) ==
    IF f.type = "api"
    THEN (IF (\E m \in methods : m.method = "oidc") /\ ~f.idToken
          THEN { Returned(session, "error"),
                 HookOut(session, "nil", 1, FALSE, 0, TRUE) }
          ELSE {})
         \cup { HookOut(session, "abort", 1, FALSE, 1, FALSE) }
    ELSE { Returned(session, "error"),
           HookOut(session, IF f.json THEN "abort" ELSE "nil", IF f.json THEN 1 ELSE 0, TRUE, 0, FALSE) }

\* The post hook configured for each operation.
PostHook(r) ==
    CASE op[r] = "registration" -> ExecutePostRegistrationPostPersistHook(flow[r], ms[r])
      [] op[r] = "recovery"     -> ExecutePostRecoveryHook(who[r], sid[r])
      [] op[r] = "settings"     -> ExecuteSettingsPostPersistHook(who[r], sid[r])
      [] OTHER                  -> ExecuteLoginPostHook(who[r], sid[r])

-----------------------------------------------------------------------------
(* Requests.                                                               *)

Init ==
    /\ session = [s \in SessionId |-> NoRow]
    /\ created = 0
    /\ registered = {}
    /\ pc = [r \in Request |-> "idle"]
    /\ op = [r \in Request |-> "none"]
    /\ who = [r \in Request |-> None]
    /\ sid = [r \in Request |-> None]
    /\ ms = [r \in Request |-> {}]
    /\ flow = [r \in Request |-> BrowserFlow(1)]
    /\ hookOut = [r \in Request |-> "none"]
    /\ writes = [r \in Request |-> 0]
    /\ cookie = [r \in Request |-> FALSE]
    /\ setTokens = [r \in Request |-> 0]
    /\ redirect = [r \in Request |-> FALSE]
    /\ status = [r \in Request |-> "none"]
    /\ cuts = [i \in Identity |-> {}]

\* The request takes up operation o for identity i and session s.
Begin(r, o, i, s, m, f) ==
    /\ pc' = [pc EXCEPT ![r] = "persist"]
    /\ op' = [op EXCEPT ![r] = o]
    /\ who' = [who EXCEPT ![r] = i]
    /\ sid' = [sid EXCEPT ![r] = s]
    /\ ms' = [ms EXCEPT ![r] = m]
    /\ flow' = [flow EXCEPT ![r] = f]
    /\ UNCHANGED <<session, created, registered, hookOut, resp, cuts>>

\* The request answers with an error before any hook ran.
Fail(r, st) ==
    /\ pc' = [pc EXCEPT ![r] = "done"]
    /\ writes' = [writes EXCEPT ![r] = @ + 1]
    /\ status' = [status EXCEPT ![r] = st]
    /\ UNCHANGED <<cookie, setTokens, redirect>>

\* A registration submission by password or OIDC for identity i.
StartRegistration(r, i, st, f) ==
    /\ pc[r] = "idle" /\ "registration" \in Operation
    /\ \E s \in FreeIds :
          Begin(r, "registration", i, s, {CompletedAuthenticationMethod(st)}, f)

\* A first-factor login (the flow requests AAL1) for a registered identity;
\* a strategy completing another AAL is not responsible.
StartLogin(r, i, st) ==
    /\ pc[r] = "idle" /\ "login" \in Operation /\ i \in registered
    /\ IF CheckAAL(1, CompletedAuthenticationMethod(st).aal)
       THEN \E s \in FreeIds :
               Begin(r, "login", i, s, {CompletedAuthenticationMethod(st)}, BrowserFlow(1))
       ELSE /\ op' = [op EXCEPT ![r] = "login"]
            /\ Fail(r, "not_responsible")
            /\ UNCHANGED <<session, created, registered, who, sid, ms, flow, hookOut, cuts>>

\* Faulty refresh: the session is looked up without checking it is active.
StartRefreshAnySession(r, s, st, aal) ==
    /\ pc[r] = "idle" /\ "refresh" \in Operation /\ session[s].owner # None
    /\ IF CheckAAL(aal, CompletedAuthenticationMethod(st).aal)
       THEN Begin(r, "refresh", session[s].owner, s,
                  session[s].methods \cup {CompletedAuthenticationMethod(st)}, BrowserFlow(aal))
       ELSE /\ op' = [op EXCEPT ![r] = "refresh"]
            /\ Fail(r, "not_responsible")
            /\ UNCHANGED <<session, created, registered, who, sid, ms, flow, hookOut, cuts>>

\* A refresh or step-up login on the active session s: the session value is
\* read now and written back, with the new method, at Persist.
StartRefresh(r, s, st, aal) ==
    /\ pc[r] = "idle" /\ "refresh" \in Operation /\ s \in LiveSessions
    /\ IF CheckAAL(aal, CompletedAuthenticationMethod(st).aal)
       THEN Begin(r, "refresh", session[s].owner, s,
                  session[s].methods \cup {CompletedAuthenticationMethod(st)}, BrowserFlow(aal))
       ELSE /\ op' = [op EXCEPT ![r] = "refresh"]
            /\ Fail(r, "not_responsible")
            /\ UNCHANGED <<session, created, registered, who, sid, ms, flow, hookOut, cuts>>

\* A recovery by code for a registered identity; it issues a new session.
StartRecovery(r, i) ==
    /\ pc[r] = "idle" /\ "recovery" \in Operation /\ i \in registered
    /\ \E s \in FreeIds :
          Begin(r, "recovery", i, s, {CompletedAuthenticationMethod("code")}, BrowserFlow(1))

\* A settings update of the identity of the active session s.
StartSettings(r, s) ==
    /\ pc[r] = "idle" /\ "settings" \in Operation /\ s \in LiveSessions
    /\ Begin(r, "settings", session[s].owner, s, session[s].methods, BrowserFlow(1))

\* A new active session row for request r.
NewRow(r) == [owner |-> who[r], active |-> TRUE, methods |-> ms[r], born |-> created + 1]

\* Registration persists the identity and its session in one transaction;
\* a duplicate identity is a conflict.
PersistRegistration(r) ==
    /\ pc[r] = "persist" /\ op[r] = "registration"
    /\ IF who[r] \in registered
       THEN /\ Fail(r, "error")
            /\ UNCHANGED <<session, created, registered>>
       ELSE /\ registered' = registered \cup {who[r]}
            /\ session' = [session EXCEPT ![sid[r]] = NewRow(r)]
            /\ created' = created + 1
            /\ pc' = [pc EXCEPT ![r] = "hook"]
            /\ UNCHANGED resp
    /\ UNCHANGED <<op, who, sid, ms, flow, hookOut, cuts>>

\* Login and recovery upsert the session they issue.
CreateSession(r) ==
    /\ pc[r] = "persist" /\ op[r] \in {"login", "recovery"}
    /\ session' = [session EXCEPT ![sid[r]] = NewRow(r)]
    /\ created' = created + 1
    /\ pc' = [pc EXCEPT ![r] = "hook"]
    /\ UNCHANGED <<registered, op, who, sid, ms, flow, hookOut, resp, cuts>>

\* Refresh upserts the session value it read, activated and with the method
\* just completed: the whole row is written back.
WriteBackSession(r) ==
    /\ pc[r] = "persist" /\ op[r] = "refresh"
    /\ session' = [session EXCEPT ![sid[r]] =
                      [owner |-> @.owner, active |-> TRUE, methods |-> ms[r], born |-> @.born]]
    /\ pc' = [pc EXCEPT ![r] = "hook"]
    /\ UNCHANGED <<created, registered, op, who, sid, ms, flow, hookOut, resp, cuts>>

\* Settings persists the updated identity; sessions are untouched.
PersistSettings(r) ==
    /\ pc[r] = "persist" /\ op[r] = "settings"
    /\ pc' = [pc EXCEPT ![r] = "hook"]
    /\ UNCHANGED <<session, created, registered, op, who, sid, ms, flow, hookOut, resp, cuts>>

\* The executor runs the operation's post hook.  The ghost cuts records each
\* successful SessionDestroyer run: after it, no other session of the
\* identity created so far is active; stale is the refreshes that had read
\* their session and were still to write it back at that moment.
RunPostHook(r) ==
    /\ pc[r] = "hook"
    /\ \E o \in PostHook(r) :
          /\ session' = o.store
          /\ hookOut' = [hookOut EXCEPT ![r] = o.ret]
          /\ writes' = [writes EXCEPT ![r] = @ + o.writes]
          /\ cookie' = [cookie EXCEPT ![r] = o.cookie]
          /\ setTokens' = [setTokens EXCEPT ![r] = @ + o.setTokens]
          /\ redirect' = [redirect EXCEPT ![r] = o.redirect]
          /\ cuts' = IF o.ret = "nil" /\ op[r] # "registration"
                     THEN [cuts EXCEPT ![who[r]] = @ \cup {[n |-> created, keep |-> sid[r],
                                                             stale |-> PendingWriteBacks]}]
                     ELSE cuts
    /\ pc' = [pc EXCEPT ![r] = "respond"]
    /\ UNCHANGED <<created, registered, op, who, sid, ms, flow, status>>

\* The executor answers: the abort sentinel is suppressed (the hook already
\* wrote the response), an error is answered as an error, otherwise the
\* executor writes the flow's success response.
Respond(r) ==
    /\ pc[r] = "respond"
    /\ pc' = [pc EXCEPT ![r] = "done"]
    /\ status' = [status EXCEPT ![r] = IF hookOut[r] = "error" THEN "error" ELSE "ok"]
    /\ writes' = [writes EXCEPT ![r] = IF hookOut[r] = "abort" THEN @ ELSE @ + 1]
    /\ UNCHANGED <<session, created, registered, op, who, sid, ms, flow, hookOut, cuts,
                   cookie, setTokens, redirect>>

\* Every request has been answered: the run is over.
Terminating == (\A r \in Request : pc[r] = "done") /\ UNCHANGED vars

Next ==
    \E r \in Request :
        \/ \E i \in Identity, st \in {"password", "oidc"}, f \in RegistrationFlow :
              StartRegistration(r, i, st, f)
        \/ \E i \in Identity, st \in Strategy \ {"code"} : StartLogin(r, i, st)
        \/ \E s \in SessionId, st \in Strategy \ {"code"}, aal \in {1, 2} : StartRefresh(r, s, st, aal)
        \/ \E i \in Identity : StartRecovery(r, i)
        \/ \E s \in SessionId : StartSettings(r, s)
        \/ PersistRegistration(r)
        \/ CreateSession(r)
        \/ WriteBackSession(r)
        \/ PersistSettings(r)
        \/ RunPostHook(r)
        \/ Respond(r)
    \/ Terminating

Spec == Init /\ [][Next]_vars

-----------------------------------------------------------------------------
(* Properties.                                                             *)

TypeOK ==
    /\ session \in [SessionId -> Row]
    /\ created \in Nat
    /\ registered \subseteq Identity
    /\ pc \in [Request -> {"idle", "persist", "hook", "respond", "done"}]
    /\ op \in [Request -> Operation \cup {"none"}]
    /\ who \in [Request -> Identity \cup {None}]
    /\ sid \in [Request -> SessionId \cup {None}]
    /\ ms \in [Request -> SUBSET Method]
    /\ flow \in [Request -> Flow]
    /\ hookOut \in [Request -> {"none", "nil", "abort", "error"}]
    /\ writes \in [Request -> Nat]
    /\ cookie \in [Request -> BOOLEAN]
    /\ setTokens \in [Request -> Nat]
    /\ redirect \in [Request -> BOOLEAN]
    /\ status \in [Request -> Status]
    /\ cuts \in [Identity -> SUBSET Cut]

\* After SessionDestroyer revoked the other sessions of an identity (after a
\* login, recovery or settings change), none of the sessions that identity
\* had at that moment is active again, except the one the hook kept.
RevocationHonoured ==
    \A i \in Identity : \A c \in cuts[i] : \A x \in SessionId :
        (session[x].owner = i /\ session[x].active /\ session[x].born <= c.n) => x = c.keep

\* A session SessionDestroyer revoked is active again only through a refresh
\* login that had read it before the revocation and wrote it back after:
\* no login, recovery, settings change or later refresh revives it.
RevocationUndoneOnlyByStaleRefresh ==
    \A i \in Identity : \A c \in cuts[i] : \A x \in SessionId :
        (session[x].owner = i /\ session[x].active /\ session[x].born <= c.n /\ x # c.keep) =>
            \E q \in c.stale : sid[q] = x

\* A step that deactivates sessions is one post hook run, of a request acting
\* for the sessions' identity, and it never deactivates the request's own
\* session (RevokeSessionsIdentityExcept as the three handlers call it).
RevokeScope ==
    [][(\E x \in SessionId : session[x].active /\ ~session'[x].active) =>
         \E r \in Request :
            /\ pc[r] = "hook" /\ pc'[r] = "respond"
            /\ \A x \in SessionId :
                  session[x].active /\ ~session'[x].active => session[x].owner = who[r] /\ x # sid[r]
      ]_vars

\* Every request that finished has written a response: the abort sentinel is
\* only raised by a hook that wrote the response itself.
Answered == \A r \in Request : pc[r] = "done" => writes[r] >= 1

\* No request writes two responses (spec 4.4: a hook that produced the
\* response, redirect included, stops the pipeline).
AnsweredOnce == \A r \in Request : writes[r] <= 1

\* A registration that succeeds hands its session to the client the way the
\* flow type requires: browser and SPA flows get the cookie and no token,
\* API flows no cookie and one SetToken continuation (or the OIDC redirect).
SessionDeliveredPerVariant ==
    \A r \in Request :
        (op[r] = "registration" /\ pc[r] = "done" /\ status[r] = "ok") =>
            IF flow[r].type = "api"
            THEN ~cookie[r] /\ (setTokens[r] = 1 \/ redirect[r])
            ELSE cookie[r] /\ setTokens[r] = 0

\* The AAL a session's recorded methods give never drops: a completed method
\* is never lost from a live session.
AALNeverDecreases ==
    [][\A x \in SessionId :
          session[x].owner # None => AALOf(session'[x].methods) >= AALOf(session[x].methods)]_vars

\* Of the sessions SessionDestroyer kept for an identity, one is still active:
\* a login (or recovery, or settings change) that revoked the identity's
\* other sessions leaves the user signed in with the session it kept, even
\* when two such requests of the same identity run their hooks concurrently.
SomeKeptSessionActive ==
    \A i \in Identity : cuts[i] # {} => \E c \in cuts[i] : session[c.keep].active

=============================================================================
