------------------------- MODULE SessionHooks_proofs -------------------------
(***************************************************************************)
(* Proofs about SessionHooks for every choice of identities, session ids   *)
(* and requests: the type invariant, and that a successful SessionDestroyer *)
(* revocation is undone only by a refresh that read its session before it. *)
(***************************************************************************)
EXTENDS SessionHooks, TLAPS

\* UNCHANGED resp stands for its five response variables.
USE DEF resp

\* Requests between strategy selection and their answer hold a session id,
\* and a registration holds the identity it registers.
SidBound ==
    \A r \in Request :
        pc[r] \in {"persist", "hook", "respond"} =>
            /\ sid[r] \in SessionId
            /\ op[r] = "registration" => who[r] \in Identity

TypeInv == TypeOK /\ SidBound

\* Every value a hook may yield.
HookResult == [store : [SessionId -> Row], ret : {"nil", "abort", "error"}, writes : Nat,
               cookie : BOOLEAN, setTokens : Nat, redirect : BOOLEAN]

\* The store left by a successful revocation.
RevokedStore(i, keep) ==
    [x \in SessionId |-> IF session[x].owner = i /\ x # keep
                         THEN [session[x] EXCEPT !.active = FALSE] ELSE session[x]]

\* Every strategy completes a method with AAL 1 or 2.
LEMMA MethodType == \A st \in Strategy : CompletedAuthenticationMethod(st) \in Method
BY DEF CompletedAuthenticationMethod, Method, Strategy, PasswordMethod, LookupMethod,
       TOTPMethod, WebAuthnMethod

\* A revocation leaves a well-typed store, and only deactivates sessions.
LEMMA RevokeOutcome ==
    ASSUME session \in [SessionId -> Row], NEW i, NEW keep,
           NEW o \in RevokeSessionsIdentityExcept(i, keep)
    PROVE  /\ o.store \in [SessionId -> Row]
           /\ o.err \in BOOLEAN
           /\ o.err => o.store = session
           /\ ~o.err => o.store = RevokedStore(i, keep)
<1>1. RevokedStore(i, keep) \in [SessionId -> Row]
  BY DEF RevokedStore, Row
<1>2. o = [store |-> RevokedStore(i, keep), err |-> FALSE] \/ o = [store |-> session, err |-> TRUE]
  BY DEF RevokeSessionsIdentityExcept, RevokedStore
<1>3. CASE o = [store |-> RevokedStore(i, keep), err |-> FALSE]
  BY <1>1, <1>3
<1>4. CASE o = [store |-> session, err |-> TRUE]
  BY <1>4
<1>5. QED
  BY <1>2, <1>3, <1>4

\* What a SessionDestroyer handler yields.
LEMMA DestroyOutcome ==
    ASSUME session \in [SessionId -> Row], NEW i, NEW keep,
           NEW o \in DestroyOthers(i, keep)
    PROVE  /\ o \in HookResult
           /\ o.ret # "nil" => o.store = session
           /\ o.ret = "nil" => o.store = RevokedStore(i, keep)
<1>1. PICK p \in RevokeSessionsIdentityExcept(i, keep) :
          o = Returned(p.store, IF p.err THEN "error" ELSE "nil")
  BY DEF DestroyOthers
<1>2. /\ p.store \in [SessionId -> Row]
      /\ p.err \in BOOLEAN
      /\ p.err => p.store = session
      /\ ~p.err => p.store = RevokedStore(i, keep)
  BY RevokeOutcome
<1>3. QED
  BY <1>1, <1>2 DEF Returned, HookOut, HookResult

\* What SessionIssuer yields: it never changes the store.
LEMMA IssuerOutcome ==
    ASSUME session \in [SessionId -> Row], NEW f \in Flow, NEW methods,
           NEW o \in ExecutePostRegistrationPostPersistHook(f, methods)
    PROVE  o \in HookResult /\ o.store = session
<1>1. \A ret \in {"nil", "abort", "error"}, w \in Nat, c \in BOOLEAN, t \in Nat, rd \in BOOLEAN :
          HookOut(session, ret, w, c, t, rd) \in HookResult
  BY DEF HookOut, HookResult
<1>2. \E ret \in {"nil", "abort", "error"}, w \in Nat, c \in BOOLEAN, t \in Nat, rd \in BOOLEAN :
          o = HookOut(session, ret, w, c, t, rd)
  BY DEF ExecutePostRegistrationPostPersistHook, Returned
<1>3. QED
  BY <1>1, <1>2 DEF HookOut

\* What the post hook of a request yields.
LEMMA HookOutcome ==
    ASSUME TypeOK, NEW r \in Request, NEW o \in PostHook(r)
    PROVE  /\ o \in HookResult
           /\ (op[r] = "registration" \/ o.ret # "nil") => o.store = session
           /\ (op[r] # "registration" /\ o.ret = "nil") => o.store = RevokedStore(who[r], sid[r])
<1>1. CASE op[r] = "registration"
  BY <1>1, IssuerOutcome DEF PostHook, TypeOK
<1>2. CASE op[r] # "registration"
  <2>1. o \in DestroyOthers(who[r], sid[r])
    BY <1>2 DEF PostHook, ExecutePostRecoveryHook, ExecuteSettingsPostPersistHook,
                ExecuteLoginPostHook
  <2>2. QED
    BY <1>2, <2>1, DestroyOutcome DEF TypeOK
<1>3. QED
  BY <1>1, <1>2

-----------------------------------------------------------------------------
(* Type correctness.                                                       *)

LEMMA InitTypeInv == Init => TypeInv
BY DEF Init, TypeInv, TypeOK, SidBound, Row, NoRow, Flow, BrowserFlow, Status

\* Taking up an operation keeps the types: the session id comes from the pool.
LEMMA BeginType ==
    ASSUME TypeInv, NEW r \in Request, NEW o \in Operation, NEW i \in Identity \cup {None},
           NEW s \in SessionId, NEW m \in SUBSET Method, NEW f \in Flow,
           o = "registration" => i \in Identity,
           Begin(r, o, i, s, m, f)
    PROVE  TypeInv'
BY DEF Begin, TypeInv, TypeOK, SidBound

\* Answering with an error before any hook keeps the types.
LEMMA FailType ==
    ASSUME TypeInv, NEW r \in Request, NEW st \in {"error", "not_responsible"},
           NEW o \in Operation \cup {"none"},
           Fail(r, st), op' = [op EXCEPT ![r] = o],
           UNCHANGED <<session, created, registered, who, sid, ms, flow, hookOut, cuts>>
    PROVE  TypeInv'
BY DEF Fail, TypeInv, TypeOK, SidBound, Status

LEMMA NextTypeInv ==
    ASSUME TypeInv, [Next]_vars
    PROVE  TypeInv'
<1>a. /\ \A st \in Strategy : CompletedAuthenticationMethod(st) \in Method
      /\ \A a \in {1, 2} : BrowserFlow(a) \in Flow
  BY MethodType DEF BrowserFlow, Flow
<1>1. ASSUME NEW r \in Request, NEW i \in Identity, NEW st \in {"password", "oidc"},
             NEW f \in RegistrationFlow, StartRegistration(r, i, st, f)
      PROVE  TypeInv'
  BY <1>a, <1>1, BeginType DEF StartRegistration, RegistrationFlow, FreeIds, Strategy
<1>2. ASSUME NEW r \in Request, NEW i \in Identity, NEW st \in Strategy \ {"code"},
             StartLogin(r, i, st)
      PROVE  TypeInv'
  <2>1. CASE CheckAAL(1, CompletedAuthenticationMethod(st).aal)
    BY <1>a, <1>2, <2>1, BeginType DEF StartLogin, FreeIds
  <2>2. CASE ~CheckAAL(1, CompletedAuthenticationMethod(st).aal)
    BY <1>2, <2>2, FailType DEF StartLogin
  <2>3. QED
    BY <2>1, <2>2
<1>3. ASSUME NEW r \in Request, NEW s \in SessionId, NEW st \in Strategy \ {"code"},
             NEW aal \in {1, 2}, StartRefresh(r, s, st, aal)
      PROVE  TypeInv'
  <2>1. CASE CheckAAL(aal, CompletedAuthenticationMethod(st).aal)
    <3>1. /\ session[s].owner \in Identity \cup {None}
          /\ session[s].methods \cup {CompletedAuthenticationMethod(st)} \in SUBSET Method
      BY <1>a DEF TypeInv, TypeOK, Row
    <3>2. QED
      BY <1>a, <1>3, <2>1, <3>1, BeginType DEF StartRefresh
  <2>4. CASE ~CheckAAL(aal, CompletedAuthenticationMethod(st).aal)
    BY <1>3, <2>4, FailType DEF StartRefresh
  <2>5. QED
    BY <2>1, <2>4
<1>4. ASSUME NEW r \in Request, NEW i \in Identity, StartRecovery(r, i)
      PROVE  TypeInv'
  BY <1>a, <1>4, BeginType DEF StartRecovery, FreeIds, Strategy
<1>5. ASSUME NEW r \in Request, NEW s \in SessionId, StartSettings(r, s)
      PROVE  TypeInv'
  <2>1. session[s].owner \in Identity \cup {None} /\ session[s].methods \in SUBSET Method
    BY DEF TypeInv, TypeOK, Row
  <2>2. QED
    BY <1>a, <1>5, <2>1, BeginType DEF StartSettings
<1>6. ASSUME NEW r \in Request, PersistRegistration(r) PROVE TypeInv'
  <2>1. NewRow(r) \in Row
    BY DEF NewRow, Row, TypeInv, TypeOK
  <2>2. CASE who[r] \in registered
    BY <1>6, <2>2 DEF PersistRegistration, Fail, TypeInv, TypeOK, SidBound, Status
  <2>3. CASE who[r] \notin registered
    <3>1. who[r] \in Identity
      BY <1>6 DEF PersistRegistration, TypeInv, SidBound
    <3>2. QED
      BY <1>6, <2>1, <2>3, <3>1 DEF PersistRegistration, TypeInv, TypeOK, SidBound
  <2>4. QED
    BY <2>2, <2>3
<1>7. ASSUME NEW r \in Request, CreateSession(r) PROVE TypeInv'
  <2>1. NewRow(r) \in Row
    BY DEF NewRow, Row, TypeInv, TypeOK
  <2>2. QED
    BY <1>7, <2>1 DEF CreateSession, TypeInv, TypeOK, SidBound
<1>8. ASSUME NEW r \in Request, WriteBackSession(r) PROVE TypeInv'
  BY <1>8 DEF WriteBackSession, TypeInv, TypeOK, SidBound, Row
<1>9. ASSUME NEW r \in Request, PersistSettings(r) PROVE TypeInv'
  BY <1>9 DEF PersistSettings, TypeInv, TypeOK, SidBound
<1>10. ASSUME NEW r \in Request, RunPostHook(r) PROVE TypeInv'
  <2>1. PICK o \in PostHook(r) :
          /\ session' = o.store
          /\ hookOut' = [hookOut EXCEPT ![r] = o.ret]
          /\ writes' = [writes EXCEPT ![r] = @ + o.writes]
          /\ cookie' = [cookie EXCEPT ![r] = o.cookie]
          /\ setTokens' = [setTokens EXCEPT ![r] = @ + o.setTokens]
          /\ redirect' = [redirect EXCEPT ![r] = o.redirect]
          /\ cuts' = IF o.ret = "nil" /\ op[r] # "registration"
                     THEN [cuts EXCEPT ![who[r]] = @ \cup {[n |-> created, keep |-> sid[r],
                                                             stale |-> PendingWriteBacks]}]
                     ELSE cuts
    BY <1>10 DEF RunPostHook
  <2>2. o \in HookResult
    BY HookOutcome DEF TypeInv
  <2>3. [n |-> created, keep |-> sid[r], stale |-> PendingWriteBacks] \in Cut
    BY <1>10 DEF RunPostHook, TypeInv, TypeOK, SidBound, Cut, PendingWriteBacks
  <2>4. cuts' \in [Identity -> SUBSET Cut]
    BY <2>1, <2>3 DEF TypeInv, TypeOK
  <2>5. QED
    BY <1>10, <2>1, <2>2, <2>4 DEF RunPostHook, TypeInv, TypeOK, SidBound, HookResult
<1>11. ASSUME NEW r \in Request, Respond(r) PROVE TypeInv'
  BY <1>11 DEF Respond, TypeInv, TypeOK, SidBound, Status
<1>12. CASE Terminating \/ UNCHANGED vars
  BY <1>12 DEF Terminating, vars, TypeInv, TypeOK, SidBound
<1>13. QED
  BY <1>1, <1>2, <1>3, <1>4, <1>5, <1>6, <1>7, <1>8, <1>9, <1>10, <1>11, <1>12 DEF Next

\* The type invariant: every variable keeps the shape its handler gives it.
THEOREM TypeCorrect == Spec => []TypeOK
<1>1. Init => TypeInv
  BY InitTypeInv
<1>2. TypeInv /\ [Next]_vars => TypeInv'
  BY NextTypeInv
<1>3. TypeInv => TypeOK
  BY DEF TypeInv
<1>4. QED
  BY <1>1, <1>2, <1>3, PTL DEF Spec

-----------------------------------------------------------------------------
(* A successful SessionDestroyer revocation is undone only by a stale      *)
(* refresh.  Inductive strengthening: every cut was taken before the       *)
(* sessions created since; the refreshes it recorded had started, so their *)
(* session ids no longer change; and a refresh still to write back a       *)
(* session the cut covers is matched by a refresh the cut recorded.        *)

CutsBelowCreated == \A i \in Identity : \A c \in cuts[i] : c.n <= created

StaleStarted == \A i \in Identity : \A c \in cuts[i] : \A q \in c.stale : pc[q] # "idle"

PendingCovered ==
    \A i \in Identity : \A c \in cuts[i] : \A q \in PendingWriteBacks :
        (session[sid[q]].owner = i /\ session[sid[q]].born <= c.n /\ sid[q] # c.keep) =>
            \E q2 \in c.stale : sid[q2] = sid[q]

RevInv ==
    /\ TypeInv /\ CutsBelowCreated /\ StaleStarted /\ PendingCovered
    /\ RevocationUndoneOnlyByStaleRefresh

\* A revoked row keeps its owner and creation stamp, is active only if it was,
\* and the only active row of the identity left is the kept one.
LEMMA RevokedRow ==
    ASSUME session \in [SessionId -> Row], NEW i, NEW keep, NEW x \in SessionId
    PROVE  /\ RevokedStore(i, keep)[x].owner = session[x].owner
           /\ RevokedStore(i, keep)[x].born = session[x].born
           /\ RevokedStore(i, keep)[x].active => session[x].active
           /\ (RevokedStore(i, keep)[x].active /\ session[x].owner = i) => x = keep
BY DEF RevokedStore, Row

LEMMA InitRevInv == Init => RevInv
BY InitTypeInv DEF Init, RevInv, CutsBelowCreated, StaleStarted, PendingCovered,
                   RevocationUndoneOnlyByStaleRefresh

\* A step that leaves the store and the cuts alone, and changes the place,
\* operation and session id of one request r only: r leaves "idle" for good,
\* keeps its session id once it has one, and waits to write back only a
\* session that is active, or one it was already waiting to write back.
LEMMA SessionsKept ==
    ASSUME RevInv, NEW r \in Request, UNCHANGED <<session, created, cuts>>,
           \A q \in Request \ {r} : pc'[q] = pc[q] /\ op'[q] = op[q] /\ sid'[q] = sid[q],
           pc'[r] # "idle",
           pc[r] # "idle" => sid'[r] = sid[r],
           r \in PendingWriteBacks' =>
               \/ sid'[r] \in LiveSessions
               \/ r \in PendingWriteBacks /\ sid'[r] = sid[r]
    PROVE  CutsBelowCreated' /\ StaleStarted' /\ PendingCovered'
           /\ RevocationUndoneOnlyByStaleRefresh'
<1>1. ASSUME NEW i \in Identity, NEW c \in cuts[i], NEW q \in c.stale
      PROVE  pc'[q] # "idle" /\ sid'[q] = sid[q]
  <2>1. pc[q] # "idle"
    BY DEF RevInv, StaleStarted
  <2>2. q \in Request
    BY DEF RevInv, TypeInv, TypeOK, Cut
  <2>3. QED
    BY <2>1, <2>2
<1>2. CutsBelowCreated' /\ StaleStarted'
  <2>1. CutsBelowCreated'
    BY DEF CutsBelowCreated, RevInv
  <2>2. StaleStarted'
    BY <1>1 DEF StaleStarted
  <2>3. QED
    BY <2>1, <2>2
<1>3. RevocationUndoneOnlyByStaleRefresh'
  <2>1. ASSUME NEW i \in Identity, NEW c \in cuts[i], NEW x \in SessionId,
               session[x].owner = i, session[x].active, session[x].born <= c.n, x # c.keep
        PROVE  \E q \in c.stale : sid'[q] = x
    <3>1. PICK q \in c.stale : sid[q] = x
      BY <2>1 DEF RevInv, RevocationUndoneOnlyByStaleRefresh
    <3>2. QED
      BY <1>1, <3>1
  <2>2. QED
    BY <2>1 DEF RevocationUndoneOnlyByStaleRefresh
<1>4. PendingCovered'
  <2>1. ASSUME NEW i \in Identity, NEW c \in cuts[i], NEW q \in PendingWriteBacks',
               session[sid'[q]].owner = i, session[sid'[q]].born <= c.n, sid'[q] # c.keep
        PROVE  \E q2 \in c.stale : sid'[q2] = sid'[q]
    <3>1. q \in Request
      BY DEF PendingWriteBacks
    <3>2. CASE q \in PendingWriteBacks /\ sid'[q] = sid[q]
      <4>1. PICK q2 \in c.stale : sid[q2] = sid[q]
        BY <2>1, <3>2 DEF RevInv, PendingCovered
      <4>2. QED
        BY <1>1, <3>2, <4>1
    <3>3. CASE q = r /\ sid'[r] \in LiveSessions
      <4>1. PICK q2 \in c.stale : sid[q2] = sid'[r]
        BY <2>1, <3>3 DEF RevInv, RevocationUndoneOnlyByStaleRefresh, LiveSessions
      <4>2. QED
        BY <1>1, <3>3, <4>1
    <3>4. q = r => (sid'[r] \in LiveSessions \/ (q \in PendingWriteBacks /\ sid'[q] = sid[q]))
      OBVIOUS
    <3>5. q # r => q \in PendingWriteBacks /\ sid'[q] = sid[q]
      BY <3>1 DEF PendingWriteBacks
    <3>6. QED
      BY <3>2, <3>3, <3>4, <3>5
  <2>2. QED
    BY <2>1 DEF PendingCovered
<1>5. QED
  BY <1>2, <1>3, <1>4

\* Persisting a new row for r at its free id, born after every cut, leaves
\* the revocations as they were.
LEMMA FreshRow ==
    ASSUME RevInv, NEW r \in Request, pc[r] = "persist", op[r] # "refresh",
           session' = [session EXCEPT ![sid[r]] = NewRow(r)], created' = created + 1,
           pc' = [pc EXCEPT ![r] = "hook"], UNCHANGED <<op, sid, cuts>>
    PROVE  CutsBelowCreated' /\ StaleStarted' /\ PendingCovered'
           /\ RevocationUndoneOnlyByStaleRefresh'
<1>1. sid[r] \in SessionId /\ created \in Nat /\ session \in [SessionId -> Row]
  BY DEF RevInv, TypeInv, TypeOK, SidBound
<1>2. \A i \in Identity : \A c \in cuts[i] : c.n \in Nat /\ c.n <= created
  BY DEF RevInv, CutsBelowCreated, TypeInv, TypeOK, Cut
<1>3. \A x \in SessionId : x # sid[r] => session'[x] = session[x]
  BY <1>1
<1>4. session'[sid[r]].born = created + 1
  BY <1>1 DEF NewRow
<1>5. CutsBelowCreated' /\ StaleStarted'
  <2>1. CutsBelowCreated'
    BY <1>1, <1>2 DEF CutsBelowCreated
  <2>2. ASSUME NEW i \in Identity, NEW c \in cuts[i], NEW q \in c.stale PROVE pc'[q] # "idle"
    <3>1. q \in Request /\ pc[q] # "idle"
      BY DEF RevInv, StaleStarted, TypeInv, TypeOK, Cut
    <3>2. pc'[q] = IF q = r THEN "hook" ELSE pc[q]
      BY <3>1 DEF RevInv, TypeInv, TypeOK
    <3>3. QED
      BY <3>1, <3>2
  <2>3. QED
    BY <2>1, <2>2 DEF StaleStarted
<1>6. RevocationUndoneOnlyByStaleRefresh'
  <2>1. ASSUME NEW i \in Identity, NEW c \in cuts[i], NEW x \in SessionId,
               session'[x].owner = i, session'[x].active, session'[x].born <= c.n, x # c.keep
        PROVE  \E q \in c.stale : sid[q] = x
    <3>1. x # sid[r]
      BY <1>1, <1>2, <1>4, <2>1
    <3>2. QED
      BY <1>3, <2>1, <3>1 DEF RevInv, RevocationUndoneOnlyByStaleRefresh
  <2>2. QED
    BY <2>1 DEF RevocationUndoneOnlyByStaleRefresh
<1>7. PendingCovered'
  <2>1. ASSUME NEW i \in Identity, NEW c \in cuts[i], NEW q \in PendingWriteBacks',
               session'[sid[q]].owner = i, session'[sid[q]].born <= c.n, sid[q] # c.keep
        PROVE  \E q2 \in c.stale : sid[q2] = sid[q]
    <3>1. q \in PendingWriteBacks
      BY DEF PendingWriteBacks
    <3>2. sid[q] \in SessionId
      BY <3>1 DEF PendingWriteBacks, RevInv, TypeInv, SidBound
    <3>3. sid[q] # sid[r]
      BY <1>1, <1>2, <1>4, <2>1
    <3>4. session'[sid[q]] = session[sid[q]]
      BY <1>3, <3>2, <3>3
    <3>5. QED
      BY <2>1, <3>1, <3>4 DEF RevInv, PendingCovered
  <2>2. QED
    BY <2>1 DEF PendingCovered
<1>8. QED
  BY <1>5, <1>6, <1>7

\* A refresh writing back the session it read, active again: the cut that
\* covers it recorded a refresh of that session.
LEMMA WriteBackRevInv ==
    ASSUME RevInv, NEW r \in Request, WriteBackSession(r)
    PROVE  CutsBelowCreated' /\ StaleStarted' /\ PendingCovered'
           /\ RevocationUndoneOnlyByStaleRefresh'
<1>1. /\ r \in PendingWriteBacks /\ sid[r] \in SessionId /\ session \in [SessionId -> Row]
      /\ session' = [session EXCEPT ![sid[r]].active = TRUE, ![sid[r]].methods = ms[r]]
  BY DEF WriteBackSession, PendingWriteBacks, RevInv, TypeInv, TypeOK, SidBound, Row
<1>2. \A x \in SessionId : session'[x].owner = session[x].owner /\ session'[x].born = session[x].born
                         /\ (x # sid[r] => session'[x] = session[x])
  BY <1>1
<1>3. pc' = [pc EXCEPT ![r] = "hook"] /\ UNCHANGED <<op, sid, cuts, created>>
  BY DEF WriteBackSession
<1>4. PendingWriteBacks' \subseteq PendingWriteBacks
  BY <1>3 DEF PendingWriteBacks
<1>5. CutsBelowCreated' /\ StaleStarted'
  BY <1>3 DEF CutsBelowCreated, StaleStarted, RevInv, TypeInv, TypeOK
<1>6. RevocationUndoneOnlyByStaleRefresh'
  <2>1. ASSUME NEW i \in Identity, NEW c \in cuts[i], NEW x \in SessionId,
               session'[x].owner = i, session'[x].active, session'[x].born <= c.n, x # c.keep
        PROVE  \E q \in c.stale : sid[q] = x
    <3>1. CASE x = sid[r]
      BY <1>1, <1>2, <2>1, <3>1 DEF RevInv, PendingCovered
    <3>2. CASE x # sid[r]
      BY <1>2, <2>1, <3>2 DEF RevInv, RevocationUndoneOnlyByStaleRefresh
    <3>3. QED
      BY <3>1, <3>2
  <2>2. QED
    BY <1>3, <2>1 DEF RevocationUndoneOnlyByStaleRefresh
<1>7. PendingCovered'
  <2>1. \A q \in PendingWriteBacks : sid[q] \in SessionId
    BY DEF PendingWriteBacks, RevInv, TypeInv, SidBound
  <2>2. QED
    BY <1>2, <1>3, <1>4, <2>1 DEF PendingCovered, RevInv
<1>8. QED
  BY <1>5, <1>6, <1>7

\* A post hook run either leaves store and cuts alone or is a successful
\* SessionDestroyer run that revokes and records its cut, with the refreshes
\* then waiting to write back as its stale set.
LEMMA HookRevInv ==
    ASSUME RevInv, NEW r \in Request, RunPostHook(r)
    PROVE  CutsBelowCreated' /\ StaleStarted' /\ PendingCovered'
           /\ RevocationUndoneOnlyByStaleRefresh'
<1> DEFINE new == [n |-> created, keep |-> sid[r], stale |-> PendingWriteBacks]
<1>1. PICK o \in PostHook(r) :
          /\ session' = o.store
          /\ cuts' = IF o.ret = "nil" /\ op[r] # "registration"
                     THEN [cuts EXCEPT ![who[r]] = @ \cup {new}]
                     ELSE cuts
  BY DEF RunPostHook
<1>2. /\ pc[r] = "hook" /\ pc' = [pc EXCEPT ![r] = "respond"]
      /\ UNCHANGED <<created, op, sid>>
  BY DEF RunPostHook
<1>3. /\ session \in [SessionId -> Row] /\ created \in Nat
      /\ pc \in [Request -> {"idle", "persist", "hook", "respond", "done"}]
  BY DEF RevInv, TypeInv, TypeOK
<1>4. PendingWriteBacks' = PendingWriteBacks
  BY <1>2, <1>3 DEF PendingWriteBacks
<1>5. \A q \in Request : pc[q] # "idle" => pc'[q] # "idle"
  BY <1>2, <1>3
<1>6. CASE op[r] = "registration" \/ o.ret # "nil"
  <2>1. session' = session /\ cuts' = cuts
    BY <1>1, <1>6, HookOutcome DEF RevInv, TypeInv
  <2>2. StaleStarted'
    BY <1>5, <2>1 DEF RevInv, StaleStarted, TypeInv, TypeOK, Cut
  <2>3. QED
    BY <1>2, <1>4, <2>1, <2>2 DEF RevInv, CutsBelowCreated, PendingCovered,
                                   RevocationUndoneOnlyByStaleRefresh
<1>7. CASE op[r] # "registration" /\ o.ret = "nil"
  <2>1. session' = RevokedStore(who[r], sid[r])
    BY <1>1, <1>7, HookOutcome DEF RevInv, TypeInv
  <2>2. \A i \in Identity : cuts'[i] = IF i = who[r] THEN cuts[i] \cup {new} ELSE cuts[i]
    BY <1>1, <1>7 DEF RevInv, TypeInv, TypeOK
  <2>3. \A x \in SessionId :
           /\ session'[x].owner = session[x].owner /\ session'[x].born = session[x].born
           /\ session'[x].active => session[x].active
           /\ (session'[x].active /\ session[x].owner = who[r]) => x = sid[r]
    BY <1>3, <2>1, RevokedRow
  <2>4. ASSUME NEW i \in Identity, NEW c \in cuts'[i]
        PROVE  c \in cuts[i] \/ (i = who[r] /\ c = new)
    BY <2>2
  <2>5. CutsBelowCreated'
    BY <1>2, <1>3, <2>4 DEF RevInv, CutsBelowCreated
  <2>6. StaleStarted'
    <3>1. ASSUME NEW i \in Identity, NEW c \in cuts'[i], NEW q \in c.stale
          PROVE  pc'[q] # "idle"
      <4>1. CASE c \in cuts[i]
        BY <1>5, <4>1 DEF RevInv, StaleStarted, TypeInv, TypeOK, Cut
      <4>2. CASE i = who[r] /\ c = new
        BY <1>5, <4>2 DEF PendingWriteBacks
      <4>3. QED
        BY <2>4, <4>1, <4>2
    <3>2. QED
      BY <3>1 DEF StaleStarted
  <2>7. RevocationUndoneOnlyByStaleRefresh'
    <3>1. ASSUME NEW i \in Identity, NEW c \in cuts'[i], NEW x \in SessionId,
                 session'[x].owner = i, session'[x].active, session'[x].born <= c.n,
                 x # c.keep
          PROVE  \E q \in c.stale : sid[q] = x
      <4>1. CASE c \in cuts[i]
        BY <2>3, <3>1, <4>1 DEF RevInv, RevocationUndoneOnlyByStaleRefresh
      <4>2. CASE i = who[r] /\ c = new
        BY <2>3, <3>1, <4>2
      <4>3. QED
        BY <2>4, <4>1, <4>2
    <3>2. QED
      BY <1>2, <3>1 DEF RevocationUndoneOnlyByStaleRefresh
  <2>8. PendingCovered'
    <3>1. ASSUME NEW i \in Identity, NEW c \in cuts'[i], NEW q \in PendingWriteBacks,
                 session'[sid[q]].owner = i, session'[sid[q]].born <= c.n, sid[q] # c.keep
          PROVE  \E q2 \in c.stale : sid[q2] = sid[q]
      <4>1. sid[q] \in SessionId
        BY DEF PendingWriteBacks, RevInv, TypeInv, SidBound
      <4>2. CASE c \in cuts[i]
        BY <2>3, <3>1, <4>1, <4>2 DEF RevInv, PendingCovered
      <4>3. CASE i = who[r] /\ c = new
        BY <3>1, <4>3
      <4>4. QED
        BY <2>4, <4>2, <4>3
    <3>2. QED
      BY <1>2, <1>4, <3>1 DEF PendingCovered
  <2>9. QED
    BY <2>5, <2>6, <2>7, <2>8
<1>8. QED
  BY <1>6, <1>7


\* The part of RevInv the steps below re-establish.
RevCore ==
    CutsBelowCreated /\ StaleStarted /\ PendingCovered /\ RevocationUndoneOnlyByStaleRefresh

\* A request moves on without touching the store: persisting settings,
\* answering, or failing.
LEMMA ProgressKept ==
    ASSUME RevInv, NEW r \in Request, NEW p \in {"hook", "respond", "done"},
           pc' = [pc EXCEPT ![r] = p], \A q \in Request \ {r} : op'[q] = op[q],
           UNCHANGED <<session, created, cuts, sid>>
    PROVE  RevCore'
<1>1. pc \in [Request -> {"idle", "persist", "hook", "respond", "done"}]
  BY DEF RevInv, TypeInv, TypeOK
<1>2. r \notin PendingWriteBacks' /\ pc'[r] # "idle"
  BY <1>1 DEF PendingWriteBacks
<1>3. \A q \in Request \ {r} : pc'[q] = pc[q] /\ op'[q] = op[q] /\ sid'[q] = sid[q]
  BY <1>1
<1>4. QED
  BY <1>2, <1>3, SessionsKept DEF RevCore

\* A request takes up an operation; a refresh only on an active session.
LEMMA BeginKept ==
    ASSUME RevInv, NEW r \in Request, pc[r] = "idle", NEW o, NEW i, NEW s, NEW m, NEW f,
           Begin(r, o, i, s, m, f), o = "refresh" => s \in LiveSessions
    PROVE  RevCore'
<1>1. /\ pc \in [Request -> {"idle", "persist", "hook", "respond", "done"}]
      /\ op \in [Request -> Operation \cup {"none"}]
      /\ sid \in [Request -> SessionId \cup {None}]
  BY DEF RevInv, TypeInv, TypeOK
<1>2. \A q \in Request \ {r} : pc'[q] = pc[q] /\ op'[q] = op[q] /\ sid'[q] = sid[q]
  BY <1>1 DEF Begin
<1>3. pc'[r] # "idle" /\ (r \in PendingWriteBacks' => sid'[r] \in LiveSessions)
  BY <1>1 DEF Begin, PendingWriteBacks, LiveSessions
<1>4. UNCHANGED <<session, created, cuts>>
  BY DEF Begin
<1>5. QED
  BY <1>2, <1>3, <1>4, SessionsKept DEF RevCore

\* Every step keeps RevInv, refresh write-backs included.
LEMMA NextRevInv ==
    ASSUME RevInv, [Next]_vars
    PROVE  RevInv'
<1>1. TypeInv'
  BY NextTypeInv DEF RevInv
<1>2. SUFFICES RevCore'
  BY <1>1 DEF RevInv, RevCore
<1>3. ASSUME NEW r \in Request, pc[r] = "idle", NEW o,
             Fail(r, "not_responsible"), op' = [op EXCEPT ![r] = o],
             UNCHANGED <<session, created, registered, who, sid, ms, flow, hookOut, cuts>>
      PROVE  RevCore'
  <2>1. \A q \in Request \ {r} : op'[q] = op[q]
    BY <1>3 DEF RevInv, TypeInv, TypeOK
  <2>2. QED
    BY <1>3, <2>1, ProgressKept DEF Fail
<1>4. ASSUME NEW r \in Request, NEW i \in Identity, NEW st \in {"password", "oidc"},
             NEW f \in RegistrationFlow, StartRegistration(r, i, st, f)
      PROVE  RevCore'
  BY <1>4, BeginKept DEF StartRegistration
<1>5. ASSUME NEW r \in Request, NEW i \in Identity, NEW st \in Strategy \ {"code"},
             StartLogin(r, i, st)
      PROVE  RevCore'
  <2>1. CASE CheckAAL(1, CompletedAuthenticationMethod(st).aal)
    BY <1>5, <2>1, BeginKept DEF StartLogin
  <2>2. CASE ~CheckAAL(1, CompletedAuthenticationMethod(st).aal)
    BY <1>5, <2>2, <1>3 DEF StartLogin
  <2>3. QED
    BY <2>1, <2>2
<1>6. ASSUME NEW r \in Request, NEW s \in SessionId, NEW st \in Strategy \ {"code"},
             NEW aal \in {1, 2}, StartRefresh(r, s, st, aal)
      PROVE  RevCore'
  <2>1. CASE CheckAAL(aal, CompletedAuthenticationMethod(st).aal)
    BY <1>6, <2>1, BeginKept DEF StartRefresh
  <2>2. CASE ~CheckAAL(aal, CompletedAuthenticationMethod(st).aal)
    BY <1>6, <2>2, <1>3 DEF StartRefresh
  <2>3. QED
    BY <2>1, <2>2
<1>7. ASSUME NEW r \in Request, NEW i \in Identity, StartRecovery(r, i) PROVE RevCore'
  BY <1>7, BeginKept DEF StartRecovery
<1>8. ASSUME NEW r \in Request, NEW s \in SessionId, StartSettings(r, s) PROVE RevCore'
  BY <1>8, BeginKept DEF StartSettings
<1>9. ASSUME NEW r \in Request, PersistRegistration(r) PROVE RevCore'
  <2>1. CASE who[r] \in registered
    <3>1. \A q \in Request \ {r} : op'[q] = op[q]
      BY <1>9 DEF PersistRegistration
    <3>2. QED
      BY <1>9, <2>1, <3>1, ProgressKept DEF PersistRegistration, Fail
  <2>2. CASE who[r] \notin registered
    BY <1>9, <2>2, FreshRow DEF PersistRegistration, RevCore
  <2>3. QED
    BY <2>1, <2>2
<1>10. ASSUME NEW r \in Request, CreateSession(r) PROVE RevCore'
  BY <1>10, FreshRow DEF CreateSession, RevCore
<1>11. ASSUME NEW r \in Request, WriteBackSession(r) PROVE RevCore'
  BY <1>11, WriteBackRevInv DEF RevCore
<1>12. ASSUME NEW r \in Request, PersistSettings(r) PROVE RevCore'
  BY <1>12, ProgressKept DEF PersistSettings
<1>13. ASSUME NEW r \in Request, RunPostHook(r) PROVE RevCore'
  BY <1>13, HookRevInv DEF RevCore
<1>14. ASSUME NEW r \in Request, Respond(r) PROVE RevCore'
  BY <1>14, ProgressKept DEF Respond
<1>15. CASE Terminating \/ UNCHANGED vars
  BY <1>15 DEF Terminating, vars, RevInv, RevCore, CutsBelowCreated, StaleStarted,
               PendingCovered, PendingWriteBacks, RevocationUndoneOnlyByStaleRefresh
<1>16. QED
  BY <1>4, <1>5, <1>6, <1>7, <1>8, <1>9, <1>10, <1>11, <1>12, <1>13, <1>14, <1>15 DEF Next

\* For any identities, sessions and concurrent requests, with every
\* operation enabled: once SessionDestroyer has revoked the other sessions
\* of an identity (after a login, a recovery or a settings change), such a
\* session is active again only because a refresh login that had read it
\* before the revocation wrote it back afterwards.
THEOREM RevocationStaysInForce == Spec => []RevocationUndoneOnlyByStaleRefresh
<1>1. Init => RevInv
  BY InitRevInv
<1>2. RevInv /\ [Next]_vars => RevInv'
  BY NextRevInv
<1>3. RevInv => RevocationUndoneOnlyByStaleRefresh
  BY DEF RevInv
<1>4. QED
  BY <1>1, <1>2, <1>3, PTL DEF Spec

-----------------------------------------------------------------------------
(* Which steps revoke.  Every persist step writes an active row, so only a *)
(* post hook can deactivate a session; it is SessionDestroyer's revocation *)
(* of the identity's other sessions.                                       *)

\* The step RevokeScope constrains.
RevokeStep ==
    (\E x \in SessionId : session[x].active /\ ~session'[x].active) =>
        \E r \in Request :
           /\ pc[r] = "hook" /\ pc'[r] = "respond"
           /\ \A x \in SessionId :
                 session[x].active /\ ~session'[x].active => session[x].owner = who[r] /\ x # sid[r]

\* Nothing is deactivated.
NoneRevoked == \A x \in SessionId : session[x].active => session'[x].active

\* A revoked store deactivates only other sessions of the identity.
LEMMA RevokedOnly ==
    ASSUME session \in [SessionId -> Row], NEW i, NEW keep, NEW x \in SessionId,
           session[x].active, ~RevokedStore(i, keep)[x].active
    PROVE  session[x].owner = i /\ x # keep
BY DEF RevokedStore, Row

LEMMA StepRevokeStep ==
    ASSUME TypeInv, [Next]_vars
    PROVE  RevokeStep
<1>1. ASSUME NEW r \in Request, RunPostHook(r) PROVE RevokeStep
  <2>1. PICK o \in PostHook(r) : session' = o.store
    BY <1>1 DEF RunPostHook
  <2>2. pc[r] = "hook" /\ pc'[r] = "respond"
    BY <1>1 DEF RunPostHook, TypeInv, TypeOK
  <2>3. CASE o.store = session
    BY <2>1, <2>3 DEF RevokeStep
  <2>4. CASE o.store # session
    <3>1. session' = RevokedStore(who[r], sid[r])
      BY <2>1, <2>4, HookOutcome DEF TypeInv
    <3>2. QED
      BY <2>2, <3>1, RevokedOnly DEF RevokeStep, TypeInv, TypeOK
  <2>5. QED
    BY <2>3, <2>4
<1>2. ASSUME NEW r \in Request, PersistRegistration(r) \/ CreateSession(r) \/ WriteBackSession(r)
      PROVE  NoneRevoked
  \* the row written at the request's session id is active.
  BY <1>2 DEF PersistRegistration, CreateSession, WriteBackSession, NewRow, NoneRevoked,
              TypeInv, TypeOK
<1>3. ASSUME NEW r \in Request,
             \/ \E i \in Identity, st \in {"password", "oidc"}, f \in RegistrationFlow :
                   StartRegistration(r, i, st, f)
             \/ \E i \in Identity, st \in Strategy \ {"code"} : StartLogin(r, i, st)
             \/ \E s \in SessionId, st \in Strategy \ {"code"}, aal \in {1, 2} :
                   StartRefresh(r, s, st, aal)
             \/ \E i \in Identity : StartRecovery(r, i)
             \/ \E s \in SessionId : StartSettings(r, s)
             \/ PersistSettings(r)
             \/ Respond(r)
      PROVE  NoneRevoked
  BY <1>3 DEF StartRegistration, StartLogin, StartRefresh, StartRecovery, StartSettings,
              Begin, PersistSettings, Respond, NoneRevoked
<1>4. CASE Terminating \/ UNCHANGED vars
  <2>1. session' = session
    BY <1>4 DEF Terminating, vars
  <2>2. QED
    BY <2>1 DEF RevokeStep
<1>5. NoneRevoked => RevokeStep
  BY DEF NoneRevoked, RevokeStep
<1>6. QED
  BY <1>1, <1>2, <1>3, <1>4, <1>5 DEF Next

\* For any identities, session ids and concurrent requests, a step that
\* deactivates sessions is a post hook run of a request acting for their
\* identity, and it never deactivates that request's own session: the
\* persist steps only write active rows, and SessionDestroyer's revocation
\* spares the session the request keeps.
THEOREM RevocationScoped == Spec => RevokeScope
<1>1. Spec => []TypeInv
  BY InitTypeInv, NextTypeInv, PTL DEF Spec
<1>2. TypeInv /\ [Next]_vars => [RevokeStep]_vars
  BY StepRevokeStep
<1>3. QED
  BY <1>1, <1>2, PTL DEF Spec, RevokeScope, RevokeStep

=============================================================================
