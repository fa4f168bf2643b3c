--------------------- MODULE SessionHooks_response_proofs ---------------------
(***************************************************************************)
(* Proofs about what each request answers, for every choice of identities, *)
(* session ids and concurrent requests: every finished request wrote a     *)
(* response, and a successful registration delivers its session the way   *)
(* its flow type requires.                                                 *)
(*                                                                         *)
(* Both properties speak of finished requests only, so neither is          *)
(* inductive as it stands.  The strengthening ReqOK says, per request: a   *)
(* request waiting to answer after an abort has already written; it has no *)
(* SetToken before its hook runs, and a registration whose hook did not    *)
(* fail already carries the delivery its flow type requires.               *)
(***************************************************************************)
EXTENDS SessionHooks_proofs

\* UNCHANGED resp stands for its five response variables.
USE DEF resp

\* A request is answered only when it finishes; a finished request, and one
\* about to suppress the abort sentinel, wrote.
AnsweredOK(q) ==
    /\ pc[q] # "done" => status[q] = "none"
    /\ pc[q] = "done" => writes[q] >= 1
    /\ pc[q] = "respond" /\ hookOut[q] = "abort" => writes[q] >= 1

\* The session delivery a flow type requires (SessionDeliveredPerVariant).
Delivered(q) ==
    IF flow[q].type = "api"
    THEN ~cookie[q] /\ (setTokens[q] = 1 \/ redirect[q])
    ELSE cookie[q] /\ setTokens[q] = 0

\* No SetToken before the hook; a registration whose hook did not fail, and
\* one answered with success, delivered the session.
DeliveredOK(q) ==
    /\ pc[q] \in {"idle", "persist", "hook"} => setTokens[q] = 0
    /\ op[q] = "registration"
       /\ ((pc[q] = "respond" /\ hookOut[q] # "error") \/ (pc[q] = "done" /\ status[q] = "ok"))
       => Delivered(q)

ReqOK(q) == AnsweredOK(q) /\ DeliveredOK(q)

RespInv == TypeInv /\ \A q \in Request : ReqOK(q)

-----------------------------------------------------------------------------
(* Operator lemmas.                                                        *)

\* SessionIssuer raises the abort sentinel only after writing the body, and
\* unless it fails it delivers the session the way the flow type requires.
LEMMA IssuerDelivers ==
    ASSUME NEW f \in Flow, NEW methods,
           NEW o \in ExecutePostRegistrationPostPersistHook(f, methods)
    PROVE  /\ o.ret = "abort" => o.writes >= 1
           /\ o.ret # "error" =>
                 IF f.type = "api"
                 THEN ~o.cookie /\ (o.setTokens = 1 \/ o.redirect)
                 ELSE o.cookie /\ o.setTokens = 0
<1>1. CASE f.type = "api"
  <2>1. \/ o = Returned(session, "error")
        \/ o = HookOut(session, "nil", 1, FALSE, 0, TRUE)
        \/ o = HookOut(session, "abort", 1, FALSE, 1, FALSE)
    BY <1>1 DEF ExecutePostRegistrationPostPersistHook
  <2>2. QED
    BY <1>1, <2>1 DEF Returned, HookOut
<1>2. CASE f.type # "api"
  <2>1. \/ o = Returned(session, "error")
        \/ o = HookOut(session, IF f.json THEN "abort" ELSE "nil", IF f.json THEN 1 ELSE 0,
                       TRUE, 0, FALSE)
    BY <1>2 DEF ExecutePostRegistrationPostPersistHook
  <2>2. QED
    BY <1>2, <2>1 DEF Returned, HookOut
<1>3. QED
  BY <1>1, <1>2

\* Every post hook that raises the abort sentinel wrote the response.
LEMMA AbortWrote ==
    ASSUME TypeOK, NEW r \in Request, NEW o \in PostHook(r)
    PROVE  o.ret = "abort" => o.writes >= 1
<1>1. CASE op[r] = "registration"
  BY <1>1, IssuerDelivers DEF PostHook, TypeOK
<1>2. CASE op[r] # "registration"
  <2>1. o \in DestroyOthers(who[r], sid[r])
    BY <1>2 DEF PostHook, ExecutePostRecoveryHook, ExecuteSettingsPostPersistHook,
                ExecuteLoginPostHook
  <2>2. o.ret # "abort"
    BY <2>1 DEF DestroyOthers, Returned, HookOut
  <2>3. QED
    BY <2>2
<1>3. QED
  BY <1>1, <1>2

-----------------------------------------------------------------------------
(* Steps.  Each action changes the state of one request r: the others keep *)
(* every variable ReqOK reads.                                             *)

\* ReqOK(q) reads only request q's entries.
LEMMA Frame ==
    ASSUME NEW q \in Request, ReqOK(q),
           op'[q] = op[q], pc'[q] = pc[q], status'[q] = status[q], ms'[q] = ms[q],
           flow'[q] = flow[q], writes'[q] = writes[q], hookOut'[q] = hookOut[q],
           setTokens'[q] = setTokens[q], cookie'[q] = cookie[q], redirect'[q] = redirect[q]
    PROVE  ReqOK(q)'
BY DEF ReqOK, AnsweredOK, DeliveredOK, Delivered

\* Begin from idle.
LEMMA BeginOK ==
    ASSUME RespInv, NEW r \in Request, NEW o, NEW i, NEW s, NEW m, NEW f,
           pc[r] = "idle", Begin(r, o, i, s, m, f)
    PROVE  \A q \in Request : ReqOK(q)'
<1> SUFFICES ASSUME NEW q \in Request PROVE ReqOK(q)'
  OBVIOUS
<1>1. CASE q = r
  <2>1. setTokens[r] = 0 /\ status[r] = "none"
    BY DEF RespInv, ReqOK, DeliveredOK, AnsweredOK
  <2>2. /\ pc'[r] = "persist" /\ op'[r] = o /\ ms'[r] = m /\ flow'[r] = f
        /\ setTokens'[r] = setTokens[r] /\ status' = status
    BY DEF Begin, RespInv, TypeInv, TypeOK
  <2>3. QED
    BY <1>1, <2>1, <2>2 DEF ReqOK, AnsweredOK, DeliveredOK
<1>2. CASE q # r
  <2>1. /\ op'[q] = op[q] /\ pc'[q] = pc[q] /\ status'[q] = status[q] /\ ms'[q] = ms[q]
        /\ flow'[q] = flow[q] /\ writes'[q] = writes[q] /\ hookOut'[q] = hookOut[q]
        /\ setTokens'[q] = setTokens[q] /\ cookie'[q] = cookie[q] /\ redirect'[q] = redirect[q]
    BY <1>2 DEF Begin, RespInv, TypeInv, TypeOK
  <2>2. QED
    BY <2>1, Frame DEF RespInv
<1>3. QED
  BY <1>1, <1>2

\* An error answer before any hook: a refused login or refresh is answered
\* not_responsible, a registration conflict with an error.
LEMMA FailOK ==
    ASSUME RespInv, NEW r \in Request, NEW st \in {"error", "not_responsible"}, NEW o,
           Fail(r, st), op' = [op EXCEPT ![r] = o],
           o \in {"login", "refresh"} => st = "not_responsible",
           UNCHANGED <<ms, flow, hookOut>>
    PROVE  \A q \in Request : ReqOK(q)'
<1> SUFFICES ASSUME NEW q \in Request PROVE ReqOK(q)'
  OBVIOUS
<1>1. CASE q = r
  <2>1. writes'[r] >= 1 /\ pc'[r] = "done" /\ status'[r] = st /\ op'[r] = o
    BY DEF Fail, RespInv, TypeInv, TypeOK
  <2>2. QED
    BY <1>1, <2>1 DEF ReqOK, AnsweredOK, DeliveredOK
<1>2. CASE q # r
  <2>1. /\ op'[q] = op[q] /\ pc'[q] = pc[q] /\ status'[q] = status[q] /\ ms'[q] = ms[q]
        /\ flow'[q] = flow[q] /\ writes'[q] = writes[q] /\ hookOut'[q] = hookOut[q]
        /\ setTokens'[q] = setTokens[q] /\ cookie'[q] = cookie[q] /\ redirect'[q] = redirect[q]
    BY <1>2 DEF Fail, RespInv, TypeInv, TypeOK
  <2>2. QED
    BY <2>1, Frame DEF RespInv
<1>3. QED
  BY <1>1, <1>2

\* A persist step moves from persist to hook and leaves the answer alone.
LEMMA PersistOK ==
    ASSUME RespInv, NEW r \in Request, pc[r] = "persist", pc' = [pc EXCEPT ![r] = "hook"],
           UNCHANGED <<op, ms, flow, hookOut, resp>>
    PROVE  \A q \in Request : ReqOK(q)'
<1> SUFFICES ASSUME NEW q \in Request PROVE ReqOK(q)'
  OBVIOUS
<1>1. CASE q = r
  <2>1. pc'[r] = "hook"
    BY DEF RespInv, TypeInv, TypeOK
  <2>2. QED
    BY <1>1, <2>1 DEF RespInv, ReqOK, AnsweredOK, DeliveredOK
<1>2. CASE q # r
  <2>1. pc'[q] = pc[q]
    BY <1>2 DEF RespInv, TypeInv, TypeOK
  <2>2. QED
    BY <2>1, Frame DEF RespInv
<1>3. QED
  BY <1>1, <1>2

\* The post hook: the abort sentinel comes with a written body, and the
\* SessionIssuer's delivery is what the request now carries.
LEMMA HookOK ==
    ASSUME RespInv, NEW r \in Request, RunPostHook(r)
    PROVE  \A q \in Request : ReqOK(q)'
<1> SUFFICES ASSUME NEW q \in Request PROVE ReqOK(q)'
  OBVIOUS
<1>1. PICK o \in PostHook(r) :
          /\ hookOut' = [hookOut EXCEPT ![r] = o.ret]
          /\ writes' = [writes EXCEPT ![r] = @ + o.writes]
          /\ cookie' = [cookie EXCEPT ![r] = o.cookie]
          /\ setTokens' = [setTokens EXCEPT ![r] = @ + o.setTokens]
          /\ redirect' = [redirect EXCEPT ![r] = o.redirect]
  BY DEF RunPostHook
<1>2. /\ pc[r] = "hook" /\ pc' = [pc EXCEPT ![r] = "respond"]
      /\ UNCHANGED <<op, ms, flow, status>>
  BY DEF RunPostHook
<1>3. o \in HookResult
  BY HookOutcome DEF RespInv, TypeInv
<1>4. CASE q = r
  <2>1. /\ setTokens[r] = 0 /\ status[r] = "none"
        /\ writes[r] \in Nat /\ flow[r] \in Flow
    BY <1>2 DEF RespInv, TypeInv, TypeOK, ReqOK, AnsweredOK, DeliveredOK
  <2>2. /\ pc'[r] = "respond" /\ hookOut'[r] = o.ret /\ writes'[r] = writes[r] + o.writes
        /\ cookie'[r] = o.cookie /\ setTokens'[r] = o.setTokens /\ redirect'[r] = o.redirect
    BY <1>1, <1>2, <1>3, <2>1 DEF RespInv, TypeInv, TypeOK, HookResult
  <2>4. AnsweredOK(r)'
    <3>1. o.ret = "abort" => o.writes >= 1
      BY AbortWrote DEF RespInv, TypeInv
    <3>2. QED
      BY <1>2, <1>3, <2>1, <2>2, <3>1 DEF AnsweredOK, HookResult
  <2>5. DeliveredOK(r)'
    <3>1. CASE op[r] = "registration"
      <4>1. o \in ExecutePostRegistrationPostPersistHook(flow[r], ms[r])
        BY <3>1 DEF PostHook
      <4>2. QED
        BY <1>2, <2>1, <2>2, <3>1, <4>1, IssuerDelivers DEF DeliveredOK, Delivered
    <3>2. CASE op[r] # "registration"
      BY <1>2, <2>2, <3>2 DEF DeliveredOK
    <3>3. QED
      BY <3>1, <3>2
  <2>6. QED
    BY <1>4, <2>4, <2>5 DEF ReqOK
<1>5. CASE q # r
  <2>1. /\ op'[q] = op[q] /\ pc'[q] = pc[q] /\ status'[q] = status[q] /\ ms'[q] = ms[q]
        /\ flow'[q] = flow[q] /\ writes'[q] = writes[q] /\ hookOut'[q] = hookOut[q]
        /\ setTokens'[q] = setTokens[q] /\ cookie'[q] = cookie[q] /\ redirect'[q] = redirect[q]
    BY <1>1, <1>2, <1>5 DEF RespInv, TypeInv, TypeOK
  <2>2. QED
    BY <2>1, Frame DEF RespInv
<1>6. QED
  BY <1>4, <1>5

\* The executor's answer: success unless the hook failed, and a write unless
\* the hook raised the sentinel after writing.
LEMMA RespondOK ==
    ASSUME RespInv, NEW r \in Request, Respond(r)
    PROVE  \A q \in Request : ReqOK(q)'
<1> SUFFICES ASSUME NEW q \in Request PROVE ReqOK(q)'
  OBVIOUS
<1>1. /\ pc[r] = "respond" /\ pc' = [pc EXCEPT ![r] = "done"]
      /\ status' = [status EXCEPT ![r] = IF hookOut[r] = "error" THEN "error" ELSE "ok"]
      /\ writes' = [writes EXCEPT ![r] = IF hookOut[r] = "abort" THEN @ ELSE @ + 1]
      /\ UNCHANGED <<op, ms, flow, hookOut, cookie, setTokens, redirect>>
  BY DEF Respond
<1>2. CASE q = r
  <2>1. /\ ReqOK(r) /\ writes[r] \in Nat
    BY DEF RespInv, TypeInv, TypeOK
  <2>2. /\ pc'[r] = "done"
        /\ status'[r] = IF hookOut[r] = "error" THEN "error" ELSE "ok"
        /\ writes'[r] = IF hookOut[r] = "abort" THEN writes[r] ELSE writes[r] + 1
    BY <1>1, <2>1 DEF RespInv, TypeInv, TypeOK
  <2>3. QED
    BY <1>1, <1>2, <2>1, <2>2 DEF ReqOK, AnsweredOK, DeliveredOK, Delivered
<1>3. CASE q # r
  <2>1. /\ op'[q] = op[q] /\ pc'[q] = pc[q] /\ status'[q] = status[q] /\ ms'[q] = ms[q]
        /\ flow'[q] = flow[q] /\ writes'[q] = writes[q] /\ hookOut'[q] = hookOut[q]
        /\ setTokens'[q] = setTokens[q] /\ cookie'[q] = cookie[q] /\ redirect'[q] = redirect[q]
    BY <1>1, <1>3 DEF RespInv, TypeInv, TypeOK
  <2>2. QED
    BY <2>1, Frame DEF RespInv
<1>4. QED
  BY <1>2, <1>3

-----------------------------------------------------------------------------
(* The invariant.                                                          *)

LEMMA InitRespInv == Init => RespInv
<1> SUFFICES ASSUME Init PROVE RespInv
  OBVIOUS
<1>1. TypeInv
  BY InitTypeInv
<1>2. \A q \in Request : ReqOK(q)
  BY DEF Init, ReqOK, AnsweredOK, DeliveredOK
<1>3. QED
  BY <1>1, <1>2 DEF RespInv

LEMMA NextRespInv == RespInv /\ [Next]_vars => RespInv'
<1> SUFFICES ASSUME RespInv, [Next]_vars PROVE \A q \in Request : ReqOK(q)'
  BY NextTypeInv DEF RespInv
<1>1. ASSUME NEW r \in Request, NEW i \in Identity, NEW st \in {"password", "oidc"},
             NEW f \in RegistrationFlow, StartRegistration(r, i, st, f)
      PROVE  \A q \in Request : ReqOK(q)'
  BY <1>1, BeginOK DEF StartRegistration
<1>2. ASSUME NEW r \in Request, NEW i \in Identity, NEW st \in Strategy \ {"code"},
             StartLogin(r, i, st)
      PROVE  \A q \in Request : ReqOK(q)'
  <2> DEFINE M == CompletedAuthenticationMethod(st)
  <2>1. CASE CheckAAL(1, M.aal)
    BY <1>2, <2>1, BeginOK DEF StartLogin
  <2>2. CASE ~CheckAAL(1, M.aal)
    BY <1>2, <2>2, FailOK DEF StartLogin
  <2>3. QED
    BY <2>1, <2>2
<1>3. ASSUME NEW r \in Request, NEW s \in SessionId, NEW st \in Strategy \ {"code"},
             NEW aal \in {1, 2}, StartRefresh(r, s, st, aal)
      PROVE  \A q \in Request : ReqOK(q)'
  <2> DEFINE M == CompletedAuthenticationMethod(st)
  <2>1. CASE CheckAAL(aal, M.aal)
    BY <1>3, <2>1, BeginOK DEF StartRefresh
  <2>2. CASE ~CheckAAL(aal, M.aal)
    BY <1>3, <2>2, FailOK DEF StartRefresh
  <2>3. QED
    BY <2>1, <2>2
<1>4. ASSUME NEW r \in Request, NEW i \in Identity, StartRecovery(r, i)
      PROVE  \A q \in Request : ReqOK(q)'
  BY <1>4, BeginOK DEF StartRecovery
<1>5. ASSUME NEW r \in Request, NEW s \in SessionId, StartSettings(r, s)
      PROVE  \A q \in Request : ReqOK(q)'
  BY <1>5, BeginOK DEF StartSettings
<1>6. ASSUME NEW r \in Request, PersistRegistration(r)
      PROVE  \A q \in Request : ReqOK(q)'
  <2>1. CASE who[r] \in registered
    \* the conflict is answered with an error: op stays registration.
    <3>1. op' = [op EXCEPT ![r] = op[r]]
      BY <1>6 DEF PersistRegistration, RespInv, TypeInv, TypeOK
    <3>2. QED
      BY <1>6, <2>1, <3>1, FailOK DEF PersistRegistration
  <2>2. CASE who[r] \notin registered
    BY <1>6, <2>2, PersistOK DEF PersistRegistration
  <2>3. QED
    BY <2>1, <2>2
<1>7. ASSUME NEW r \in Request,
             CreateSession(r) \/ WriteBackSession(r) \/ PersistSettings(r)
      PROVE  \A q \in Request : ReqOK(q)'
  BY <1>7, PersistOK DEF CreateSession, WriteBackSession, PersistSettings
<1>8. ASSUME NEW r \in Request, RunPostHook(r) PROVE \A q \in Request : ReqOK(q)'
  BY <1>8, HookOK
<1>9. ASSUME NEW r \in Request, Respond(r) PROVE \A q \in Request : ReqOK(q)'
  BY <1>9, RespondOK
<1>10. CASE Terminating \/ UNCHANGED vars
  BY <1>10 DEF Terminating, vars, RespInv, ReqOK, AnsweredOK, DeliveredOK, Delivered
<1>11. QED
  BY <1>1, <1>2, <1>3, <1>4, <1>5, <1>6, <1>7, <1>8, <1>9, <1>10 DEF Next

-----------------------------------------------------------------------------
(* The theorems.                                                           *)

LEMMA AlwaysRespInv == Spec => []RespInv
BY InitRespInv, NextRespInv, PTL DEF Spec

\* Whatever the operations, flows and hook outcomes of any number of
\* concurrent requests, every request that finished wrote a response: the
\* executor suppresses its own write only after a hook raised the abort
\* sentinel, and every hook that raises it wrote the body first.
THEOREM EveryRequestAnswered == Spec => []Answered
<1>1. RespInv => Answered
  BY DEF RespInv, ReqOK, AnsweredOK, Answered
<1>2. QED
  BY <1>1, AlwaysRespInv, PTL

\* A registration answered with success delivered its session the way its
\* flow type requires: SessionIssuer sets the cookie (and no SetToken) for
\* browser and SPA flows, and a SetToken continuation or the OIDC redirect
\* (and no cookie) for API flows.
THEOREM RegistrationDelivery == Spec => []SessionDeliveredPerVariant
<1>1. RespInv => SessionDeliveredPerVariant
  BY DEF RespInv, ReqOK, DeliveredOK, Delivered, SessionDeliveredPerVariant
<1>2. QED
  BY <1>1, AlwaysRespInv, PTL

=============================================================================
