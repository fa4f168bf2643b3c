--------------------------- MODULE RpcRouter_proofs ---------------------------
(***************************************************************************)
(* RouterComplete for any number of injector calls: hdlOnce makes every    *)
(* caller NewRouter returns to receive the one map, with getHistory        *)
(* registered.  The invariant is not inductive by itself: it needs that a  *)
(* returned caller implies done, that done implies the map is complete,    *)
(* and that the callers inside f hold m while done is still false (so no   *)
(* caller has returned yet when the map variable is replaced).             *)
(***************************************************************************)
EXTENDS RpcRouter, TLAPS

\* The shape of the state the proofs need, beyond TypeOK: routes is a map
\* per caller.
Shape == TypeOK /\ DOMAIN routes = Caller

\* A caller NewRouter returned to: done is set and it holds the map.
ReturnedHoldMap == \A c \in Caller : pc[c] = "done" => done /\ got[c] = router

\* Once done is set, the map exists and routes getHistory.
DoneComplete == done => router \in Caller /\ "getHistory" \in DOMAIN routes[router]

\* A caller running f holds m, before done is set; filling, it owns the map.
InOnce ==
    \A c \in Caller :
        /\ pc[c] \in {"make", "route"} => holder = c /\ ~done
        /\ pc[c] = "route" => router = c

IInv == Shape /\ ReturnedHoldMap /\ DoneComplete /\ InOnce

LEMMA InitIInv == Init => IInv
BY DEF Init, IInv, Shape, TypeOK, ReturnedHoldMap, DoneComplete, InOnce

LEMMA NextIInv == IInv /\ [Next]_vars => IInv'
<1> SUFFICES ASSUME IInv, [Next]_vars PROVE IInv'
    OBVIOUS
<1> USE RouterAssumption DEF IInv, Shape, TypeOK, ReturnedHoldMap, DoneComplete, InOnce
<1>1. ASSUME NEW c \in Caller, InitializeNewRmqRpcServer(c) PROVE IInv'
    BY <1>1 DEF InitializeNewRmqRpcServer
<1>2. ASSUME NEW c \in Caller, InitializeNewRmqRpcServerForTesting(c) PROVE IInv'
    BY <1>2 DEF InitializeNewRmqRpcServerForTesting
<1>3. ASSUME NEW c \in Caller, Do(c) PROVE IInv'
    <2>1. CASE done
        BY <1>3, <2>1 DEF Do, Return
    <2>2. CASE ~done
        BY <1>3, <2>2 DEF Do
    <2>3. QED
        BY <2>1, <2>2
<1>4. ASSUME NEW c \in Caller, doSlow(c) PROVE IInv'
    <2>1. CASE done
        BY <1>4, <2>1 DEF doSlow, Return
    <2>2. CASE ~done
        BY <1>4, <2>2 DEF doSlow
    <2>3. QED
        BY <2>1, <2>2
<1>5. ASSUME NEW c \in Caller, MakeRouter(c) PROVE IInv'
    \* done is false, so no caller has returned whose map could change.
    <2>1. holder = c /\ ~done
        BY <1>5 DEF MakeRouter
    <2>2. \A d \in Caller : pc[d] # "done"
        BY <2>1
    <2>3. QED
        BY <1>5, <2>1, <2>2 DEF MakeRouter
<1>6. ASSUME NEW c \in Caller, newTranslationRoutes(c) PROVE IInv'
    \* c owns m and the map; nobody else is inside f.
    <2>1. holder = c /\ ~done /\ router = c
        BY <1>6 DEF newTranslationRoutes
    <2>2. \A d \in Caller : d # c => pc[d] \notin {"make", "route"}
        BY <2>1
    <2>3. "getHistory" \in DOMAIN routes'[router']
        BY <1>6, <2>1 DEF newTranslationRoutes
    <2>4. QED
        BY <1>6, <2>1, <2>2, <2>3 DEF newTranslationRoutes, Return
<1>7. CASE Terminating
    BY <1>7 DEF Terminating, vars
<1>8. CASE UNCHANGED vars
    BY <1>8 DEF vars
<1>9. QED
    BY <1>1, <1>2, <1>3, <1>4, <1>5, <1>6, <1>7, <1>8 DEF Next

LEMMA IInvComplete == IInv => RouterComplete
BY DEF IInv, ReturnedHoldMap, DoneComplete, RouterComplete

\* Whatever the number of concurrent injector calls and however they
\* interleave inside hdlOnce.Do, every caller NewRouter has returned to
\* holds the package-level map, and that map routes getHistory.
THEOREM RouterAlwaysComplete == Spec => []RouterComplete
<1>1. Spec => []IInv
    BY InitIInv, NextIInv, PTL DEF Spec
<1>2. QED
    BY <1>1, IInvComplete, PTL

=============================================================================
