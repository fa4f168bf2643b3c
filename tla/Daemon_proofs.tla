---------------------------- MODULE Daemon_proofs ----------------------------
(***************************************************************************)
(* FailureReported for every run of ServeAll: the errgroup keeps the first *)
(* non-nil error a goroutine returns, and only context.Canceled is         *)
(* filtered, so a failure is never lost.  The inductive invariant says     *)
(* that the group's error is set as soon as something failed, and that     *)
(* ServeAll returned the group's error once every goroutine was done (so   *)
(* no goroutine can change it afterwards).                                  *)
(***************************************************************************)
EXTENDS Daemon, TLAPS

\* errgroup's first error is set as soon as a goroutine's work failed.
ErrorKept == gerr = "nil" => failed = {}

\* Wait returned the group's error, after every goroutine returned.
ReturnedGroupError ==
    pc = "returned" => result = gerr /\ \A g \in Goroutine : st[g] = "done"

IInv == TypeOK /\ ErrorKept /\ ReturnedGroupError

LEMMA InitIInv == Init => IInv
<1> SUFFICES ASSUME Init PROVE IInv
    OBVIOUS
<1>1. TypeOK
    BY DEF Init, TypeOK, Goroutine, Errors
<1>2. QED
    BY <1>1 DEF Init, IInv, ErrorKept, ReturnedGroupError

\* GoReturn with a non-nil error leaves the group's error non-nil.
LEMMA GoReturnError ==
    ASSUME TypeOK, NEW g \in Goroutine, NEW e \in Errors, GoReturn(g, e)
    PROVE  gerr' \in Errors /\ st' \in [Goroutine -> {"idle", "running", "done"}]
BY DEF TypeOK, GoReturn, Errors

\* GoReturn with nil leaves the group's error as it was.
LEMMA GoReturnNil ==
    ASSUME TypeOK, NEW g \in Goroutine, GoReturn(g, "nil")
    PROVE  gerr' = gerr /\ st' \in [Goroutine -> {"idle", "running", "done"}]
BY DEF TypeOK, GoReturn

LEMMA NextIInv == IInv /\ [Next]_vars => IInv'
<1> SUFFICES ASSUME IInv, [Next]_vars PROVE IInv'
    OBVIOUS
<1> USE DEF IInv, ErrorKept, ReturnedGroupError
<1>1. CASE servePublic \/ serveAdmin \/ goBgTasks
    BY <1>1 DEF servePublic, serveAdmin, goBgTasks, Launch, TypeOK, Goroutine
<1>2. CASE BgTasksIdle
    <2>1. pc # "returned"
        BY <1>2 DEF BgTasksIdle, Goroutine
    <2>2. gerr' = gerr /\ st' \in [Goroutine -> {"idle", "running", "done"}]
        BY <1>2, GoReturnNil DEF BgTasksIdle, Goroutine
    <2>3. QED
        BY <1>2, <2>1, <2>2 DEF BgTasksIdle, GoReturn, TypeOK
<1>3. CASE CourierStops
    <2>1. pc # "returned"
        BY <1>3 DEF CourierStops, Goroutine
    <2>2. gerr' = gerr /\ st' \in [Goroutine -> {"idle", "running", "done"}]
        BY <1>3, GoReturnNil DEF CourierStops, Goroutine
    <2>3. QED
        BY <1>3, <2>1, <2>2 DEF CourierStops, GoReturn, TypeOK
<1>4. CASE CourierFails
    <2>1. pc # "returned"
        BY <1>4 DEF CourierFails, Goroutine
    <2>2. gerr' \in Errors /\ st' \in [Goroutine -> {"idle", "running", "done"}]
        BY <1>4, GoReturnError DEF CourierFails, Goroutine, Errors
    <2>3. QED
        BY <1>4, <2>1, <2>2 DEF CourierFails, GoReturn, TypeOK, Goroutine, Errors
<1>5. ASSUME NEW g \in Httpd, ServeFails(g)
      PROVE  IInv'
    <2>1. pc # "returned" /\ g \in Goroutine
        BY <1>5 DEF ServeFails, Httpd, Goroutine
    <2>2. gerr' \in Errors /\ st' \in [Goroutine -> {"idle", "running", "done"}]
        BY <1>5, <2>1, GoReturnError DEF ServeFails, ReturnFiltered, Errors
    <2>3. QED
        BY <1>5, <2>1, <2>2 DEF ServeFails, GoReturn, TypeOK, Errors
<1>6. ASSUME NEW g \in Httpd, Shutdown(g)
      PROVE  IInv'
    <2>1. pc # "returned" /\ g \in Goroutine
        BY <1>6 DEF Shutdown, Httpd, Goroutine
    <2>2. PICK e \in {"nil", "drain", "canceled"} :
              /\ GoReturn(g, ReturnFiltered(e))
              /\ failed' = IF e = "drain" THEN failed \cup {g} ELSE failed
        BY <1>6 DEF Shutdown
    <2>3. CASE e = "drain"
        \* a drain timeout is returned as an error, and the group keeps one.
        <3>1. gerr' \in Errors /\ st' \in [Goroutine -> {"idle", "running", "done"}]
            BY <2>1, <2>2, <2>3, GoReturnError DEF ReturnFiltered, Errors
        <3>2. QED
            BY <1>6, <2>1, <2>2, <2>3, <3>1 DEF Shutdown, GoReturn, TypeOK, Errors
    <2>4. CASE e # "drain"
        \* nil and context.Canceled return nil: nothing failed.
        <3>1. ReturnFiltered(e) = "nil"
            BY <2>4 DEF ReturnFiltered
        <3>2. gerr' = gerr /\ st' \in [Goroutine -> {"idle", "running", "done"}]
            BY <2>1, <2>2, <3>1, GoReturnNil
        <3>3. QED
            BY <1>6, <2>1, <2>2, <2>4, <3>2 DEF Shutdown, GoReturn, TypeOK
    <2>5. QED
        BY <2>3, <2>4
<1>7. CASE CancelParent
    BY <1>7 DEF CancelParent, TypeOK
<1>8. CASE Wait
    BY <1>8 DEF Wait, TypeOK
<1>9. CASE Terminating \/ UNCHANGED vars
    BY <1>9 DEF Terminating, vars, TypeOK
<1>10. QED
    BY <1>1, <1>2, <1>3, <1>4, <1>5, <1>6, <1>7, <1>8, <1>9 DEF Next

\* For any failure pattern, courier setting and cancellation of the
\* command: when ServeAll returns nil, no server's listener or Shutdown
\* failed and the courier did not fail.
THEOREM FailuresAreReported == Spec => []FailureReported
<1>1. Init /\ [][Next]_vars => []IInv
    BY InitIInv, NextIInv, PTL
<1>2. IInv => FailureReported
    BY DEF IInv, ErrorKept, ReturnedGroupError, FailureReported
<1>3. QED
    BY <1>1, <1>2, PTL DEF Spec

=============================================================================
