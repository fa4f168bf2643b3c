---------------------------- MODULE AppMain_proofs ----------------------------
(***************************************************************************)
(* ServersShutDownOnExit for every run of main: shutdown calls both        *)
(* Shutdowns in order and ignores their errors, so main never returns with *)
(* a server left running.  The invariant alone is not inductive: the step  *)
(* that returns (ShutdownRmq) adds only the RPC server, so the HTTP        *)
(* server must already be shut whenever main is about to shut the RPC one. *)
(***************************************************************************)
EXTENDS AppMain, TLAPS

\* The RPC server is shut down only after the HTTP server was.
HttpShutFirst == pc = "shutdown_rmq" => "http" \in shut

IInv == TypeOK /\ HttpShutFirst /\ ServersShutDownOnExit

LEMMA InitIInv == Init => IInv
<1> SUFFICES ASSUME Init PROVE IInv
    OBVIOUS
<1>1. TypeOK
    <2>1. signals \in 0..MaxSignals
        BY DEF Init, MaxSignals
    <2>2. running \subseteq Server /\ notified \subseteq Server /\ shut \subseteq Server
        BY DEF Init
    <2>3. QED
        BY <2>1, <2>2 DEF Init, TypeOK
<1>2. QED
    BY <1>1 DEF Init, IInv, HttpShutFirst, ServersShutDownOnExit

LEMMA NextIInv == IInv /\ [Next]_vars => IInv'
<1> SUFFICES ASSUME IInv, [Next]_vars PROVE IInv'
    OBVIOUS
<1> USE DEF IInv, TypeOK, HttpShutFirst, ServersShutDownOnExit, Server
<1>1. CASE startServers
    BY <1>1 DEF startServers
<1>2. CASE Register
    BY <1>2 DEF Register
<1>3. CASE waitForSignals
    BY <1>3 DEF waitForSignals
<1>4. CASE ShutdownHttp
    BY <1>4 DEF ShutdownHttp
<1>5. CASE ShutdownRmq
    \* main returns once both Shutdowns were called, whatever they returned.
    <2>1. "http" \in shut /\ shut' = shut \cup {"rmq"}
        BY <1>5 DEF ShutdownRmq
    <2>2. shut' = Server
        BY <2>1 DEF Server
    <2>3. QED
        BY <1>5, <2>2 DEF ShutdownRmq
<1>6. CASE Signal
    \* A registered signal waits on the channel; one before Notify kills.
    <2>1. signals' \in 0..MaxSignals
        BY <1>6 DEF Signal, MaxSignals
    <2>2. CASE registered
        BY <1>6, <2>1, <2>2 DEF Signal
    <2>3. CASE ~registered
        BY <1>6, <2>1, <2>3 DEF Signal
    <2>4. QED
        BY <2>2, <2>3
<1>7. CASE \E s \in Server : ServerFails(s)
    BY <1>7 DEF ServerFails
<1>8. CASE Terminating \/ UNCHANGED vars
    BY <1>8 DEF Terminating, vars
<1>9. QED
    BY <1>1, <1>2, <1>3, <1>4, <1>5, <1>6, <1>7, <1>8 DEF Next

\* However signals and server failures interleave with main's steps, and
\* even when the HTTP server's Shutdown returns an error, main returns only
\* after it called Shutdown on both servers.
THEOREM ShutdownBeforeExit == Spec => []ServersShutDownOnExit
<1>1. Init /\ [][Next]_vars => []IInv
    BY InitIInv, NextIInv, PTL
<1>2. QED
    BY <1>1, PTL DEF Spec, IInv

=============================================================================
