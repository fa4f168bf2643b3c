------------------------------- MODULE AppMain -------------------------------
(***************************************************************************)
(* The process of src/cmd/main.go: startServers builds and starts the     *)
(* RabbitMQ RPC server and the HTTP server, waitForSignals registers for  *)
(* SIGINT/SIGTERM and selects on the signal and on each server's Notify   *)
(* channel, and shutdown then shuts the HTTP server down and the RPC      *)
(* server after it, logging either's error.                                *)
(*                                                                         *)
(* The servers (pkg/httpserver, pkg/rabbitmq) are modelled by their        *)
(* contract: once started a server may fail, which puts its error on its   *)
(* Notify channel, and Shutdown may return an error.                       *)
(***************************************************************************)
EXTENDS Naturals

Server == {"http", "rmq"}

\* The signals delivered in a run: a second SIGINT/SIGTERM during shutdown.
MaxSignals == 2

VARIABLES
    pc,          \* where main is
    running,     \* the servers started and not failed
    notified,    \* the servers whose Notify channel holds an error
    registered,  \* signal.Notify was called
    signals,     \* the SIGINT/SIGTERMs delivered to the process
    pending,     \* a signal waits on the interrupt channel (capacity 1)
    shut,        \* the servers whose Shutdown was called
    err          \* main's err: the Notify error selected, then each Shutdown's

vars == <<pc, running, notified, registered, signals, pending, shut, err>>

Init ==
    /\ pc = "start"
    /\ running = {}
    /\ notified = {}
    /\ registered = FALSE
    /\ signals = 0
    /\ pending = FALSE
    /\ shut = {}
    /\ err = "nil"

\* startServers: InitializeNewRmqRpcServer, then InitializeNewHttpServer.
startServers ==
    /\ pc = "start"
    /\ running' = Server
    /\ pc' = "register"
    /\ UNCHANGED <<notified, registered, signals, pending, shut, err>>

\* waitForSignals: signal.Notify(interrupt, os.Interrupt, syscall.SIGTERM).
Register ==
    /\ pc = "register"
    /\ registered' = TRUE
    /\ pc' = "select"
    /\ UNCHANGED <<running, notified, signals, pending, shut, err>>

\* A started server fails: its error goes to its Notify channel.
ServerFails(s) ==
    /\ s \in running
    /\ running' = running \ {s}
    /\ notified' = notified \cup {s}
    /\ UNCHANGED <<pc, registered, signals, pending, shut, err>>

\* SIGINT or SIGTERM arrives.  Before signal.Notify the default disposition
\* ends the process at once; after it the signal is sent to the channel,
\* and dropped when the channel is full.
Signal ==
    /\ signals < MaxSignals /\ pc \notin {"exited", "killed"}
    /\ signals' = signals + 1
    /\ IF registered
       THEN pending' = TRUE /\ UNCHANGED pc
       ELSE pc' = "killed" /\ UNCHANGED pending
    /\ UNCHANGED <<running, notified, registered, shut, err>>

\* Faulty waitForSignals: no case for the RPC server's Notify channel.
SelectWithoutRmq ==
    /\ pc = "select"
    /\ \/ pending /\ pending' = FALSE /\ err' = "nil" /\ UNCHANGED notified
       \/ "http" \in notified /\ notified' = notified \ {"http"} /\ err' = "http"
          /\ UNCHANGED pending
    /\ pc' = "shutdown_http"
    /\ UNCHANGED <<running, registered, signals, shut>>

\* The select of waitForSignals receives from whichever of its three
\* channels is ready; a Notify case leaves that server's error in err.
waitForSignals ==
    /\ pc = "select"
    /\ \/ pending /\ pending' = FALSE /\ err' = "nil" /\ UNCHANGED notified
       \/ \E s \in notified : notified' = notified \ {s} /\ err' = s /\ UNCHANGED pending
    /\ pc' = "shutdown_http"
    /\ UNCHANGED <<running, registered, signals, shut>>

\* Faulty shutdown: gives up when the HTTP server's Shutdown fails.
ShutdownHttpStopOnError ==
    /\ pc = "shutdown_http"
    /\ shut' = shut \cup {"http"}
    /\ \E e \in {"nil", "shutdown"} :
          /\ err' = e
          /\ pc' = IF e = "nil" THEN "shutdown_rmq" ELSE "exited"
    /\ UNCHANGED <<running, notified, registered, signals, pending>>

\* shutdown: err = httpServer.Shutdown(); an error is logged and main goes on.
ShutdownHttp ==
    /\ pc = "shutdown_http"
    /\ shut' = shut \cup {"http"}
    /\ err' \in {"nil", "shutdown"}
    /\ pc' = "shutdown_rmq"
    /\ UNCHANGED <<running, notified, registered, signals, pending>>

\* shutdown: err = rmqServer.Shutdown(), logged; then main returns.
ShutdownRmq ==
    /\ pc = "shutdown_rmq"
    /\ shut' = shut \cup {"rmq"}
    /\ err' \in {"nil", "shutdown"}
    /\ pc' = "exited"
    /\ UNCHANGED <<running, notified, registered, signals, pending>>

\* The process has ended.
Terminating == pc \in {"exited", "killed"} /\ UNCHANGED vars

Next ==
    \/ startServers \/ Register \/ waitForSignals \/ ShutdownHttp \/ ShutdownRmq
    \/ Signal
    \/ \E s \in Server : ServerFails(s)
    \/ Terminating

\* main runs its steps one after the other; signals and failures are the
\* environment's and get no fairness.
Spec ==
    /\ Init /\ [][Next]_vars
    /\ WF_vars(startServers) /\ WF_vars(Register) /\ WF_vars(waitForSignals)
    /\ WF_vars(ShutdownHttp) /\ WF_vars(ShutdownRmq)

-----------------------------------------------------------------------------

TypeOK ==
    /\ pc \in {"start", "register", "select", "shutdown_http", "shutdown_rmq",
               "exited", "killed"}
    /\ running \subseteq Server /\ notified \subseteq Server /\ shut \subseteq Server
    /\ registered \in BOOLEAN /\ signals \in 0..MaxSignals /\ pending \in BOOLEAN
    /\ err \in Server \cup {"nil", "shutdown"}

\* When main returns, both servers were shut down, even if the HTTP
\* server's Shutdown failed.
ServersShutDownOnExit == pc = "exited" => shut = Server

\* Once main waits in its select, a signal or the failure of either server
\* makes it shut the servers down and return.
StopsWhenAsked ==
    (registered /\ (pending \/ notified # {})) ~> pc = "exited"

\* A SIGINT or SIGTERM makes main shut every started server down before the
\* process ends (waitForSignals' purpose: wait for the signal, then shut
\* down); no running server is abandoned by a signal.
SignalShutsDown ==
    signals > 0 /\ pc \in {"exited", "killed"} => running \subseteq shut

=============================================================================
