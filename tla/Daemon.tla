------------------------------- MODULE Daemon -------------------------------
(***************************************************************************)
(* daemon.ServeAll: an errgroup derived from the command's context runs    *)
(* the public httpd, the admin httpd and the background tasks (the courier *)
(* watcher when it is enabled), then waits for all three.  Each httpd runs *)
(* graceful.GracefulContext: it serves until its listener or server fails  *)
(* (an error) or until its context is done (then server.Shutdown, bounded  *)
(* by graceful.DefaultShutdownTimeout, drains it).  The goroutine filters  *)
(* context.Canceled and returns any other error, and the errgroup cancels  *)
(* its context on the first error.                                         *)
(*                                                                         *)
(* The library calls (errgroup, GracefulContext, http.Server.Shutdown,     *)
(* courier.Watch) are modelled by their outcomes: an error is one of the   *)
(* Errors below and nil is "nil".                                          *)
(***************************************************************************)
EXTENDS Naturals, Sequences

\* The goroutines of the errgroup, in the order ServeAll starts them.
Goroutine == {"public", "admin", "bg"}
Httpd == {"public", "admin"}

\* listen: MakeListener or Serve failed; drain: Shutdown's context
\* expired before the connections drained; canceled: context.Canceled;
\* courier: the courier's message loop failed.
Errors == {"listen", "drain", "canceled", "courier"}

VARIABLES
    pc,             \* where ServeAll is: launching a goroutine, in Wait, returned
    st,             \* each goroutine: idle (not launched), running, done
    courierEnabled, \* Config().IsBackgroundCourierEnabled(ctx)
    parentDone,     \* the command's context is done
    groupDone,      \* the errgroup's context is done
    gerr,           \* the errgroup's first error
    result,         \* what ServeAll returned
    failed          \* ghost: the goroutines whose work ended in an error

vars == <<pc, st, courierEnabled, parentDone, groupDone, gerr, result, failed>>

Init ==
    /\ pc = "public"
    /\ st = [g \in Goroutine |-> "idle"]
    /\ courierEnabled \in BOOLEAN
    /\ parentDone = FALSE
    /\ groupDone = FALSE
    /\ gerr = "nil"
    /\ result = "none"
    /\ failed = {}

\* Faulty NewOptions: the first WithContext option wins.
NewOptionsFirst(ctx, opts) == IF opts = <<>> THEN ctx ELSE opts[1]

\* NewOptions(ctx, opts): o.ctx starts as ctx and every WithContext option
\* overwrites it in turn, so the last option wins.  An option list is the
\* sequence of the contexts its WithContext options carry.
NewOptions(ctx, opts) == IF opts = <<>> THEN ctx ELSE opts[Len(opts)]

\* The options ServeAll's caller passes (its caller is not in the
\* repository): here one WithContext of the command's own context.
CallerOpts == <<"parent">>

\* ServeAll: mods := NewOptions(cmd.Context(), opts) gives the context the
\* errgroup derives from; the group's ctx is then set on the command and
\* appended as a WithContext option.
CmdContext == "group"
ServeOpts == Append(CallerOpts, "group")

\* Whether a context is done: the command's or the errgroup's.
Done(ctx) == IF ctx = "group" THEN groupDone ELSE parentDone

\* The context a goroutine watches: servePublic, serveAdmin and bgTasks
\* each read it with NewOptions(cmd.Context(), opts).
CtxDone(g) == Done(NewOptions(CmdContext, ServeOpts))

\* errgroup.Group.Go's wrapper: a goroutine returning e; the first non-nil
\* error is kept and cancels the group's context.
GoReturn(g, e) ==
    /\ st' = [st EXCEPT ![g] = "done"]
    /\ gerr' = IF e # "nil" /\ gerr = "nil" THEN e ELSE gerr
    /\ groupDone' = (groupDone \/ e # "nil")

\* Faulty goroutine body: logs the error and returns nil.
ReturnLogged(e) == "nil"

\* The httpd goroutine's filter on GracefulContext's error.
ReturnFiltered(e) == IF e = "canceled" THEN "nil" ELSE e

\* ServeAll's next call starts goroutine g and moves on to next.
Launch(g, next) ==
    /\ pc = g
    /\ st' = [st EXCEPT ![g] = "running"]
    /\ pc' = next
    /\ UNCHANGED <<courierEnabled, parentDone, groupDone, gerr, result, failed>>

\* servePublic: builds the public handler chain and http.Server, and
\* eg.Go's the goroutine that serves it under GracefulContext.
servePublic == Launch("public", "admin")

\* serveAdmin: the same for the admin httpd.
serveAdmin == Launch("admin", "bg")

\* g.Go(bgTasks), after which ServeAll calls g.Wait().
goBgTasks == Launch("bg", "wait")

\* The httpd's listener or server fails before its context is done.
ServeFails(g) ==
    /\ g \in Httpd /\ st[g] = "running"
    /\ GoReturn(g, ReturnFiltered("listen"))
    /\ failed' = failed \cup {g}
    /\ UNCHANGED <<pc, courierEnabled, parentDone, result>>

\* The httpd's context is done: GracefulContext calls server.Shutdown and
\* returns its outcome.
Shutdown(g) ==
    /\ g \in Httpd /\ st[g] = "running" /\ CtxDone(g)
    /\ \E e \in {"nil", "drain", "canceled"} :
          /\ GoReturn(g, ReturnFiltered(e))
          /\ failed' = IF e = "drain" THEN failed \cup {g} ELSE failed
    /\ UNCHANGED <<pc, courierEnabled, parentDone, result>>

\* bgTasks with the courier disabled returns nil at once.
BgTasksIdle ==
    /\ st["bg"] = "running" /\ ~courierEnabled
    /\ GoReturn("bg", "nil")
    /\ UNCHANGED <<pc, courierEnabled, parentDone, result, failed>>

\* courier.Watch returns an error: the courier's message loop failed.
CourierFails ==
    /\ st["bg"] = "running" /\ courierEnabled
    /\ GoReturn("bg", "courier")
    /\ failed' = failed \cup {"bg"}
    /\ UNCHANGED <<pc, courierEnabled, parentDone, result>>

\* courier.Watch returns nil once its context is done.
CourierStops ==
    /\ st["bg"] = "running" /\ courierEnabled /\ CtxDone("bg")
    /\ GoReturn("bg", "nil")
    /\ UNCHANGED <<pc, courierEnabled, parentDone, result, failed>>

\* The command's context is cancelled (the process is told to stop); the
\* errgroup's context derives from it.
CancelParent ==
    /\ ~parentDone
    /\ parentDone' = TRUE
    /\ groupDone' = TRUE
    /\ UNCHANGED <<pc, st, courierEnabled, gerr, result, failed>>

\* g.Wait(): once every goroutine returned, the first error.
Wait ==
    /\ pc = "wait"
    /\ \A g \in Goroutine : st[g] = "done"
    /\ result' = gerr
    /\ pc' = "returned"
    /\ groupDone' = TRUE
    /\ UNCHANGED <<st, courierEnabled, parentDone, gerr, failed>>

\* ServeAll has returned and the daemon's command ends.
Terminating == pc = "returned" /\ UNCHANGED vars

Next ==
    \/ servePublic \/ serveAdmin \/ goBgTasks \/ BgTasksIdle \/ CourierFails \/ CourierStops \/ CancelParent \/ Wait
    \/ \E g \in Httpd : ServeFails(g) \/ Shutdown(g)
    \/ Terminating

\* The Go scheduler runs every goroutine that can proceed, and Shutdown and
\* courier.Watch return once their context is done (Shutdown is bounded by
\* DefaultShutdownTimeout).  Failures and the parent's cancellation are the
\* environment's choice and get no fairness.
Fairness ==
    /\ WF_vars(servePublic) /\ WF_vars(serveAdmin) /\ WF_vars(goBgTasks) /\ WF_vars(Wait) /\ WF_vars(BgTasksIdle)
    /\ \A g \in Httpd : WF_vars(Shutdown(g))
    /\ WF_vars(CourierStops)

Spec == Init /\ [][Next]_vars /\ Fairness

-----------------------------------------------------------------------------

TypeOK ==
    /\ pc \in Goroutine \cup {"wait", "returned"}
    /\ st \in [Goroutine -> {"idle", "running", "done"}]
    /\ courierEnabled \in BOOLEAN
    /\ parentDone \in BOOLEAN /\ groupDone \in BOOLEAN
    /\ gerr \in Errors \cup {"nil"}
    /\ result \in Errors \cup {"nil", "none"}
    /\ failed \subseteq Goroutine

\* Once the errgroup's context is done (a goroutine failed, or the command
\* was told to stop) every server shuts down and ServeAll returns.
ShutdownCompletes == groupDone ~> pc = "returned"

\* ServeAll returns nil only when no server and no courier failed: a listen
\* failure, a drain timeout or a courier error is never reported as a clean
\* shutdown.
FailureReported == pc = "returned" /\ result = "nil" => failed = {}

=============================================================================
