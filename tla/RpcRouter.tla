------------------------------ MODULE RpcRouter ------------------------------
(***************************************************************************)
(* The RPC server injectors of wire_gen.go (InitializeNewRmqRpcServer and  *)
(* InitializeNewRmqRpcServerForTesting) each build a fresh                 *)
(* TranslationUseCase from their dependencies and pass it to               *)
(* amqprpc.NewRouter.  The package-level route map is built once, under    *)
(* hdlOnce, by the first caller; newTranslationRoutes registers the        *)
(* getHistory handler bound to that caller's use case.  Every call returns *)
(* the package-level map.  Callers may run concurrently.                   *)
(*                                                                         *)
(* sync.Once.Do is modelled by its implementation's steps: the fast path   *)
(* on done, the mutex, the second check, f, and done set before unlock.   *)
(* A map is named by the caller that made it; its routes live in routes.  *)
(***************************************************************************)
EXTENDS Naturals

CONSTANTS
    Caller,    \* injector calls; the use case each builds is named by it
    None

ASSUME RouterAssumption == None \notin Caller

VARIABLES
    done,      \* hdlOnce.done
    holder,    \* the goroutine holding hdlOnce.m
    router,    \* amqpRpcRouter: None or the map (named by its maker)
    routes,    \* the routes of each map made: route name -> bound use case
    pc,        \* where each caller is
    got        \* the map NewRouter returned to each caller

vars == <<done, holder, router, routes, pc, got>>

Init ==
    /\ done = FALSE
    /\ holder = None
    /\ router = None
    /\ routes = [m \in Caller |-> [r \in {} |-> None]]
    /\ pc = [c \in Caller |-> "init"]
    /\ got = [c \in Caller |-> None]

\* The injector builds the use case from repository.New over the Postgres
\* singleton and googleapi.New, and calls NewRouter.
InitializeNewRmqRpcServer(c) ==
    /\ pc[c] = "init"
    /\ pc' = [pc EXCEPT ![c] = "idle"]
    /\ UNCHANGED <<done, holder, router, routes, got>>

\* The testing injector builds the use case from the repository and
\* translator it is given, and calls NewRouter.
InitializeNewRmqRpcServerForTesting(c) ==
    /\ pc[c] = "init"
    /\ pc' = [pc EXCEPT ![c] = "idle"]
    /\ UNCHANGED <<done, holder, router, routes, got>>

\* return amqpRpcRouter, which the injector hands to server.New.
Return(c) ==
    /\ got' = [got EXCEPT ![c] = router]
    /\ pc' = [pc EXCEPT ![c] = "done"]

\* Faulty NewRouter: a nil check instead of hdlOnce; the map is published
\* before its routes are added.
NilCheckDo(c) ==
    /\ pc[c] = "idle"
    /\ IF router = None
       THEN pc' = [pc EXCEPT ![c] = "make"] /\ UNCHANGED got
       ELSE Return(c)
    /\ UNCHANGED <<done, holder, router, routes>>

\* hdlOnce.Do: the fast path returns once done is set; otherwise take m.
Do(c) ==
    /\ pc[c] = "idle"
    /\ IF done
       THEN Return(c)
       ELSE pc' = [pc EXCEPT ![c] = "lock"] /\ UNCHANGED got
    /\ UNCHANGED <<done, holder, router, routes>>

\* Under m, the second check: run f unless another caller already did.
doSlow(c) ==
    /\ pc[c] = "lock" /\ holder = None
    /\ IF done
       THEN Return(c) /\ UNCHANGED holder
       ELSE holder' = c /\ pc' = [pc EXCEPT ![c] = "make"] /\ UNCHANGED got
    /\ UNCHANGED <<done, router, routes>>

\* f: amqpRpcRouter = make(map[string]server.CallHandler)
MakeRouter(c) ==
    /\ pc[c] = "make"
    /\ router' = c
    /\ routes' = [routes EXCEPT ![c] = [r \in {} |-> None]]
    /\ pc' = [pc EXCEPT ![c] = "route"]
    /\ UNCHANGED <<done, holder, got>>

\* f: newTranslationRoutes(amqpRpcRouter, t) registers getHistory bound to
\* t; then Do sets done, unlocks m, and NewRouter returns the map.
newTranslationRoutes(c) ==
    /\ pc[c] = "route"
    /\ routes' = [routes EXCEPT ![router] = [r \in {"getHistory"} |-> c]]
    /\ done' = TRUE
    /\ holder' = IF holder = c THEN None ELSE holder
    /\ Return(c)
    /\ UNCHANGED router

\* Every caller has its map.
Terminating == (\A c \in Caller : pc[c] = "done") /\ UNCHANGED vars

Next ==
    \/ \E c \in Caller :
          \/ InitializeNewRmqRpcServer(c) \/ InitializeNewRmqRpcServerForTesting(c)
          \/ Do(c) \/ doSlow(c) \/ MakeRouter(c) \/ newTranslationRoutes(c)
    \/ Terminating

Spec == Init /\ [][Next]_vars

-----------------------------------------------------------------------------

TypeOK ==
    /\ done \in BOOLEAN
    /\ holder \in Caller \cup {None}
    /\ router \in Caller \cup {None}
    /\ pc \in [Caller -> {"init", "idle", "lock", "make", "route", "done"}]
    /\ got \in [Caller -> Caller \cup {None}]

\* Every caller NewRouter returned to holds the one package-level map, and
\* that map already routes getHistory: no caller is handed a map that is
\* still being filled (and written while it reads it), nor a map of its own.
RouterComplete ==
    \A c \in Caller : pc[c] = "done" =>
        /\ got[c] = router
        /\ "getHistory" \in DOMAIN routes[got[c]]

\* The server an injector builds serves getHistory with the use case built
\* from that injector's own dependencies (for the testing injector, the
\* repository and translator it is given).
RoutesUseOwnUseCase ==
    \A c \in Caller : pc[c] = "done" => routes[got[c]]["getHistory"] = c

=============================================================================
