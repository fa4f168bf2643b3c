# Formal models of DDDAuth

TLA+ models of the identity backend under `src/internal/auth/domain`. The
backend is derived from Ory Kratos, and `spec.md` describes it. This directory
holds the modules, the TLC configurations that check them on small instances,
the TLAPS proofs that hold for every instance, and `PROJECT.json`, which maps
every modelled definition to the source lines it stands for.

## 1. The system

### Parts and how they interact

| Part | Source | State it changes |
|---|---|---|
| Strategies (password, lookup, totp, webauthn; oidc and code/link outside `src/`) | `selfservice/strategy/*/strategy.go` | None. Each strategy counts an identity's usable credentials and names the method (and AAL) its success completes. |
| Login AAL check | `selfservice/flow/login/aal.go` | None. A strategy that completes a different AAL than the flow requested is "not responsible". |
| Post hooks | `selfservice/hook/session_destroyer.go`, `session_issuer.go` | The session store (revocation). The HTTP response (cookie, token continuation, body, redirect). |
| Hook executor, session persister, flow handlers | not in `src/` (spec 4.3–4.5, 5) | Sessions are read, mutated and written back. The executor stops the pipeline at the abort sentinel. |
| Recovery-address schema extension | `identity/extension_recovery.go` | A buffer that concurrent `Run` calls fill under a mutex. `Finish` copies it into the identity. |
| Daemon | `cmd/daemon/serve.go`, `src/cmd/main.go` | An errgroup of the public server, the admin server and the courier watcher. A signal ends it with a shutdown. |
| AMQP RPC router | `src/internal/others/interfaces/amqp_rpc` | A route map built once (`sync.Once`). |
| Wiring, CLI, UI nodes, templates, test helpers | `driver/`, `wire*.go`, `cmd/root.go`, `ui/`, `courier/`, `external/` | Construction and formatting only. |

How a request flows: each HTTP request runs on its own goroutine. A
submission selects the one responsible strategy. For logins, `CheckAAL`
filters strategies against the flow's requested AAL. The handler then
persists what the flow produced: a new identity, a new session, or the
session it read and extended with the completed method. Next, the
executor runs the post hooks:

- After registration, `SessionIssuer` delivers the session:
  - cookie for browser flows;
  - cookie and JSON body for SPA flows;
  - `SetToken` continuation and body for API flows, or an OIDC code-flow
    redirect.

  It raises `ErrHookAbortFlow` when it has written the response itself.
- After login, recovery and settings, `SessionDestroyer` revokes every
  other session of the identity.

Finally, the executor answers:

- the sentinel is suppressed;
- an error is answered as an error;
- otherwise the executor writes the success response.

Identity validation calls the recovery extension's `Run` once per schema
property, possibly concurrently, and then calls `Finish`.

### Behaviours that are hard to test

- Requests of the same identity interleave at the session store: a revocation
  against a refresh's write-back, two step-ups of one session, two logins each
  revoking the other's session.
- A hook fails after the session was persisted (partial failure).
- The abort sentinel and the redirect decide how many responses a request
  writes.
- The recovery extension's check-then-append runs on several goroutines.
  Only the mutex makes it atomic.
- Daemon shutdown: one server failing must stop the others (liveness).

`PROJECT.json` lists each hazard at its source line, with the properties that
cover it.

## 2. Modules

### `SessionHooks` (with `MCSessionHooks`)

**State.**

- `session`: the store. It maps a session id to owner, active, methods and
  creation stamp `born`.
- `created`: the creation counter.
- `registered`: the identities that have registered.
- Per request: `pc`, `op`, `who`, `sid`, `ms` and `flow`. `ms` holds the
  methods of the request's session value.
- `hookOut`: what the post hook returned.
- The response, one variable per field: `writes`, `cookie`, `setTokens`,
  `redirect` and `status`.
- `cuts`: a ghost variable. It records every successful `SessionDestroyer`
  run as the number of sessions created so far, the session it kept, and
  the refresh logins that had read their session and not yet written it
  back (`PendingWriteBacks`) at that moment.

**Actions.** Each request goes idle → persist → hook → respond → done:

- **Start actions.** `StartRegistration`, `StartLogin`, `StartRefresh`,
  `StartRecovery` and `StartSettings`. Logins call `CheckAAL`, and a mismatch
  answers `not_responsible`. A refresh reads the session value now.
- **Persist actions.**
  - `PersistRegistration`: a duplicate identity is an error.
  - `CreateSession`: the upsert of a fresh session.
  - `WriteBackSession`: the refresh writes back what it read, active and with
    the new method.
  - `PersistSettings`.
- **`RunPostHook`** applies one outcome of the hook operator for the operation:
  - `ExecuteLoginPostHook`, `ExecutePostRecoveryHook` and
    `ExecuteSettingsPostPersistHook` call `RevokeSessionsIdentityExcept`, which
    either succeeds as a whole or fails.
  - `ExecutePostRegistrationPostPersistHook` has every branch of
    `session_issuer.go`. The outcome of `MaybeRedirectAPICodeFlow` (error,
    handled, not applicable) and the `IssueCookie` error are chosen
    nondeterministically.
- **`Respond`** is the executor's answer.

Sessions, identities and requests are model values, and symmetry is used over
all three. The spec treats them alike: it compares them only for equality and
never uses CHOOSE over them.

### `RecoveryExtension` (with `MCRecoveryExtension`)

**State.**

- `input`: each caller's property. It holds the via, the normalised text and
  whether the raw value passes the email format.
- `addrs`: the identity's `RecoveryAddresses`.
- `v`: the buffer.
- `holder`: the goroutine holding the mutex.
- Per caller: `pc`, `found` and `ret`.
- `finished`.
- `prior`: a ghost variable holding the stored texts.

**Actions.**

- `Lock`: `r.l.Lock()`.
- `Decide`: the via switch, the format check, and the lookups in the
  identity's addresses and in `v`.
- `AppendAddress`: the append, and the return with the deferred unlock.
- `Finish`.

`ToLower(TrimSpace(value))` is modelled by what it does to addresses: raw
values that differ only in case or surrounding space are one `Text`.

**Abstract specification.** `RecoveryRun` states what the extension
promises: every `Run` is one indivisible step on the buffer, and `Finish`
copies the buffer. The address a `Run` appends is the parameter `Decision`.
`RecoveryExtension` instantiates it with:

- `Decision <- FoundFor`: the lookups of `Run` in the identity's addresses
  and in `v`;
- `pc <- absPc`: a caller counts as done once its `Run` returned.

A caller's abstract `Run` happens at its commit point:

- for an email input, `AppendAddress`, which appends and returns under the
  lock;
- for any other input, the return of `Decide`.

`Lock` and an email `Decide` are stutters. `RunAtomic == Atomic!Spec` is the
refinement property.

### `CredentialCounting`

The counting methods of the four strategies, and webauthn's
`validateCredentials`.

**Data.** A credential is reduced to what the counting code tells apart:

- its identifiers: none, a blank first identifier, or a set one;
- its config blob: empty, failing to unmarshal, or parsed;
- the parsed field its strategy reads: the hash format, the number of
  recovery codes, the TOTP URL, or the passwordless flags of the stored
  webauthn credentials.

An identity holds at most one credential per type.

**State.** `creds` is loaded once. `query` and `result` hold the last count
asked for, and `validated` holds the verdict of `validateCredentials`.

**Actions.**

- `CountActive(t, class)`: calls the strategy's method. The password, lookup
  and totp methods are `PasswordCountFirst`, `LookupCountMulti` and
  `TOTPCountMulti`; webauthn's is `countCredentials`. The other three
  (`PasswordCountMulti`, `LookupCountFirst`, `TOTPCountFirst`) return
  (0, nil) whatever the map holds.
- `validateCredentials(schemaOK)`.

**Reference.** `Table` is written from the table of spec 4.1 and is what the
counts are compared with.

`ValidatedWebAuthnCounted` compares webauthn's counts with the table only
once `validateCredentials` has accepted the identity. Without that, the
comparison (`WebAuthnCountsMatchTable`) fails. A credential with no
identifiers is skipped before its config is parsed, so its passwordless
keys are never counted and a garbled config is never reported. Only
identities written without validation can reach this state.

### `Daemon`

`ServeAll` of `cmd/daemon/serve.go`.

**State.**

- `pc`: `ServeAll`'s place.
- `st`: the state of each errgroup goroutine (public, admin, background).
- `courierEnabled`.
- `parentDone` and `groupDone`: whether the command's context and the
  errgroup's context are done.
- `gerr`: the group's first error.
- `result`: what `ServeAll` returned.
- `failed`: a ghost of the goroutines whose work failed.

**Actions.**

- Start-up: `servePublic`, `serveAdmin` and `goBgTasks`, in the code's order.
- An httpd either fails (`ServeFails`) or, once its context is done, shuts
  down (`Shutdown`), with the `context.Canceled` filter (`ReturnFiltered`).
- The courier: `BgTasksIdle`, `CourierFails` and `CourierStops`.
- `CancelParent`.
- `Wait`.

The library calls are modelled by their outcomes.

**Contexts.** The context each goroutine watches is the one
`NewOptions(cmd.Context(), opts)` selects. `o.ctx` starts as the command's
context, and each `WithContext` option overwrites it, so the last option
wins. `ServeAll` sets the errgroup's context on the command and appends it as
the last option. Its caller is not in the repository. The model gives it one
`WithContext` of the command's own context, which the appended option must
override.

### `AppMain`

`src/cmd/main.go`.

**State.** `pc`, the servers running, the Notify channels holding an error,
whether `signal.Notify` was called, the signals delivered (at most
`MaxSignals = 2`), the interrupt channel (capacity 1), the servers shut down,
and `err`.

**Actions.**

- `startServers`, `Register`, then the three-way select `waitForSignals`.
- `ShutdownHttp`, then `ShutdownRmq`. Each logs its error and goes on.
- Environment steps: `Signal` and `ServerFails`.

### `RpcRouter` (with `MCRpcRouter`)

`amqprpc.NewRouter` called from the injectors of `wire_gen.go`.

- `sync.Once.Do` is modelled by its implementation's steps: the fast path
  on `done` (`Do`), the mutex and the second check (`doSlow`), `f`
  (`MakeRouter`, `newTranslationRoutes`), and `done` set before the unlock.
- A map is named by the caller that made it.
- `routes` records which caller's use case each route is bound to.
- Both injectors are actions: `InitializeNewRmqRpcServer` and
  `InitializeNewRmqRpcServerForTesting`. They differ only in where the use
  case's dependencies come from, and each use case is named by its caller.

### Plan for the next sittings

- Proofs: every safety invariant of a passing run is proved (section 5).
  What remains is a refinement of `Daemon` and `AppMain` onto an abstract
  lifecycle.
- The oidc strategy's code is outside `src/`. Where its counting touches
  code under `src/`, it could be added.

## 3. Runs

| Run | Config | Expect | What it shows |
|---|---|---|---|
| `session_hooks` | `MCSessionHooks.cfg` | pass | With 3 requests, 2 identities, 3 session ids, every operation including refresh and step-up logins, and webauthn passwordless (1.07M states): `Answered`, `SessionDeliveredPerVariant`, `RevocationUndoneOnlyByStaleRefresh` and the action property `RevokeScope` hold. `RevocationHonoured` fails once refresh is possible (run `revocation_undone`). What holds instead is that a revoked session comes back only through a refresh that was in flight when the revocation ran. No login, recovery, settings change or later refresh revives it. This is also proved (section 5). |
| `revocation_undone` | `MCSessionHooks_revocation_undone.cfg` | violation | A login's `SessionDestroyer` revokes session s while a refresh of s is in flight. The refresh then writes s back active (finding 1). |
| `lost_method` | `MCSessionHooks_lost_method.cfg` | violation | Two step-ups of one session: the later write-back drops the earlier method, and the session's AAL falls (finding 2). |
| `double_response` | `MCSessionHooks_double_response.cfg` | violation | API registration via OIDC without an ID token: the handled redirect returns nil, and the executor writes a second response (finding 3). |
| `recovery_addresses` | `MCRecoveryExtension.cfg` | pass | Three concurrent `Run` calls over every input and every stored address list of up to two texts: no duplicates, stored records reused, `Finish` yields exactly the email inputs. The implementation refines `RecoveryRun`, where every `Run` is atomic (`RunAtomic`). |
| `mutual_revocation` | `MCSessionHooks_mutual_revocation.cfg` | violation | Two logins of one identity each persist a session, then each `SessionDestroyer` revokes the other's. Both succeed, and the identity has no active session (`SomeKeptSessionActive`, finding 5). |
| `credential_counting` | `CredentialCounting.cfg` | pass | Over every credential map with at most one credential per type (397k states), the password, lookup and totp counts of both factor classes equal spec 4.1's table (`CountsMatchTable`). Once `validateCredentials` accepted the identity, webauthn's count equals the table too (`ValidatedWebAuthnCounted`). |
| `daemon_shutdown` | `Daemon.cfg` | pass | Once the errgroup's context is done, every server shuts down and `ServeAll` returns (`ShutdownCompletes`). It returns nil only when nothing failed (`FailureReported`). |
| `app_main` | `AppMain.cfg` | pass | `main` shuts both servers down before it exits, even when the HTTP server's `Shutdown` fails (`ServersShutDownOnExit`). A signal, or either server's failure, makes it exit (`StopsWhenAsked`). |
| `signal_window` | `AppMain_signal_window.cfg` | violation | A signal between `startServers` and `signal.Notify` ends the process with both servers running and neither shut down (`SignalShutsDown`, finding 6). |
| `rpc_router` | `MCRpcRouter.cfg` | pass | Three concurrent injector calls: each gets the one package map, and that map already routes `getHistory` (`RouterComplete`). No caller under `src/` makes concurrent calls today: `main` calls `InitializeNewRmqRpcServer` once, and the testing injector has no caller there. The run shows the lazy initialisation stays sound if a caller ever does. |
| `rpc_stale_use_case` | `MCRpcRouter_stale.cfg` | violation | The second injector's server routes `getHistory` to the first injector's use case (finding 4). |

**Bounds.**

- Three requests are the fewest that reach the interesting interleavings. For
  example, registration, then a login creating a second session, then a
  refresh racing that login's revocation.
- Two identities let `RevokeScope` see sessions of another identity.
- Three session ids let every request hold its own session.
- For the recovery extension, three callers and two texts give both
  duplicate inputs and distinct inputs, next to stored and new addresses.
- `CredentialCounting` enumerates every credential map with at most one
  credential per type. The counting code only loops over the map, so one
  credential per type covers every branch. It also enumerates every
  combination of identifiers, blob and parsed field a branch tells apart,
  and webauthn flag lists of up to two entries. Those lists are enough to
  tell "one per credential" from "one per stored key".
- `AppMain` allows two signals. The second one arrives while the first is
  still pending, or during shutdown.
- `RpcRouter` uses three callers. That is one more than needed for a caller
  to reach the fast path while another is inside `f`.

**Fairness.** Liveness is checked in `Daemon` and `AppMain` under weak
fairness of the program's own steps only. The justification:

- the Go scheduler runs every runnable goroutine;
- `Shutdown` is bounded by `DefaultShutdownTimeout`;
- `courier.Watch` returns once its context is done.

Failures, signals and the parent context's cancellation belong to the
environment. They get no fairness.

Each pass run fires every action and every branch of its next-state relation.


**Deadlock** is checked. A state where every request (or every `Run` caller,
or the process) is done takes the explicit `Terminating` step, so a state where requests are
stuck is still reported.

**Mutants.** Each property of a pass run has one mutant: a plausible fault in
a mapped definition, which TLC must catch.

- A settings hook that keeps no session when it revokes.
- An SPA branch that aborts without writing the body.
- An API branch without the `SetToken` continuation.
- `CheckAAL` accepting a lower AAL.
- A `Run` that takes no lock. It breaks both `NoDuplicateAddresses` and
  `RunAtomic`.
- A `Run` that appends a new record for a stored address.
- A `has` that compares only the via.
- A lookup count of one per recovery code.
- A `validateCredentials` that keeps only the schema's verdict.
- A `NewOptions` where the first `WithContext` option wins, so the servers
  watch the caller's context instead of the errgroup's.
- An httpd goroutine that logs its error and returns nil.
- A select without the RPC server's Notify case.
- A shutdown that stops when the HTTP server's `Shutdown` fails.
- A nil check instead of `sync.Once`.

## 4. Findings

1. **Revocation undone by a refresh** (spec gap, `session_destroyer.go:39`).
   The revocation is one update, but a refresh that read the session earlier
   upserts the whole row. Spec 5 serialises only completions of the same flow
   id.
2. **Step-up methods lost** (spec gap, `login/aal.go:14`). Two concurrent
   step-ups each write back their own copy, so a completed second factor can
   disappear from the session.
3. **Double response after an OIDC code-flow redirect** (spec/code divergence,
   `session_issuer.go:62`). The handled redirect returns nil instead of the
   abort sentinel that spec 4.4 prescribes for a hook that redirected.

4. **The RPC router keeps the first use case** (code bug,
   `amqp_rpc/router.go:16`). `hdlOnce` builds the route map once, so every
   later `NewRouter` call ignores its own `TranslationUseCase`. A server from
   `InitializeNewRmqRpcServerForTesting` therefore serves the repository and
   translator of whichever injector ran first. `wire.go` declares it as
   built from the ones it is given.
5. **Concurrent logins revoke each other** (spec gap,
   `session_destroyer.go:39`). Each `SessionDestroyer` revokes every session
   of the identity except its own, in one update. When two logins both
   persist their session before either hook runs, each hook revokes the
   other's session. Both requests then answer success with a cookie for a
   revoked session. Spec 4.4 says the hook keeps the session that triggered
   it. Spec 5 serialises only completions of the same flow id.
6. **A signal during start-up skips the shutdown** (code bug,
   `src/cmd/main.go:32`). `main` starts both servers before
   `waitForSignals` calls `signal.Notify`. A SIGINT or SIGTERM in between
   takes Go's default action and ends the process without calling either
   server's `Shutdown`.

## 5. Proofs

`SessionHooks_proofs` (TLAPS) proves two theorems for every set of
identities, session ids and requests:

- `TypeCorrect`: `Spec => []TypeOK`. Its inductive strengthening `TypeInv`
  adds `SidBound`: a request between persist and respond holds a session id,
  and a registration holds an identity. Without this, the new row's id and
  the recorded cut are not known to be well typed.
- `RevocationStaysInForce`: `Spec => []RevocationUndoneOnlyByStaleRefresh`,
  with every operation enabled, refresh included. `RevocationHonoured`
  itself does not hold once refresh is possible (run `revocation_undone`).
  The theorem states exactly what does hold: a session a cut covers is
  active again only if a refresh recorded in the cut's `stale` set holds it.
  The inductive invariant `RevInv` is `TypeInv` plus four conjuncts:
  - `CutsBelowCreated`: every cut's count is at most `created`, so a new
    session, born at `created + 1`, is never covered by an earlier cut;
  - `StaleStarted`: a refresh a cut recorded has left `idle`, so its session
    id never changes again;
  - `PendingCovered`: a refresh still waiting to write back a session a cut
    covers is matched by a refresh of that session that the cut recorded. A
    refresh that starts after the cut reads an active session, and such a
    session already has its match;
  - the property itself.

  Per step (`NextRevInv`):
  - `SessionsKept`: the start, settings, answer and failure steps leave the
    store alone;
  - `FreshRow`: a new row is born after every cut;
  - `WriteBackRevInv`: a write-back activates a session that
    `PendingCovered` matches;
  - `HookRevInv`: a revocation only deactivates, and its new cut records
    every pending write-back as stale.

  TLC checked `RevInv` on the `session_hooks` instance (1.11M states) before
  the proof was written.

  The lemmas `RevokeOutcome`, `DestroyOutcome`, `IssuerOutcome` and
  `HookOutcome` state what each hook yields. `RevokedRow` states what a
  revoked row keeps.

`RecoveryExtension_proofs` proves one theorem for any set of callers and
address texts:

- `NoDuplicatesStayOut`: `Spec => [](TypeOK /\ NoDuplicateAddresses)`.
  `NoDuplicateAddresses` is not inductive by itself. Between `Decide` and
  `AppendAddress`, a goroutine holds an address it has not appended yet. The
  inductive invariant `Inv` therefore adds two conjuncts:
  - `Mutex`: only the holder of `r.l` is between `Lock` and its return;
  - `FoundFresh`: what a goroutine about to append decided is not in `v`.

  `Decide` keeps `FoundFresh` because it looks the address up in `v` under
  the lock. `AppendAddress` then keeps `v` distinct (lemma
  `AppendDistinct`). `Mutex` guarantees that no other goroutine can append
  in between. `Finish` copies `v` into the identity.

  The lemma `HasSpec` states what `has` returns. When some entry matches,
  the least matching index exists (`WFMin` on `<` over `Nat`), and `has`
  returns an address with the needle's value and via. Otherwise it returns
  `None`, which is no address (`RecoveryAssumption`).

- `RunIsAtomic`: `Spec => RunAtomic`, so `RecoveryExtension` implements
  `RecoveryRun`. `Inv` gains two conjuncts for it:
  - `FoundCurrent`: a goroutine about to append holds what `FoundFor`
    gives on the current `addrs` and `v`. This holds because `Mutex` keeps
    every other goroutine from changing `v` in between.
  - `RetDone`: a caller with a return value is done.

  The step lemma `NextRefines` maps each action:
  - `Lock` and an email `Decide` are stutters of the abstract spec;
  - `AppendAddress` and a non-email `Decide` are `Run(c)`;
  - `Finish` is `Finish`.

`RpcRouter_proofs` proves one theorem for any number of injector calls:

- `RouterAlwaysComplete`: `Spec => []RouterComplete`. The inductive
  invariant `IInv` adds three conjuncts:
  - `ReturnedHoldMap`: a caller that returned saw `done` and holds the map;
  - `DoneComplete`: once `done` is set, the map routes `getHistory`;
  - `InOnce`: a caller inside `f` holds `m` before `done` is set, and while
    filling the map it is that map's maker.

  `MakeRouter` may replace the map only because `InOnce` puts it before
  `done`. By `ReturnedHoldMap`, no caller has returned at that point.

`RecoveryExtension_proofs` also proves, from the same `Inv` and a second
invariant `Inv2`:

- `RecordsReusedAfterFinish`: `Spec => []StoredRecordsReused`;
- `FinishInstallsInputs`: `Spec => []FinishReflectsInputs`.

Both properties speak only of the state after `Finish`, so they are not
inductive. `Inv2` says what the buffer holds before then:

- an entry is the stored record exactly when its text was stored before
  (`StoredOK`);
- the buffer's texts are the texts of the email callers that returned
  (`EmailDone`);
- an email caller that returned nil had a valid address (`NilValid`);
- before `Finish`, the identity's addresses are the stored ones
  (`Loaded`);
- after it, they are the buffer (`Installed`).

The lemma `FoundForSpec` states what `Decide` finds: the stored record, a
fresh address, or `None` when the text is already in the buffer.

`SessionHooks_proofs` also proves the action property:

- `RevocationScoped`: `Spec => RevokeScope`. Only `TypeInv` is needed. Every
  persist step writes an active row, so only a post hook deactivates a
  session. By `HookOutcome`, that hook is a successful `SessionDestroyer` run,
  whose revoked store (lemma `RevokedOnly`) deactivates only other sessions
  of the request's identity.

`SessionHooks_response_proofs` proves, for every set of identities, session
ids and requests:

- `EveryRequestAnswered`: `Spec => []Answered`;
- `RegistrationDelivery`: `Spec => []SessionDeliveredPerVariant`.

Both speak of finished requests. Their common inductive invariant
`RespInv` is `TypeInv` plus, for each request, `ReqOK`:

- `AnsweredOK`: an unfinished request has not been answered, and a request
  about to suppress the abort sentinel has already written. The lemma
  `AbortWrote` says every hook that raises the sentinel wrote the body.
- `DeliveredOK`: there is no `SetToken` before the hook, and a registration
  whose hook did not fail already carries the delivery its flow type
  requires (lemma `IssuerDelivers`, over every branch of `SessionIssuer`).

Each action changes one request's entries. The lemma `Frame` carries `ReqOK`
over for the other requests, and `BeginOK`, `FailOK`, `PersistOK`, `HookOK`
and `RespondOK` prove it for the request that moves. TLC checked `RespInv`
on the `session_hooks` instance before the proof was written.

`AppMain_proofs` proves:

- `ShutdownBeforeExit`: `Spec => []ServersShutDownOnExit`. The returning
  step shuts only the RPC server, so the invariant needs `HttpShutFirst`:
  whenever `main` is about to shut the RPC server, the HTTP server is
  already shut.

`Daemon_proofs` proves:

- `FailuresAreReported`: `Spec => []FailureReported`. It rests on two
  conjuncts:
  - `ErrorKept`: the errgroup's error is set as soon as a goroutine failed.
    `ReturnFiltered` turns only `context.Canceled` into nil, and a drain
    timeout stays an error.
  - `ReturnedGroupError`: `Wait` returned the group's error after every
    goroutine was done, so nothing changes it afterwards.

`CredentialCounting_proofs` proves, for every credential map the model
builds (any recovery-code count in `RecoveryCodes`, any webauthn flags in
`WebAuthnFlags`):

- `CountsFollowTable`: `Spec => []CountsMatchTable`;
- `ValidatedWebAuthnFollowsTable`: `Spec => []ValidatedWebAuthnCounted`.

The counts are sums over a map's keys with `MapThenSumSet`. Two lemmas
unfold its recursive function by exhibiting a function that satisfies the
defining equation: `SumEmpty` (the sum over no keys is 0) and
`SumSingleton` (the sum over one key is that key's term). A map holds at
most one credential per type (`MapsWellFormed`, `WellFormed`), so each
loop counts at most one entry. `LoopAgrees` then says a loop's result is
the table's row for that entry. `PasswordAgrees`, `LookupAgrees`,
`TOTPAgrees` and `WebAuthnAgrees` apply it to each strategy's test, and
`CountAgrees` covers every strategy and factor class.

The inductive invariant `IInv` says:

- `creds` stays one of `CredentialMaps`;
- `Counted`: the last result is `Count` on the current map;
- `ValidatedHasIdentifiers`: once `validateCredentials` accepted, the map
  has a webauthn entry with identifiers.

`ValidatedWebAuthnCounted` needs the last conjunct: the table counts a
webauthn entry only when its identifiers are set. TLC checked `IInv` on the
`credential_counting` instance (396,576 states) before the proof was
written.

**Model-checked only.**

- Liveness: `ShutdownCompletes` and `StopsWhenAsked`. They need fairness and
  `ENABLED`, which are beyond TLAPS here.
- The properties of the violation runs. TLC finds them violated, so there is
  nothing to prove.

No module reached from a proof uses RECURSIVE. `Folds` defines
`MapThenFoldSet` with a recursive function, not a `RECURSIVE` operator, so
the proofs above can unfold it.

## 6. Not modelled

- HTTP routing, middleware and CSRF plumbing.
- The OIDC wire protocol.
- UI node construction (`credentials_lookup.go`, `nodes.go`,
  `attributes_input_csrf.go`).
- Courier templates.
- The DI registry (`driver/registry.go`): interface declarations and
  provider getters.
- `wire.go`: `wire.Build` declarations only. The generated injectors of
  `wire_gen.go` are modelled where they feed the RPC router.
- The link strategy's `strategy.go`: dependency interfaces and the
  constructor.
- The dependency interfaces and constructors of the other strategies, their
  `NodeGroup` and `ID` constants, and `serve.go`'s `sqa` telemetry set-up.
- The CLI command tree (`cmd/root.go`).
- Test helpers.

These are construction or formatting with no state a property could tell
apart. Modelling them would mean transliterating declarations, so the map
leaves them out even though they make up most of the unmapped lines.

The hook executor, session persister and flow handlers are not in `src/`.
Their parts of `SessionHooks` follow the spec and are marked
`spec_modelled` in the map.
