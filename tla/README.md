# Tetherplane: a verification development

Tetherplane lets AI clients operate a computer: a local agent (`tetherd`, Rust) executes capabilities and has the last word on policy, a relay (TypeScript) routes remote calls to it, a browser extension and a bridge give access to tabs, and adapters translate for the clients.
This directory holds TLA+ models of the parts whose correctness depends on interleavings, crashes, retries, leases, awaits and bounded buffers, the TLC configurations that check them, and proofs that TLAPS checks.

Every definition was written from the source.
`PROJECT.json` maps each of them to its file and lines (`map`), lists the hazards in the code and the properties aimed at them (`hazards`), and names for every checked property a mutated definition that breaks it (`mutants`).
A definition called `Def_Slip` in a module is such a mutant: `Def` as it would be after a plausible slip.

## 1. The system

### Components, their state and their operations

| Component | State | Operations |
| --- | --- | --- |
| tetherd runtime, idempotency store (`agent/tetherd/src/runtime.rs`, `idempotency.rs`) | a mutex in memory; two files per identity, `<id>.pending.json` and `<id>.complete.json` | execute an invocation, execute a keyed mutation: lookup, reserve, run, complete |
| durable job store (`job.rs`) | one JSON file per job: status, checkpoint, execution lease; one mutex | create, get, list, checkpoint, acquire and release lease |
| audit log (`audit.rs`) | an append-only file | append, bounded read |
| tether-core (`agent/tether-core`) | none but handles and ownership maps | policy decision, route, batch, budget |
| search provider | per search: worker thread, bounded channel, gate, three atomics | start, read, stop, list |
| process provider | per session: child, reader tasks, output buffers, verdict, child mutex; ownership registry | run, start, read, input, list, terminate |
| filesystem provider | the file system | read, list, write, patch, move, remove |
| desktop provider | foreground leases, pointer, private clipboard, UI Automation references | acquire, get, release lease; pointer move; semantic actions |
| browser provider | none: one connection per call | call of the bridge RPC server |
| relay: device registry (`relay/src/devices/registry.ts`) | pairing codes and bindings in memory, a state file | start and approve pairing, authenticate, revoke, persist, load |
| relay: gateway and router (`ws-gateway.ts`, `device-router.ts`) | sockets, connections by generation, pending routes with timers | connect, disconnect, call, result, timeout |
| relay: login proofs (`login-proof-registry.ts`, `login-proof-http.ts`) | two maps of proofs, by login and by code | start, approve, take |
| relay: MCP gateway, OIDC, control HTTP | MCP sessions bound to an identity | attach, post, close; verify; pair, revoke |
| authorization server (`auth/src`) | rows of a SQLite store: interactions, grants | begin, complete, consent, revoke, close |
| tetherd relay client (`relay_ws.rs`) | one socket | connect, execute, reply, reconnect |
| browser bridge: channel and RPC (`browser/bridge/src`) | pairing broker and pin file, WebSocket clients, pending commands | pair, choose a client, serve, call, pump, end |
| browser bridge: verified actions | none between requests; references the client keeps | snapshot, execute actions, wait, upload |
| browser bridge: isolated Chromium (`cdp-*.ts`) | process, profile, DevTools connection, sessions of targets | launch, create, navigate, use, diagnostics, close |
| extension: tabs (`extension/browser/src`) | page records in memory and in `chrome.storage.local` | initialise, create, navigate, close, act, upload, share, detach |
| extension: session and loop | configuration, bridge session, command queue | pair, connect, receive, run, reply, reconnect |
| model worker (`adapters/model-client/src`) | the job in hand, its lease | discover, lease, act, checkpoint, release, supervise |
| compact MCP and RDC adapters | pending calls by id; handle numbers | translate and forward |

### Interactions

A client's call reaches `tetherd` over stdio, or over HTTP to the relay, which sends it down the device's WebSocket.
`AgentRuntime` checks the policy, passes keyed mutations through the idempotency store, and routes to a provider.
The browser provider asks the bridge's RPC server, which sends commands to the extension (or to an isolated Chromium over CDP); the extension's command loop runs one after the other, while the person's popup messages come in between.
The model worker is a client: it finds a job in the store, takes its lease, acts, and writes checkpoints.
The relay's registry decides which socket may stand for a device; its router owns the calls pending on that socket.

### What is hard

- **Concurrency.** tetherd runs a task per request; locks are held across awaits (idempotency, child process) or dropped between a check and its use (foreground lease, process status). The Node programs interleave at every await.
- **Crashes.** State files are replaced in several steps, and each step may be the last; the extension's worker is killed at will.
- **Retries and late answers.** Clients retry keyed mutations; a route can be ended by a result, a timer, a disconnection or a revocation.
- **Bounded buffers.** Search results and process output are dropped or block.
- **Waiting.** Locks, output pipes and closing sockets can be waited for without a bound.

### What makes each component correct

- Idempotency: a keyed mutation runs at most once; retries get its result or a refusal; where executions end, every call is settled.
- Job store: a granted lease stays until it is released or expires, an acknowledged checkpoint is not rolled back, an acknowledged job is lost only while its file is being replaced (section 3).
- Relay: routes wait only on current connections, a revoked device is offline, every call is answered once, and never executed because of a reconnect.
- Device registry: the file can always be loaded and holds what was acknowledged.
- Search: an answer that says done is final; a stopped worker ends.
- Foreground lease: what was altered under a lease is restored, and the lease ends once.
- Process session: offsets are stable, a final answer is complete, and requests end when the process does.
- Tab ownership: what happens to the person's tab was consented to, and withdrawing the consent lasts.
- Model worker: it acts on a job under its own lease, from where the job was left, and gives the lease back.
- Bridge channel: one extension is paired, an answer belongs to its call and tells what was done, a lost session leaves nothing to be done later, and the host goes on to the next one.
- Isolated Chromium: a navigation is never answered by a document that was there before its own, a target has one session, and neither process nor profile outlives the browser.
- Verified actions: an action falls on the element the client meant, and the verdict says what happened.
- Login: who is logged in owns the device that approved this login with its code, and a proof counts once.
- Policy and batch (not modelled): the decision equals its definition for every request; a batch stops at its first failure.

## 2. Modules

| Module | Models | Composed with |
| --- | --- | --- |
| `Idempotency` | `AgentRuntime::execute_idempotent` and `IdempotencyStore`, a task per call, several daemons | implements `OnceOnly` |
| `OnceOnly` | what a keyed mutation promises: claimed once, executed once, one outcome | |
| `JobStore` | the job operations as file steps under a mutex | |
| `ModelWorker` | a worker's run and its supervisor, each of its calls a request of the job store | extends `JobStore` |
| `DeviceRouter` | registry in memory, gateway, router, sockets with two ends, tetherd's relay loop | implements `RemoteCall` |
| `RemoteCall` | a remote call as its caller sees it | |
| `DeviceRegistry` | codes, bindings, `#persist` on inodes | |
| `SearchSession` | worker thread, channel, gate, atomics, the four requests | |
| `ForegroundLease` | lease store, pointer, restoration, the person | |
| `ProcessSession` | child, reader task, buffer, verdict, the requests | |
| `TabOwnership` | tab controller, storage, command loop, popup, worker life cycle | |
| `ExtensionPairing` | pairing broker, pin file, configuration of the extensions | |
| `BridgeChannel` | host, WebSockets with two ends, backend and pump, RPC calls, the extensions' loops and command queues | extends `ExtensionPairing` |
| `CdpBrowser` | launch, DevTools connection, sessions, navigation, close and clean-up | |
| `SemanticPage` | a page that changes, the page script's descriptions and selectors, the verified action engine, both backends | |
| `LoginProofs` | the relay's registry of login proofs | |
| `AuthLogin` | the authorization server's interactions, store and closing, with the devices and browsers around it | extends `LoginProofs` |
| `IdempotencyProofs`, `JobStoreProofs`, `DeviceRouterProofs`, `SearchSessionProofs`, `ForegroundLeaseProofs`, `TabOwnershipProofs`, `BridgeChannelProofs`, `AuthLoginProofs` | theorems | extend the module they are about (`JobStoreProofs` extends `ModelWorker`, and with it `JobStore`; `AuthLoginProofs` has `LoginProofs` with `AuthLogin`) and, four of them, a second component: `AuthLoginProofs` also `DeviceRegistry`, `SearchSessionProofs` `ProcessSession`, `BridgeChannelProofs` `CdpBrowser`, `ForegroundLeaseProofs` `SemanticPage` |
| `MC*` | model values and symmetry for TLC | extend the module they instantiate |

### How state and actions correspond to the code

**Idempotency.** `pc[c]` is where the task of call `c` is in `execute_idempotent`; `pending` and `completed` are the two files. `Send` delivers an invocation, `Lock` takes the store's mutex, `LookupCompleted` and `LookupPending` are the two reads of `lookup`, `ReserveCreate` and `ReserveWrite` the `create_new` and the `write_all` of `reserve`, then `Execute`, `Complete`, `Publish` (rename) and `Cleanup`. Calls without a key pass through. `Crash(d)` loses the tasks of a daemon and nothing on disk. A file created and not yet written is `Torn`. The history variable `ran` holds the calls that were executed.

**JobStore.** A request enters when the mutex of its process is free and keeps it: it loads and decides in one step, and stores in three (write the temporary file, `remove_file`, `rename`), each of which may fail (`StoreRefused`, `RenameFails`). `list` loads and prunes one file after the other. A checkpoint is its number, a lease its number, owner and expiry.

**ModelWorker.** `wk[w].at` is where `runOnce` is. `Discover`, `Reads` and `Listed` are the listing, in which the worker keeps the first free job with the checkpoint it was listed with (`seen`); `Acquires`, `Checkpoints` and `Releases` are requests that go through the steps of `JobStore`, of which `Stores` and `Told` are the later ones. `Acts` is every other action. The model is external: it takes any time, chooses any action or fails. `Fails` is the exception that reaches the supervisor, `Restart` the worker after the back-off. `left` records leases in a job when a run is lost with its tetherd or its release fails.

**DeviceRouter.** The relay is one Node process, so a handler up to its next await is one action. The n-th accepted socket is generation n, as in `DeviceRouter.connect`. A socket has two ends (`link`, `ready`) and two queues. `Break` cuts it; `PeerGone` and `SocketClosed` are the relay noticing and the `close` event, which for a superseded socket comes late. A call whose message cannot be sent is answered when the timer fires or when the failure is reported (`SendFails`), whichever is first. `Revoke` to `RevokeDone` spans the await of the registry's write. The agent takes, executes and replies in three steps, and may leave in between.

**DeviceRegistry.** `ApprovePairing` and `Revoke` change memory and start a request; `stage[r]` follows `#persist`: mkdir, open (truncating), write, rename; each may fail, and the relay may crash at each, after which `Restart` loads what the file holds. Files are inodes because concurrent requests share the temporary name and one renames what the other still writes.

**SearchSession.** The worker's `pc` follows the traversal and `send_bounded`; a request's follows `read_unseen`, `cancel` or the listing. The gate covers only the two ends of the channel, the atomics are read and written outside it, one step each.

**ForegroundLease.** One action per call of the lease store; a request (`get`, `release`, `move`) is several of them, and works on the copy `seen[t]`. `PersonMoves` and `PersonRests` are the person; the idle check reads `humanIdle`.

**ProcessSession.** `doing[t]` follows a request through `status`, `finish_readers`, `terminate` or `input`, with `ret[t]` the place status returns to. The child writes, reads, forks and exits when it likes. Bytes are numbered: the buffer is `base`, `length`. The reader task may fail (`PumpFails`), which makes the one request that joins it fail.

**TabOwnership.** `page` is `#pages` (the ownership registry is always registered with it), `storage` what `chrome.storage.local` holds, `writes` the `storage.set` calls under way. Each command is a step up to its await (`Navigate`), one after it (`Navigated`, which records the copy it read before), and `Acknowledge` when the write has landed, or `WriteFails` when storage refuses it: the call fails then, and what it recorded in memory stays. `Upload` is authorised when it arrives and takes effect in `SetFiles`. `Current` is `#requirePage`: a grant that has run out is gone when somebody looks. `Kill` and `Load`/`List` are the end and the start of the service worker.

**ExtensionPairing, BridgeChannel.** `host` is the host's main loop: pairing, choosing a client, serving it, closing the RPC server, which waits for every open connection (`conns`, also one that never carried a call: `RpcConnect`, `RpcHangUp`, `RpcClosed`). `preq[r]` is where the handler of a pairing request waits (the body, the pin file). A WebSocket has two ends, each closed on its own, with messages under way; the host's side keeps a mailbox (`box`) because the backend takes one message at a time. `call[c]` is an RPC call with at most two commands (synchronise the pages, then the operation). `Issue` registers a command as pending and sends it, `PumpTakes` gives an answer to its call, `PumpFails` fails all that is pending. On the extension's side `inbox` holds commands that wait for the runtime, `running` the one it executes.

**CdpBrowser.** The browser handles commands in order, so a command takes effect in the step that delivers its answer: each action named for an answer (`Created`, `Attached`, `Enabled`, `Navigated`, `TreeSeen`, ...) is the code from one await to the next. Documents are committed by the browser when it likes (`Commit`); the history `order` says which was shown no later than which. A poll reads the frame tree (`TreeSeen`) and then the readiness (`Evaluated`) without looking at the loader again, so `answered` has both the document that was asked for and the one that was shown when it answered. `life` follows launch and close, `stop` the clean-up's list of processes. Two processes exist because the spawned one may start the browser and end.

**SemanticPage.** `kids`, `name` and `value` are the page; `SelectorFor` and `Query` are what the page script writes and what it looks up, `Described`, `Matching` and `Found` the description and its matching. A selector is an id, or the tags and positions on the way from the body; `Fitting` are the nodes it fits, of which the browser takes the first in document order (`Precedes`). `PageAssumption` says what a document is: finite, with one body and no other node of its tag. Which node has which id is the page's own business: `form` gives every node an id or none, two nodes may have the same, and `form.limit` is how many of the `Candidates` the script describes before it cuts (`Listed`; 500 in the code). Two elements with one description differ by their `place` and make it ambiguous. `eng.at` follows one request through observing, acting and settling; a CDP backend observes in two steps (`ReadFrames`, then the elements), for the client's snapshot too. An action falls on an element or navigates (`GoTo`), an expectation is about an element or about the resource (`Changed`), and the backend may fail before an action or after its effect (`Fails`, `Act`). A wait may end at any look, which stands for its limit of 20 attempts. `PageChange` is the page's own life, between any two steps.

**LoginProofs, AuthLogin.** `reg` holds the two maps, and every operation prunes first. `h[i].at` is where a request of the authorization server waits: for the relay's answer, between taking a proof and finishing the login, between saving a grant and noting the consent. Browsers complete a login, and devices approve one, with any code, as the forms take any that is well-formed. `rows` is the store, which survives `ServerStops`; proofs do not survive `RelayStops`. A login that was noted stays a login until the browser comes back to the provider (`Resumes`); the provider then opens another interaction for the consent, which has the same identifier here. `last` is a history: the last proof the running relay has started for each login. When the relay's answer to a start is lost, nothing in either process differs; when that to a taking is lost, the second disjunct of `TakeProof` answers the request without it.

## 3. The runs

Bounds are constants named in the module (`Max...`) or small sets in the MC module.

| Run | Question | Bounds, and why they are enough |
| --- | --- | --- |
| `idempotency` | Is a keyed mutation executed at most once and answered faithfully, and is every call settled where executions end? | three calls (a call and two retries, or two conflicting mutations), one identity, two fingerprints, two results, one daemon; crashes unbounded. Identities share no file, so one suffices; three calls give lookup, reservation and publication to different calls. Checks `ImplementsOnceOnly` as a refinement. |
| `job_store` | Do leases and checkpoints survive everything else done to the job? Does a worker act under its own lease from where the job was left, and give the lease back? What can take an acknowledged job away? | two clients of one process, one worker with its own process and principal, one job, two leases, one checkpoint, two actions of the model, one tick: a lease can expire under its holder, be taken over and meet a late release. Any step of a store may fail. Requests of the two processes do not overlap (`ApartSpec`), which is what `LeaseKept` and `RunTrue` suppose. |
| `device_router` | Do the maps agree, are routes on current connections, is a revoked device offline, is each call answered once and executed at most once? | one device paired, revoked and paired again; two calls; three sockets, so that a superseded one closes late after its successor was itself replaced. Checks `ImplementsRemoteCall`. |
| `device_registry` | Can the file always be loaded, and does it hold what was acknowledged? | two devices, two requests, two temporary files created, so that one request renames the file another is writing |
| `search_session` | Is done final, is completed complete, does a stopped worker end, are requests answered? | capacity 1 (every send can block), up to three matches, at most two results, reads of up to two, three requests by two callers |
| `foreground_lease` | Is the pointer given back, the restoration never forgotten, a lease ended once? | two requests at a time, two leases, two positions, one tick, five requests |
| `process_session` | Are offsets stable, final answers complete, reasons kept, requests answered once the process is gone? | buffer of two bytes, three written (it overflows), two requests, a reader that may fail at any moment |
| `tab_ownership` | Is every effect within consent, does a detaching last, does the agent keep its tabs? | two tabs (a persist writes the records of both), one popup message at a time beside the command loop, two decisions (share, detach), one tick, so that a grant expires; any write to storage may fail |
| `bridge_channel` | Is one extension paired, is an answer that of its call, is nothing executed for a lost session, does the host go on where its clients do (`ClientsGoOn`)? | two extensions, two pairing requests, two sockets (an old and a new session), two calls with a connection each, two deaths, of two the second the host's (`DeathsBounded`) |
| `cdp_browser` | Is a navigation answered by its own document or one shown after it, is there one session per target, is everything cleaned up, does everything end? | one target, two calls at a time that may attach or navigate it together, two documents of which one supersedes the other |
| `semantic_page` | Does a selector find its element, does an action fall on what was meant, is the verdict true? | two buttons, two sibling containers of which one is named, two names, two changes of the page, requests of up to two actions. Two forms of the page: a button and a container share an id, so a selector may find the wrong one of them; or one button has an id of its own and the list is cut after one element, so the other may be unlisted |
| `auth_login` | Does only an approval of this login log in, and once? Is a new proof refused only with reason? Does a consent name a stored grant? | two logins, two codes (any of them in any request), two proofs, two requests at a time, two accounts, two grants, one stop of a process |

`CHECK_DEADLOCK FALSE` stands in every configuration: all of these programs may stop, when clients ask no more or a bound is reached.
Symmetry is used where no liveness property is checked.

### What the bundled properties are made of

Properties that one walk over the states decides together are conjunctions of named parts, and each but `LeaseKept` includes its module's type invariant:

| Property | Parts |
| --- | --- |
| `OutcomesTrue` (Idempotency) | `AtMostOnce`, `ReplayFaithful`, `RefusedNeverRan` |
| `RecordsTrue` (JobStore) | `CheckpointKept` |
| `LeaseKept` (JobStore) | `LeaseExclusive`, and the lease stays in the record |
| `RunTrue` (ModelWorker) | `InStep`, `ActsUnderLease`, `BeginsAtLatest` |
| `RoutesTrue` (DeviceRouter) | `MapsAgree`, `RoutesOnCurrent`, `RevokedOffline` |
| `FileTrue` (DeviceRegistry) | `FileLoads` |
| `AnswersTrue` (SearchSession) | `DoneMeansDrained`, `CompletedIsComplete`, `QueuedWithinCapacity`, `DoneSaysHow` |
| `MovesTrue` (ForegroundLease) | `MoveUndone`, `PointerGivenBack` |
| `OutputTrue` (ProcessSession) | `OffsetsTrue`, `ReasonKept` |
| `ConsentTrue` (TabOwnership) | `WithinConsent` |
| `CallsTrue` (BridgeChannel) | `AnsweredTruly` |
| `SessionsTrue` (CdpBrowser) | `OneSession` |
| `PageTrue` (SemanticPage) | `Tree`, `SelectorFinds` |
| `StoresTrue` (AuthLogin) | `MapsAgree`, `GrantsKept` |

### Where code and documents differ

Four places met while modelling; no property claims what the document says there, and the properties around them say how far the code goes:

- `JobProvider::store` (job.rs:410) removes the record before it renames the new one. A crash in between, or a rename that fails (job.rs:414, the caller gets an error), leaves only the temporary file, which nothing reads: an acknowledged job is lost, although recovery.md:9 counts on it. Any operation that stores can do this, a `get` or a `list` that prunes an expired lease too. `JobDurable` says that nothing else loses one: not a write or a removal that fails, not a crash before the removal.
- `revokeDevice` (registry.ts:149) marks the device in memory before it writes. If the write fails, the request fails; asked again, it finds the mark, writes nothing and reports success, and a restart lets the device in, against remote-plane.md:46-49. `AckedStored` is stated for a relay none of whose writes failed.
- `terminate` first asks for the status, which waits without a bound for the child's mutex (held by an input the child does not read) or for an output pipe a descendant holds (session.rs:263, :419). The forced kill is then not reached, against the local-core plan, line 723. `AnsweredOnceGone` begins when the process is gone.
- `navigate` (index.ts:139) records, after its await, the page it read before. A detaching in between is acknowledged and undone, in storage too, against controller.test.ts:248. `RevokedStays` excludes it (`~crossed`).

### Conditions in the properties

Where the code does not keep requests apart, a property that needs them apart says so with a history variable, and the exception is a fact about the code:

- `~overlapped` in `DeviceRegistry`: concurrent persists share one temporary name (registry.ts:197), so an acknowledged pairing may be missing from the file, which may even be left empty (self-host.md:221 counts on it).
- `~overlapped` in `ForegroundLease`: a move can follow an acknowledged release, because `authorize` hands out a copy (lib.rs:435); two requests can restore twice.
- `~crossed` in `ForegroundLease`: a second lease granted while one is open takes the position the agent chose as its baseline, and its release leaves the pointer there (lib.rs:352, against the design, line 300).
- `pump /= "failed"` in `FinalOutputComplete`: the request that joins a failed reader fails, and the next one answers without what was not read (session.rs:412-435).
- `~overlapped` in `ProcessSession`: a second status that finds the verdict set does not wait for the output (session.rs:332), and the reason of the end may be replaced (session.rs:200).
- `~crossed` in `TabOwnership`: the last difference above; the same holds for a decision during a pending creation.
- `SingleDaemon` in `Idempotency`, `~overlapped` in `JobStore` and `ModelWorker`: the mutexes are in memory. Two daemons over one state directory execute a keyed mutation twice, and grant two leases on one job.
- `WithinConsent` is about the moment a command was accepted: an upload is set five debugger calls later (operations.ts:157), after a detaching too.
- Expiry in `ActsUnderLease`, a lease granted in between in `BeginsAtLatest`: the worker never renews its lease (model-client index.ts:266) and starts from the checkpoint of the listing (:271), so after the one it may act beside another holder, and after the other from an older checkpoint.
- `eng.current.seen.nodes = Observation(document).nodes` in `ActedOnReferent`: the page's script is given a selector by position and does not check the identity again, so a page that rerenders between the observation and the action has another element there (action.ts:213). And where several nodes have one id, `SelectorFinds` and `ActedOnReferent` promise only one of these nodes (`OwnId`): the script writes down an id without looking whether it is unique (page-agent.ts:404, cdp-control.ts:1488), and the browser takes the first.
- `ClientsGoOn` in `HostMovesOn`: closing the RPC server waits for every open connection, also one that never sent a line (rpc-server.ts:376-383), and closing the broker for the end of every body (pairing.ts:119-132, :172); neither has a timer.
- `NavigationTrue` lets a later document answer: readiness is evaluated after the frame tree was read, and its loader is not looked at again (cdp-control.ts:793-824), so a document that supersedes the call's own in between answers for it. That the answer is never older is what the loop is for.
- `survivors` in `CleanedUp`: the clean-up goes on when a process survived its forced termination (process-cleanup.ts:70-83).
- `sole \/ known` in `CleanedUp`: a launch that fails after the browser has told its process id forgets that id, and a browser that the spawned process has started goes on running (cdp-control.ts:928).
- `life \in {"failing", "stopping"}` in `NothingHangs`: before that, `close()` waits for the browser's answer without a limit (cdp-control.ts:567).

Other limits seen while reading and not checked by a run: a call is routed over the connection of a device's former binding until that ends (device-router.ts:265); a second open pairing code replaces the binding the first one made (registry.ts:103); list_sessions unregisters the PID of dead sessions every time, whoever has it now (process lib.rs:171); the person may take the mouse between the idle check and the move (desktop lib.rs:440).

### Fairness

- `Idempotency`: weak fairness of the store's steps for a started task (tokio polls it), strong fairness of taking the mutex (tokio's is FIFO). Nobody has to send, no daemon has to crash, and a capability need not end: `process.input` is a keyed mutation whose write blocks while the child's pipe is full (session.rs:263), and it is executed with the mutex held (runtime.rs:166-177), so every later keyed call of that daemon waits as long. `EveryCallSettles` is therefore conditional: where every execution ends (`ExecutionsEnd`), every call is settled.
- `BridgeChannel`: weak fairness of the host's loop, of the pump and of the handlers that wait for the pin file (Node runs what is ready, file operations end). Browsers, extensions and clients owe nothing, so `HostMovesOn` is conditional: `ClientsGoOn` names the two things the host waits for without a timer, the body of a pairing request and the hanging up of an RPC connection that carries no running call.
- `CdpBrowser`: weak fairness of a poll's timer, of noticing a closed connection and of the clean-up. The browser owes no answer.
- `DeviceRouter`: only the timer of a route is fair (Node fires it). Networks, devices and persons owe nothing.
- `SearchSession`: weak fairness of the worker thread; strong fairness of a request, because a worker that waits for room takes and gives up the gate again and again.
- `ProcessSession`: weak fairness of the reader task and of a wake-up, strong fairness of a request's steps and deadline (tokio's mutex is handed over in order). The child owes nothing.
- The other runs check no liveness.

## 4. Proofs

`IdempotencyProofs` (any number of calls, daemons, identities, fingerprints and results):

- `TypeCorrect`, `ReservationExcludes`, `PublishedRecordFinal` without further assumption: the files alone admit one call of an identity between creation and removal of the reservation, and a published record is final.
- `ExecutedAtMostOnce`, `ReplaysAgree`, `RefusalsExecuteNothing` under `SingleDaemon`. The invariants are not inductive by themselves. The strengthening says who holds the mutex, what a task past the lookup knows about the two files, and that an executed identity has a reservation, a published record or the one task that will publish; AtMostOnce follows because a task reaches `execute` only if neither file existed while it held the mutex. `OutcomesHold` combines them into the property of the run.
- `OnceOnlyImplemented`, under `SingleDaemon`: every step is a step of `OnceOnly` or leaves its variables alone. The reservation is the abstract claim; that the claim is free when it is taken, and that a published result is the one of the execution, is what `SingleInv` says.

`SearchSessionProofs` (any callers, capacity, limits):

- `TypeCorrect`, `DoneIsFinal`, `CompletedMeansAll`, `CounterHonest` (the unsigned counter stays within the capacity), `DoneNamesTheEnd`. The strengthening relates the counter to the channel through the positions of the gate's holder: between adding to the channel and counting, or between taking and uncounting, they differ by one, and the gate allows one such position. That done is final needs that a sender checks the cancellation again under the gate. `AnswersHold` combines them.

`TabOwnershipProofs` (any tabs, popup messages, durations and grants):

- `TypeCorrect`, and `ActsWithinConsent` (`WithinConsent` without conditions: races, expiry and restarts of the worker included). A page record is read, captured by a command over an await, written, stored and loaded again, so the strengthening (`Grounded`) speaks of all these copies at once: a record with authority is backed by what happened to its tab, either the agent opened it or the person gave this very grant, and what backs a record is never taken back. Looking at a record again only removes authority. A stale copy may therefore undo a detaching (see the differences above), but it never reaches beyond a grant. `ConsentHolds` combines the two.
- `RevocationStays` and `CreatedStaysOwned`, from a second invariant (`Custody`). An acknowledged decision must hold in the page, in the record a restarted worker would load, in each queued write behind the one that carries it, and in what a command under way has captured: a detaching leaves no authority in any of them (`Withheld`), a creation leaves `tetherplane` in all of them (`AgentsOwn`). For this a write has to know whether it is that of the last decision about its tab: two decisions about one tab may be pending at once, and the acknowledgement of an earlier detaching comes when a later sharing is already queued. A history variable that only said *decided* did not tell the two apart, and `RevokedStays` as first stated failed for it beyond the bounds of the run; `last` now holds the task of the last decision.

`JobStoreProofs` (any callers, processes, jobs, permissions, lifetimes and workers):

- `RecordsStayTrue`, `JobsStay`, `LeasesStay`: from `IInv`. What a request has loaded is about to replace the record, so what is acknowledged (a checkpoint, a lease) must be in the file and in every such copy (`Kept`); a lease that was minted and not yet granted is nobody's (`Fresh`), ids identify leases wherever one is seen (`Unique`), and a created job is missing only while its request is between removal and rename (`Durable`). These hold while no two requests overlap, which is what the properties suppose; `Requests`, `Used` and `Unique` hold always.
- `RunsStayTrue`, `LeasesReturned`: the workers, from `WInv`. `Linked` ties a worker's place in its run to its request in the store, `Held` says under which circumstances a lease of the worker's is in a file, `Under` names the grant it works under, `Latest` follows the checkpoint it read in the listing through the acquisition to its first action. They suppose `OwnPrincipal`, that no other caller authenticates as the worker's principal: a lease belongs to a principal and not to a process (job.rs:350), so whoever shares the profile the worker was started with (model-client cli.ts:56) may release its lease. `LeasesReturned` does not need requests to be apart.

`DeviceRouterProofs` (any devices, accounts, calls, codes and number of sockets):

- `RoutesHold`, `StaysOnline`. `OneConnection`, `Waiting` and `Settled` say that the connection of a device is a socket of that device, a pending route waits on a current connection for a caller that still waits, and the registry knows of every acknowledged revocation. They are what a late close of a superseded socket must not disturb.
- `RemoteCallImplemented`: every step is one of `RemoteCall` or none. At most one execution follows from following the call: in a socket's queue or in an agent's hand it is alone there and not yet executed (`Queued`, `Taken`), not sent it is nowhere (`Unsent`), and a result under way or told is that of one execution (`Executed`).
- `CallersToldTruly`, `AnswersStay`: what `RemoteCall` promises, proved of `RemoteCall` (`PromiseKept`) and carried over by the refinement. A call is executed at most once, a result is told only of an executed call, a refusal only of one that was not, and no late event replaces an answer.

`ForegroundLeaseProofs` (any leases, requests, positions and lifetimes):

- `RestorationStaysOwed`, `EndsOnlyOnce` without conditions: the copy a request works on may be as old as it likes, because the store only moves a lease forward.
- `MovesStayTrue`: with `~overlapped`, the copy of the one request under way is the lease (`CopyTrue`), and with `~crossed` and the person's hands off, the baseline of the one open lease is where the pointer was (`HomeKept`).

`AuthLoginProofs` (any logins, codes, proofs, accounts, grants and requests):

- `LoginsApproved`: a request that has taken a proof holds the login, code and account of that proof, no proof that is still in the relay's maps has been taken (`ProofsTrue`, `TakenOnce`, `Handled`), and an account in a row comes from such a request, of that row's login (`LoggedIn`).
- `StoresStayTrue`: the two maps stay each other's inverse through start, approval, taking, pruning and restart; a row that consents names a grant stored for its account unless that was revoked, a request that consents has the account of its row (`SameAccount`), and a revoked grant does not come back (`RowsTrue`).
- `RefusedOnlyForAReason`: a step that refuses a new proof finds the last one the running relay has started for that login (`LastTrue`) neither old nor taken; after a restart, which loses the proofs, it refuses nothing until it has started one again. This needs a free code for every login, so `AuthAssumption` says that there are at least as many codes as logins, finitely many; the code draws up to eight times among 2^32 (login-proof-registry.ts:147), and that all eight are taken is left out of the model.

`BridgeChannelProofs` (any extensions, pairing requests, sockets and calls):

- `TokenGoesToOne`, from `PInv`: the pin is written once, by the request that found none, and from then on whoever is expected, answered or waits for the file is the pinned extension, over restarts of the host too. `PinStays`, from the same invariant: only a request that found no pin, or its own empty one, writes it.
- `CallsStayTrue`, `BegunWhereSent`, from `CInv`. A command travels from the host's socket to the extension's inbox and its runtime, and its answer back to the mailbox. `Travelling` views all these places as one function (`Held`) and says that a call's command is one message at one place (`Once`), which by its place and form tells whether the call was executed (`Fits`). `Wires` and `Sessions` say that a socket and an inbox hold only commands sent in their own session, `Serving` that what is pending belongs to calls that wait.

The other four components are proved about in the same modules, which extend them as well; the two components of such a module share no state. (Their initial state, next-state relation and specification carry the component's name for this reason: `RegistrySpec`, `ProcessSpec`, `BrowserSpec`, `PageSpec`.)

`AuthLoginProofs`, second part: `DeviceRegistry` (any devices, accounts, codes, requests and temporary files):

- `StateFileLoads`, `AcknowledgedIsStored`, from `RegistryInv`. `Files` holds always: the state file and the temporary name never mean one inode. While requests do not overlap, `OneWriter` says that the one request under way writes an empty file of its own and renames what it has written whole, so nothing writes into what was renamed; while no write fails either, `OneBehind` says that the file lags behind memory by the one binding that is being written, of which nothing is acknowledged yet.

`SearchSessionProofs`, second part: `ProcessSession` (any requests, buffer and output):

- `OffsetsStayTrue`, `LastAnswerIsComplete`, from `ProcessInv`. `Pumped` counts every byte written as pumped or in the pipe, and lets the pump end only after the last writer with the pipe empty; it and `Asking` (what `status()` was called for) hold whatever overlaps. While requests come one by one (`Alone`), the request that reaches the verdict is the one that waits for the pump, and no other knows of a verdict before that (`Judging`, `Verdict`).
- `EndsAreReal` holds whatever overlaps: overlapping requests may disagree about the reason of an end and miss its last output, but none is told of an end before the exit was collected. From `EndInv`: a verdict stands on a collected exit, and is never taken back.

`BridgeChannelProofs`, second part: `CdpBrowser` (any targets, calls and documents):

- `SessionsStayTrue`: the call that has made a target is the only one to know it until its page is ready (`Making`), so nobody else attaches to it; what any other call uses is owned or gone (`Using`), and what is owned has its session enabled (`Attachments`).
- `NavigationsStayTrue`: as long as the connection stands, what a target shows while a call evaluates it is the call's own document or was shown after it (`Shown`).
- `NothingLeft`: what runs and is known is still on the list of the clean-up (`Stopping`).

`ForegroundLeaseProofs`, second part: `SemanticPage` (any page, changes and requests):

- `PageStaysTrue`: a rerendered or reordered page is still a tree, each node once under one parent (`TreeStays`), and in a tree the selector finds its element (`TreeFinds`). A position is the number of siblings of one tag up to a node; among siblings of one tag it rises from one to the next (`PositionsRise`), so a tag with its position belongs to one child of a parent, and a tag without one is written only where there is no other (`OneFits`). Along the path from the body, which only the body fits, one node fits after the other (`ChainOf`, `NodeFits`, `SelectorFits`). With containers one level deep this needs no induction over the tree. An id says less: it fits every node that has it, and that the browser finds one of these at all needs that the order of the document is total (`OrderTotal`) and has a first node in every set that is not empty (`Least`, `QueryFinds`).
- `ActionsFallOnTheReferent`: the reference was found as the only description of its identity in the observation (`Aimed`). Two listed elements never have one description, because their places differ (`PlacesDiffer`), so only one listed element is meant, and while the page is as it was observed the selector written down for it finds it, or a node with its id, by `PageStaysTrue` (`MeantAndHit`).
- `WhatIsToldIsTrue`: what was done is a prefix of what was asked for, with one observation per verdict after it (`Requested`, `Aimed`, `Reported`). It holds whatever the page does and whatever its selectors find.

The assumptions are the named `ASSUME`s on the constants, which TLC evaluates in every run, and where a theorem states it `SingleDaemon` (idempotency) or `OwnPrincipal` (workers). Among the `ASSUME`s, `OwnProcess` of `ModelWorker` is the code's (`LocalAgentClient.spawn` starts a tetherd for each worker); `CallNames`, `TaskNames` and the like keep names of the model apart.

The candidates for the inductive invariants were first checked by TLC on the runs' instances, then proved.

What is only model-checked:

- Liveness: `EveryCallSettles`, `EveryCallAnswered`, `HostMovesOn`, `NothingHangs`, `AnsweredOnceGone` and the other leads-to properties. They rest on fairness, hence on ENABLED.

Every invariant and every action property that a run checks is a theorem, and so are both refinements.

## 5. What comes next

Every component whose state several actors share has its module and its proofs, and every safety property that the runs check is a theorem.
Models that would still add something: the policy decision and batch references of tether-core as operators against a reference definition, and the sessions of the MCP gateway.

## 6. Not modelled, and why

`PROJECT.json` lists every component with its status. Left out of the modules above: validation of arguments and formats (refused without an effect); hashing and token verification; diagnostics and downloads (bounded lists and observations); frames below the first, and of the limits on the number of elements all but the script's own; the PTY backend and tail reads of processes; UI Automation calls (platform behaviour on one worker thread).
Components without a module are sequential functions of one request (policy, batch, budget, translation by the adapters), files written by steps that `JobStore` already has (filesystem writes), wrappers of a library (MCP gateway, OIDC), or command lines, installers, benchmarks and generated types.
External, and modelled only by what the code relies on: the language model, the browser and its page, the OIDC provider, the network, the person.
