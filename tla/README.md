# TLA+ models of mobile-surfaces

Models, model-checking runs and machine-checked proofs about the stateful parts
of `mobile-surfaces`: the methods, HTTP/2 client and retry loop of
`packages/push` with the snapshot contract they project and the errors they end
in, the command line `scripts/send-apns.mjs` and the wizard
`scripts/setup-apns.mjs` that configures it, the token store of
`packages/tokens` and the way its tokens reach `apps/example-backend`, the observers of `packages/live-activity`, the App Group
of `apps/mobile`, and the scaffolder `packages/create-mobile-surfaces`. Paths
below are relative to the repository.

- [Running it](#running-it)
- [Inventory](#inventory): the parts of the system, their state, what is hard
- [The modules](#the-modules): state and actions against the code
- [The runs](#the-runs): what is checked, bounds, fairness
- [Where the documentation and the code differ](#where-the-documentation-and-the-code-differ)
- [The proofs](#the-proofs)
- [Limits](#limits): what is left out
- [Plan](#plan)

## Running it

    tlc -workers 2 -config http2.cfg MCHttp2Client.tla
    tlapm Http2ClientProofs.tla

| `.cfg` | Module |
|---|---|
| `http2*` | `MCHttp2Client` |
| `push_retry` | `MCPushRetry` |
| `push_api` | `MCPushApi` |
| `token_store*` | `MCTokenStore` |
| `token_delivery` | `MCTokenDelivery` |
| `observers` | `MCActivityObservers` |
| `surface_*` | `MCSurfaceStorage` |
| `scaffolder*` | `MCScaffolder` |

`PROJECT.json` lists runs, mutants, findings, hazards, theorems and, under
`map`, the source lines each definition stands for.

In every module a comment that begins with "Mutant:" marks a definition that is
not part of the model: it is the definition below it with one plausible bug, and
`PROJECT.json` names the property that bug breaks.

## Inventory

### packages/push: sending to APNs

| Part | State | Operations | Hard behaviour |
|---|---|---|---|
| HTTP/2 client (`http.ts`) | `#session`, `#sessionPromise`, `#sessionGeneration`, `#inFlight`, `#waiters`, `#idleTimer`, `#closed`, `#closePromise` | `request`, `close`; the listeners of a dial, a session, a stream and a signal | a stream cap that moves while requests hold slots; slots handed from one request to the next; one dial shared by many requests; sessions lost between two awaits; idle close, abort, timeout and close racing each other |
| Retry loop (`client.ts` `#executeWithRetry`, `retry.ts`) | per call: attempt, retried reasons, the bearer in use, hooks fired; per client: `#closed` | the public send and channel methods, `close` | two failure legs on one budget, a refresh of the bearer in the middle of the loop, aborts before and during backoff, close between two awaits |
| JWT cache (`jwt.ts`) | `#entry` | `get`, `invalidate` | shared by all calls: one call drops what another has just minted |
| Pre-flight, payloads, channels (`preflight.ts`, `payloads.ts`, `channels.ts`, `describeSend`) | none | the checks of each method, the request, its preview | the same options are judged in several places: send, preview, command line |
| Errors and reasons | generated tables | lookups | agreement of the tables with each other |

A public method builds headers with a bearer from the cache, then hands them to
the loop; the loop hands one request at a time to the `Http2Client` of its
origin. `close()` of `PushClient` closes both origins' clients.

### packages/tokens: keeping and forwarding push tokens

| Part | State | Operations | Hard behaviour |
|---|---|---|---|
| Store (`index.ts`, `hash.ts`) | the Map of records, hydration flags, the debounce timer, the save in flight | `upsert`, `markEnding`, `markDead`, `markDeadByToken`, `clearDead`, `clearAll` | an insertion after an awaited hash; mutations during hydration; a debounced save, one in flight and a restart |
| React hook (`react.ts`) | subscriptions | maps adapter events to store operations | events overtake an upsert that awaits its hash |
| Storage adapters (`storage/`) | the stored blob | `load`, `save` | a rejected save, a corrupt blob |
| Forwarder (`forwarder.ts`, `wire.ts`) | per forward: attempts | `forward` | a lost answer is posted again; caller's abort against timeout |

### apps/example-backend

`server.mjs` keeps a Map of tokens by idempotency key and a Map of orders. It
takes tokens from the forwarder (an older `recordedAt` does not overwrite),
advances orders and dispatches pushes. Hard: duplicated and reordered posts, an
order advanced before a push that then fails, shutdown during a request.

### packages/live-activity

The Swift module drains ActivityKit's token and state sequences in tasks whose
handles live in the actor `ObserverRegistry` (handles per activity, two
class-level handles, the latest push-to-start token). `OnStartObserving` and
`OnStopObserving` spawn unordered tasks that reach the actor. Hard: a stop that
arrives between the tasks of the next start; a terminal state that clears the
slot of a newer observation. `start`, `update` and `end` decode what they are
given, decide between token and channel, and throw; the TypeScript adapter parses
before the bridge and gives the errors that come back over it a class and a trap.
Hard: the same content is judged by a schema, by `Decodable` and by APNs.

### apps/mobile

The surface storage writes snapshots of the surfaces into the App Group one key
at a time while widgets and controls read them, and a control's extension writes
back (`MobileSurfacesSharedState.swift`). Two screens call it: the Delivery
screen writes all surfaces of an order after its Live Activity, the Diagnostics
screen one fixture. Hard: a reader between two writes, an app killed there, a
read-change-write that loses the host's update, a screen that is unmounted while
its handler runs. What they write comes from `example-domain`,
which turns an order into one snapshot per surface. The rest is layout, setup
diagnostics and notification categories.

### packages/create-mobile-surfaces

The scaffolder changes an existing app or monorepo in place, or builds a new
project in a staging directory that it renames into place. `BackupSession`
records files before they are changed and restores them in reverse on failure;
`apply-existing.mjs`, `apply-monorepo.mjs` and `run-tasks.mjs` run the steps,
`bin/index.mjs` reports the outcome. Before that it judges the command line and
the names derived from it, the template it was shipped with, the workspace and
the toolchain. Hard: a failure of one step of several, a
failure during the restoration, a crash between steps, a user who goes on
editing.

In a new project it runs `scripts/rename-starter.mjs`, which the user may run
again later. The script replaces seven names in every text file, one name after
the other, renames files and a directory, runs generators, and at the end
stamps the new names in `.mobile-surfaces-identity.json`, from which the next
rename starts. Hard: a name that is part of another, generators whose own text
was just rewritten, a run that is killed before it stamps.

### The rest

`surface-contracts` holds the schemas of a snapshot and the projections every
sender and surface uses. It keeps no state; hard is that one field is declared
in four places (slice, projection, output schema, Swift struct).
`scripts/send-apns.mjs` is a command line that sends the same requests as the
client without using it: its own checks, one HTTP/2 session, an exit code.
`scripts/setup-apns.mjs` asks for credentials, tries them on APNs and writes the
`.env` the command line loads; hard is that the key file is looked at twice and
that three programs judge the same values. `traps` binds error classes to entries
of a catalogue, generated from `data/`, in JavaScript and in Swift; hard is that
the binding goes by name.

The texts of the catalogue, `apps/site`, the rest of `scripts/` and `data/` are
documentation, generated tables or one-shot tools over the repository's files.

### What makes them correct

- HTTP/2 client: the slot counter equals the requests that own a slot; whoever
  waits has something to wait for; never two sessions; an idle close hits no
  one; an aborted request opens no stream; after close nobody is admitted; every
  request settles; the cap and queue behave like an abstract pool.
- Retry loop: one budget for both legs; nothing terminal is retried; a refused
  bearer is not sent again; hooks tell the story in order; abort and close end a
  call wherever it stands.
- Methods of the client: what reaches the transport is what APNs takes; a
  snapshot that parses can be projected and decoded; preview and command line
  say what the send would do; a result says what happened; every call settles;
  an error is of the class, and its trap the entry, that explains it.
- Wizard: `.env` changes only for credentials APNs has accepted, or by request,
  and then they are good for the command line and the client.
- Live Activity calls: what the adapter's schema takes the struct decodes, what
  it refuses never reaches the device, and a channel never becomes a token.
- Token store: storage catches up with memory; nothing is saved over stored
  records before they are loaded; live records win over loaded ones; one record
  per token; the end of an activity reaches its tokens.
- Forwarder and backend: what is reported delivered is stored, a later
  `recordedAt` of a key wins, a push goes to the newest token, every forward
  settles.
- Observers: no drain runs that the registry does not know, the drains follow the
  listeners, the end of an activity is told.
- Shared state: a reader finds an entry at every moment, a surface comes to show
  what is stored, an order is not overwritten by an older stage.
- Scaffolder: what the user had is on disk or in the backup, a reported rollback
  is one, a reported success is one, a new project appears whole or not at all;
  it starts only from names, a template, a workspace and a machine it can use.
- Rename: every place has the new name and none a mixture, the App Group is the
  same wherever it is declared, the next rename finds the names of this one, and
  a killed run is completed by the same command.

## The modules

| Module | Models | Lines |
|---|---|---|
| `Http2Client` | `packages/push/src/http.ts` | the state machine |
| `SlotPool` | what the stream cap promises | abstract specification of slots and queue |
| `PushRetry` | `client.ts` `#executeWithRetry`, `retry.ts`, `jwt.ts` | the state machine |
| `SurfaceContract` | `surface-contracts/src/schema.ts`, `index.ts`, `payloads.ts`, the generated Swift structs | operators |
| `PushRequest` | the methods of `client.ts` up to their first `await`, `describeSend`, `preflight.ts`, `channels.ts` | operators |
| `SendApns` | `scripts/send-apns.mjs` | a program that makes one request |
| `ApnsReasons` | `errors.ts`, `reasons.ts`, the reading of an answer in `client.ts`, `traps/src` | operators |
| `SetupApns` | `scripts/setup-apns.mjs`, `lib/load-env.mjs`, the configuration of the client | a program that asks and probes |
| `LiveActivityCalls` | `start`, `update`, `end`: `live-activity/src/index.ts`, the Swift module and its logic, errors and traps | operators |
| `ExampleDomain` | `example-domain/src/index.ts` | operators |
| `PushApi` | a call from its arguments to its result | composes the six above and `PushRetry` |
| `TokenStore` | `tokens/src/index.ts`, `hash.ts`, events of `react.ts` | the state machine |
| `TokenDelivery` | `tokens/src/forwarder.ts`, the token and advance routes of `example-backend/src/server.mjs` | two programs and the network between them |
| `ActivityObservers` | `LiveActivityModule.swift`, `ObserverRegistry.swift` | an actor, its callers and the tasks it holds |
| `SurfaceStorage` | `surfaceStorage/index.ts`, its two screens, `MobileSurfacesSharedState.swift` and the providers | two processes on a shared store |
| `ScaffolderStart` | flags, `validators/src`, template, workspace file, package manager, preflight | operators |
| `RenameStarter` | `scripts/rename-starter.mjs`, `generate-app-group-constants.mjs`, `generate-traps-package.mjs`, `check-app-group-identity.mjs` | operators |
| `Scaffolder` | `create-mobile-surfaces`: detection, backup, apply, staging, exit | a sequential program that may fail anywhere, on top of `ScaffolderStart` and `RenameStarter` |
| `*Proofs` | theorems about the module of that name | TLAPS |
| `MC*` | small instances | TLC |

In the state machines of JavaScript an action is one uninterrupted run of it:
from a call, a callback or a resumed `await` to the next `await` or return. `pc`
names the await an asynchronous function stands at. This is the granularity of
the event loop, so everything that can interleave in the program can interleave
in the model and nothing else. Where a second process looks on
(`SurfaceStorage`) or the process may be killed between two synchronous calls
(`Scaffolder`), each write is an action of its own.

### Http2Client

One variable per private field, and `sess` and `remoteCap` for what Node knows
about each session. Sessions are numbered by the generation that dialed them.
`pc[r]` is `unsent`, `queued` (the promise of `#acquireSlot`), `granted` (the
slot is there, `request` resumes), `dialing` / `ensured` (before and after the
first `#ensureSession`), `redialing` / `reensured` (the second one), `streaming`,
`settled` (the stream's promise settled, the `finally` block has not run) or
`done`.

- `Request`, `Proceed`, `Dispatch`, `DispatchAgain`, `Finish` are the pieces of
  `request()`. `AcquireSlot`, `ReleaseSlot`, `EnsureSession`, `JoinOrDial`,
  `ExecuteRequest` and `ScheduleIdleTimer` are the private methods they call.
- `Abort`, `StreamEnd`, `StreamError`, `StreamTimeout` are the listeners of a
  signal and a stream. Leaving `streaming` is the `settled` flag.
- `Connect`, `ConnectFails`, `DialFinally` are the events of a dial. Between the
  first two and the last, a request can find the promise still cached.
- `Settings`, `GoAway`, `SessionDestroyed`, `SessionClosed` are the events of a
  session. `destroyed` is set before the `close` event is emitted, so the client
  can meet a dead session that it still caches.
- `IdleTimeout`, `Close`, `ForcedDestroy` are the timers and `close()`.

`StreamError` may happen to any stream at any time, those of a destroyed session
included, and nothing says it must: liveness rests on the stream's own timer.

`SlotPool` says what the README of the package promises of the cap: at most
`Cap` hold a slot, others wait in order, no one waits while no slot is held, a
freed slot goes to the longest waiter. `Http2Client` implements it under
`holding <- SlotHolders, queue <- waiters`.

### PushRetry

Calls share one JWT cache whose bearers are numbered as they are minted. `pc[c]`
is `authorizing` (the first `jwt.get()`), `requesting`, `backoff`, `woken`
(`sleep` resolved), `invalidated` and `refreshed` (the two awaits of the refresh
after `ExpiredProviderToken`). Answers are the classes `#shouldRetry` tells
apart; failures are the codes `isTransportError` tells apart.

- `Send`, `Begin` and `Issue` lead to `transport.request`; `Issue` has
  `#assertOpen`.
- `Answer` and `RequestFails` are its outcomes; `Catch` is the catch block, which
  also receives the abort of the first leg's sleep and a failed refresh.
- `Wake`, `Refresh`, `Resend` continue after a backoff; `Abort`, `Close` and
  `JwtAges` come from outside; `JwtFails` is an injected cache that rejects.

`Http2Client` is an environment here: a request handed to it settles, which is
what `RequestsSettle` of that module says.

### SurfaceContract and PushRequest

A snapshot is its kind, its base and its slices; an object is a function from
the keys it has to the class of each value: legal, the empty string, or wrong.
That is what Zod's verdict depends on here: a schema is a function from keys to
the classes it accepts, and `Accepts` is a strict object. A projection keeps the
name of the source's helper and says which key comes from where; `Project` and
`OutputSchemas` pair it with the schema `ensureProjection` uses, `SwiftStructs`
with the properties the device needs.

`PushRequest` has one operator per check, each yielding the error it throws, and
`sendDevice`, `broadcast` and `describeError` put them in the order of the
source. A time is unset, zero, seconds, of millisecond magnitude, or malformed.
`Request` is what goes to the transport, `finishDescription` the preview of it.

### SendApns

The state is what one invocation has: its flags, the session and status of
`http2Request`, the exit code. `Invoke` is `main()` up to the request it awaits,
or to its end: the validation of the mode, a dry run, the environment, the key,
the payload. `Responds`, `Ends` and `Fails` are the events of the stream and the
session; leaving `open` is `settled`.

### ApnsReasons

An answer is a status, a reason and whether its Retry-After is 0. `reasonToError`
is the factory of `errors.ts`, `ClassOf` its table, `retries` the part of
`#shouldRetry` that reads an answer, `TrapBindings` and `findTrapByErrorClass` the
two directions of the generated binding, `printApnsReason` the guide the command
line has of its own. The reasons are listed as the source lists them; three of
these lists are generated from one file and two are kept by hand.

### SetupApns

`wizard` is the prompt, the probe or the question `runWizard()` stands at. What
is typed is a class of what the validators tell apart; anything else is asked for
again. `Setup`, `Types`, `Chooses` are the prompts, `ProbeAnswered`, `ProbeFails`
and `ProbeTimesOut` the ends of the probe, `WriteEnv` and `Confirms` what follows,
`Cancels` a Ctrl+C, `KeyMoves` the user. `LoadEnv` and `createPushClient` are the
two readers of what was written.

### LiveActivityCalls

`LiveActivityStart`, `LiveActivityUpdate` and `LiveActivityEnd` are the adapter's
methods: the schema, then the native function, then the class of its error.
`NativeStart` has the guards of the Swift function in their order (the version of
iOS, whether activities are enabled, decoding, channel or token). An error
crosses the bridge as a code and a text; `wrapNativeError` reads them back.

### ExampleDomain

An order is its stage, its time and whether it has a driver. The tables are the
source's; a slice is the set of keys its literal has. `Orders` are the orders the
screen and the backend come to, `Ticked` the mock's transitions.

### PushApi

`Call` is a method up to its first `await`: it rejects with the first failing
check or takes the first step of `PushRetry` with the priority of the request.
`Headers` is `Begin` of `PushRetry`, after which the arguments are not read
again. `Deliver` makes a result of the loop's outcome: `createChannel` looks for
an id in the header, then in the body, `listChannels` reads the entries. The
other actions of `PushRetry` run as they are. `Script` is an invocation of
`SendApns`, alone or after a `Wizard` that has ended, whose `.env` it then loads.

### TokenStore

`records` is the Map, keyed by token and by the hash function that computed the
key. The adapter's events are macrotasks, so an `upsert` lets others in only
where it waits for something that is not a microtask: the first import of
`node:crypto` (`importing`) and Web Crypto's digest (`digesting`).

- `Emit`, `ImportSettles`, `DigestSettles` are `upsert` with `hashString`; `probe`
  holds `nodeProbeAttempted` and `cachedNodeHash`.
- `markEnding`, `markDead`, `markDeadByToken`, `clearDead`, `clearAll` are the
  store's methods; `transition` is shared by the first three.
- `LoadResolves` and `LoadRejects` end the hydration; `finishHydration` arms the
  timer if a save was asked for meanwhile.
- `scheduleSave`, `SaveTimer`, `SaveSettles` are the debounced save. Storage
  settles saves in order, each written or rejected.
- `Restart` kills the process and starts it again on what storage holds.

An initial state has any set of persisted tokens on disk, left by an earlier
process, all active or all dead.

### TokenDelivery

`pc[e]` is where one `forward()` stands: `posting`, `sleeping`, or settled with
the kind of its result. `network` is a set of requests and answers under way: an
element that no action takes is lost, one that is taken late was delayed, and
requests of different attempts overtake each other.

- `Forward` validates and makes the first `Attempt`; `Receive` is an answer,
  `Fail` a rejected fetch (the network, the attempt's timer or the abort);
  `Outcome` and `Retry` are the branches that follow; `Wake` ends a backoff.
- `PostTokens` is the route, `Store` its comparison of `recordedAt`, `Refuse` an
  answer of somebody in between. `Advance` takes a token with `pickToken` and
  starts a push, `PushSettles` ends it.
- `Abort`, `AppKilled` and `Restart` come from outside. The backend keeps
  everything in memory, so `Restart` empties it.

A record is its key, its `recordedAt` and its lifecycle. What may be emitted
follows from the store: the end of an activity leaves `recordedAt` alone, so a
dead record has the time of the active one.

### ActivityObservers

A slot is an entry of `handles`, `pushToStartHandle` or the handle of the
updates drain. `calls` holds the tasks that await the actor; `Serve` takes any
of them, and `Overtakes` says when that lets a begin and a `clearObservers` of
neighbouring observations cross, which `overtaken` remembers until the next start
or stop. A drain `waits` for its stream, `holds` what it took,
or `calls` the actor. A cancellation marks it, and it returns when it would take
the next element.

- `OnStartObserving` and `OnStopObserving` are the module's hooks, `start`,
  `Delivered`, `Over` and `Issue` what the app and ActivityKit do.
- `beginObservation`, `clearObservers`, `clear` and `setPushToStartToken` are the
  actor's methods.
- `Take`, then `ObserveStarted`, `CacheToken` or `SendEnd` are one round of a
  drain.

What ActivityKit promises is assumed in two places: `Present` (an iterator of an
activity that is over yields that; the other streams may or may not yield their
present value) and `OnStartObserving` (running activities are listed, ended ones
may be).

### SurfaceStorage

`store`, `current`, `writtenAt` and `decodeError` are the keys of the App Group,
`tasks` the handlers of the two screens that have not settled. `Refresh` is one
write of `Sets`, the order that all four refresh functions have; `turn` keeps
other tasks out of a refresh, which does not await, and lets them in between two.

- `transitionTo` and `handleRefresh` are the buttons, guarded by `busy`;
  `ActivityAnswers`, `Notified` and `SetFails` are the outcomes of what a handler
  awaits or calls; `SwitchTab` unmounts a screen and `Kill` ends the app.
- `BeginRead` and `FinishRead` are a timeline or value provider: what it reads,
  and what it renders and leaves as a breadcrumb. `Toggle` and `FinishToggle` are
  the toggle intent.

An entry is what tells reads apart: whose shape it has, which press wrote it, the
control's value, its `schemaVersion`. `Shapes` says which struct decodes which
shape, from the required fields of the generated Swift structs.

### ScaffolderStart

Each function of what a run reads is an operator with the function's name:
`validate*` and `to*`, `resolveYesConfig`, `computeCliMode`, `AddPackage`,
`parsePnpmWorkspaceGlobs`, `appendPnpmGlobs`, `detectPackageManager`,
`runPreflight`. A name is a sequence of kinds of characters, a workspace file a
sequence of kinds of lines, a machine what the six checks ask of it.
`PromptDefaults` is what the prompts offer, to compare with what `--yes` takes.

### RenameStarter

A text is a sequence of words and the marks between them, so that "Mobile
Surfaces", `mobile-surfaces` and `MobileSurfaces` contain one another in the model
where they do in the code. A file is the sequence of the places in it that hold a
name, and one file stands for all that are treated alike. `Template` is the
project as it is shipped, `Files` what it should be under any names.

- `loadCurrentIdentity`, `buildSubstitutions`, `walkTextFiles` and
  `applyTextRewrites` are the functions of that name; `Replaced` is
  `split(from).join(to)`, and `Substituted` the seven of them one after the other.
- `renameSwiftFiles`, `renameCliPackageDir`, `resetAppsMobileChangelog` and
  `dropSchemaId` are the steps that follow, then the two generators, which write
  to the names they read in their own, rewritten text (`Prefix`).
- `main` is the sequence of trees that a run leaves, one after each step;
  `Interrupted` adds those of a run killed while it rewrites or renames.

### Scaffolder

A run is a sequence of steps. `ApplyToExisting`, `ApplyMonorepo`, `RunTasks` and
`AfterApply` build it from one operator per call of the source, in the order and
under the conditions of the source, and one action executes each kind of step:
`RecordFile`, `RecordDir`, `Stage`, `Decide`, `Write`, `AddPackages`, `RunTool`,
`Promote`, `Commit`. Each has its failing outcomes; a write may leave a torn file
or tree. `Throw` is the catch arm.

- `Help`, `CommandLineFails` and `TemplateFails` end a run before it looks around.
  `Detect` is `detectMode`; `YesFails`, `PreflightFails`, `Cancel`, `BeginBuild`
  and `BeginApply` follow it. An action that ends a run early is enabled because
  some command line, installation or machine of `ScaffolderStart` makes it so.
- `RestoreEntry` and `FinishRollback` are `rollback()`; `ReportApply` and
  `ReportBuild` are the end of `bin/index.mjs`.
- `Interrupt`, `PipeCloses`, `Kill` and `UserEdits` come from outside. Ctrl+C
  sets a flag, and only where the event loop turns.

`before` is history: the latest version of each path that is the user's own.

## The runs

### Passing runs

| Run | Instance | Distinct states | Shows |
|---|---|---|---|
| `http2` | 2 requests, own cap 2, peer caps 1 and 2, floor 3, 3 dials | 320,337 | the safety properties of the client, the refinement of `SlotPool`, and that requests and `close()` settle |
| `push_retry` | an urgent and a background call, 2 retries (1 for the urgent one), a caller's reasons that include a terminal one, a cache that may reject | 2,975,594 | budget, bearers, hooks, close |
| `push_api` | one call (43,000 inputs) with 1 retry and a cache that may reject, or one invocation (978), or one run of the wizard and an invocation after it | 347,366 | valid requests, preview and command line agree, true results and errors, calls answer |
| `token_store` | node:crypto and Web Crypto: a durable token emitted twice, a token of an activity once, 2 saves in flight, 1 restart | 542,931 | storage catches up, loading is safe, saves drain |
| `token_delivery` | 6 records, 2 forwards, 1 retry each, 1 restart of the backend, 1 push | 565,000 | acknowledged means stored, a push takes the newest, forwards settle |
| `observers` | 1 activity, 2 observations, 1 call taken out of turn or 1 push-to-start token | 2,669,335 | drains are known, follow the listeners, ends are told |
| `surface_storage` | widget and control, 2 presses, 1 toggle | 1,093,810 | readable at every moment, true at rest, reloads are shown |
| `scaffolder` | 16 disks, every flag and answer, 1 edit of the user; every command line, installation, workspace file and machine of `ScaffolderStart`; every rename of `RenameStarter` | 1,364,794 | sound starts, exact renames, originals kept, true reports and codes, promotion |

What the properties say is written above each of them in its module. The ones
that need most steps to go wrong:

- `HooksInOrder`: every attempt is reported once and the last hook of a call, and
  no other, is the final one; the two exceptions the code makes are part of the
  property, so a third would break it.
- `SlotAccounting` and `QueueExact`: over every order of hand-off, abort, failed
  dial, timeout and close, no slot is lost or owned twice and no stale waiter
  stays behind.
- `QueuedBehindStream`: no lost wake-up. It needs a peer that does not advertise
  a cap of 0, see Limits.
- `OneSession`: no interleaving of dials, GOAWAYs and stale sessions leaves two
  sessions, one the client does not know and could never close, or an idle one
  without a timer.
- `IdleSparesBusySession`: the idle timer closes no session a request counts on.
- `RequestsAreValid`: no snapshot and no combination of options gets a request
  past the checks that APNs would refuse for its priority, size, dates or
  expiration; and what the schemas accept the projections can project and the
  structs decode.
- `PathsAgree`: the send, `describeSend` and the command line are three programs
  that judge the same options and resolve the same defaults.
- `ResultsAreTrue`: whatever order status, end and error come in, exit code 0
  means that the request was answered as its mode expects. Its parts
  `ErrorsAreTrue` (a retryable refusal reaches the caller only once the budget is
  spent, every class is one the catalogue, the guide and the docs agree on) and
  `SetupTellsTruth` (what the wizard leaves in `.env`) are about errors and
  credentials; the parts `DeviceAgrees` and `DeliveriesAreShown` of
  `RequestsAreValid` about the device and the reference producer.
- `RejectedBearerNotResent`: a call that drops the cache entry after
  `ExpiredProviderToken` gets a newer bearer, whatever the other calls do to the
  shared cache meanwhile.
- `DiskCatchesUp`: once no save is pending, storage holds the durable records of
  memory, for any order of hydration, mutations and two saves in flight.
- `AckedIsStored`: no loss, repetition or overtaking makes the forwarder report a
  record that the backend's Map does not hold, itself or a later one of its key.
- `NoUntrackedDrain`, `DrainsFollowListeners`: a start, a stop, the end of an
  activity and a new activity race for the actor, and no drain is left that nobody
  can cancel, and none is missing. The one crossing that spoils it, of a begin and
  a `clearObservers`, is excepted, and only until the next start or stop.
- `EndsAreTold`: the drain that replaces another one tells what that one took.
- `ReadableAnytime`, `RestIsTrue`: the app killed between two writes, a toggle
  that writes back what it read earlier, and a recovery from an entry of an older
  version leave nothing a surface cannot read, and nothing it shows in vain.
- `OriginalsKept`: at every moment the process may be killed at, what the user
  had is on disk or in the backup.
- `ReportsAreTrue`: each message a run ends with against the disk and the backup
  session, over every failing step, interrupt and failure of the recovery itself:
  success and a failure after the commit leave what was planned, a rollback every
  recorded path, a failed restore or commit is told, a failure is never passed over
  in silence. Three messages can be false, see
  [below](#where-the-documentation-and-the-code-differ); the property names each with
  all that can be so instead. Its part `CodesAreKept` is about exit codes.
- `StartsAreSound` is about the functions of `ScaffolderStart`, over all their inputs
  of the bounded size: derived names pass their validators, a stale bundle is not used
  next to its monorepo, a glob that is added is found again and nothing else changes,
  `--no-install` waives the checks of the build and no other.
- `RenamesAreExact` says for which names a rename is exact: if and only if no name
  is part of one that is replaced before it, in the old text or in what was just
  put there. If the new names hold none of the old ones, a run killed anywhere is
  completed by the same command. And whatever the names are, all declarations of
  the App Group agree afterwards and the generators have nothing more to write.
  It and `StartsAreSound` are about functions, which TLC evaluates at the start.

### Bounds

- `Http2Client`: two requests are a holder and a waiter, and in other orders a
  waiter and the request that is aborted or drained before it; own cap 2 and peer
  caps 1 and 2 let the cap fall below the streams in flight and rise again.
  `MaxSessions` 3 allows a lost session, its successor and a re-dial;
  `MayLoseSession` takes an event that costs the client its session only while two
  more dials fit, so the bound never blocks a dial the code would make. More than
  one waiter at a time, and so their order and a newcomer that passes them, is
  beyond this run and left to the theorems, which have any number of requests.
- `PushRetry`: two calls are the fewest that disturb each other in the cache;
  two retries let the two failure legs mix, and the urgent call meets the clamp
  of `effectiveRetryPolicy`.
- `PushApi`: calls do not read each other's arguments, so one call is enough;
  `push_retry` has two. The snapshots differ from a full or bare one in one key,
  which is enough for rules that look at one key each. Sizes are the two limits
  and one byte more. The invocations cover every set of mode flags, and for a
  broadcast, a start and channel management every value of their own flags.
- `TokenStore`: one durable token emitted twice can race its own first hash; the
  other token belongs to an activity that ends. Two saves in flight
  (`MaxSaves`) are a save that starts while another has not settled. One restart
  (`MaxRestarts`) after any prefix of the saves was written.

- `TokenDelivery`: two forwards of any two of six records are a duplicate, a
  rotation, the end of an activity that overtakes its token, or an invalid one;
  one retry gives two attempts whose requests overtake each other.
- `ActivityObservers`: `MaxSurprises` 1 lets the actor take one call out of turn,
  which is enough for each way of two calls to cross, or ActivityKit issue a token
  while the calls keep their order; the theorems have any number of both.
  One activity is enough for a drain to be replaced by the
  enumeration, by `start` and by the updates drain; two observations are a stop
  between two starts.
- `SurfaceStorage`: two presses are two tasks on one id, or a task and its
  successor; the widget compares versions and the control does not. The run
  `surface_consistency` has all four surfaces.
- `Scaffolder`: the run `scaffolder_stopped_report` needs one app and no edit. The
  disks of `MCScaffolder` are every state of what an apply
  looks at. One edit (`MaxEdits`) falls before, between or after the steps.
- `ScaffolderStart`: names of three characters have a first, an inner and a last
  one of each kind; workspace files of four lines have a key, items before and
  after another key, and a second key. Lockfiles lie in any two of seven
  directories, one more than the walk visits.
- `RenameStarter`: names of one, two and three words, one of which contains the
  template's, four bundle ids, a slug and a prefix that are derived or given, each
  also as the second rename after each first one that is fresh. These are the ways
  in which one name can be part of another.
- `SetupApns`: one run over any earlier `.env`, then one invocation.

The proofs of the next section have no bounds but those named `Max...`, which are
arbitrary numbers there. Of the sets they assume that the tokens and the
activities are finitely many (`DeliveryAssumption`, `ObserversAssumption`: a Map
and ActivityKit's list are) and that the project has at least one surface that is
not an activity (`KindsAssumption`: without one it stores nothing).

### Fairness

- `LiveSpec` of `Http2Client`: weak fairness of every resumed await and of the
  stream timer of each request, of the dial's `finally` and of the forced
  destroy: the event loop runs ready continuations and due timers. In addition
  the dial ends (`Connect`), which is the operating system's connect timeout;
  the code sets none. Nothing is assumed of the peer: it need not answer, drain
  or close. `RequestTimeoutMs` and `CloseTimeoutMs` are on, as by default.
- `ApiSpec` of `PushApi`: continuations run, and a request that was handed to the
  transport settles. Nothing is assumed of the command line, which sets no
  timeout: an unanswered request keeps it waiting. The probe of the wizard has a
  timer of 8 seconds, which fires.
- `FairSpec` of `TokenStore`: the import and the digest settle, the timer fires,
  load and save settle (in either way). `SavesDrain` is about the time after the
  last mutation: a store that is mutated for ever may re-arm the debounce for
  ever.
- `FairSpec` of `TokenDelivery`: the forwarder's own timers, of an attempt and of
  a backoff. Nothing is assumed of the network or the backend.
- `FairSpec` of `ActivityObservers`: while a call waits for the actor or a drain has
  something to do, one of them goes on. Which one is left open.
- `FairSpec` of `SurfaceStorage`: a handler runs to its end while the app lives,
  and the system serves every surface's reload. iOS may delay a reload; it has a
  budget for timelines and does not promise a time.

`CHECK_DEADLOCK` is on for `Http2Client`, `PushRetry` and `TokenStore`; the first
two have an explicit `Terminated` step for the end of all requests or calls. It
is off where the system may stop for good: a scaffolder that has exited, a
backend nobody posts to, an app whose bounded presses, starts and tokens are used
up.

## Where the documentation and the code differ

Each of these runs refutes one sentence of the repository; `PROJECT.json` quotes
it and names the lines.

| Run | The behaviour found |
|---|---|
| `http2_close_during_dial` | `close()` during a dial sees no session and resolves; the dial then connects and the session stays up. |
| `token_store_ended_active` | The end of an activity overtakes the `upsert` of its token: nothing is there to mark dead, and the token is then inserted as active for good. |
| `scaffolder_stopped_report` | After Ctrl+C during the prebuild that follows a committed apply the user reads "Stopped before any files were changed". |
| `surface_consistency` | The Delivery screen writes four snapshots under the one key of their order; the last one stays, and the control and the lock accessory cannot decode it. |

`ReportsAreTrue` and `DrainsFollowListeners` pass with exceptions where the code
also contradicts a sentence of its own. They are named in the properties and listed
under [Limits](#limits), with `HooksInOrder`'s.

## The proofs

Checked by TLAPS for every value of the constants that satisfies the assumptions
named in the modules.

| Theorem | Says | Assumes in addition |
|---|---|---|
| `Http2ClientProofs!TypeCorrect` | `[]TypeOK` | |
| `SlotsAccounted` | `[]SlotAccounting` | |
| `QueueIsExact` | `[]QueueExact` | |
| `OwnCapAlwaysHeld` | `[]OwnCapHeld` (not in a run) | |
| `NoLostWakeup` | `[]QueuedBehindStream` | no peer cap is 0 |
| `Refinement` | `Spec => ImplementsSlotPool` | no peer cap is 0 |
| `OnlyOneSession` | `[]OneSession` | |
| `IdleSpares` | `IdleSparesBusySession` | |
| `PushRetryProofs!TypeCorrect` | `[]TypeOK` | |
| `BudgetHolds` | `[]RetryBudget` | |
| `TerminalIsFinal` | `[]TerminalNeverRetried` (not in a run) | |
| `FreshBearerAfterExpiry` | `[]RejectedBearerNotResent` | the JWT cache does not reject with a retryable code |
| `AbortEndsSleep` | `[]AbortedNeverSleeps` (not in a run) | |
| `CloseStopsRetries` | `ClosedSendsNothing` | |
| `HooksTellTheStory` | `[]HooksInOrder` | |
| `RefusedWhenSpent` | `[]RefusalsSpent` (not in a run) | |
| `PushApiProofs!ClientRunsTheLoop` | `ApiSpec => Spec` (of `PushRetry`) | |
| `SendsAreValid` | `[]RequestsAreValid` | |
| `PathsAlwaysAgree` | `[]PathsAgree` | |
| `ResultsAreAlwaysTrue` | `[]ResultsAreTrue` | the policy retries an expired token |
| `TokenStoreProofs!TypeCorrect` | `[]TypeOK` | |
| `DiskHolds` | `[]DiskCatchesUp` | |
| `LoadingIsSafe` | `LoadingSparesDisk` | |
| `LiveRecordsWin` | `LiveBeatsLoaded` (not in a run) | |
| `OneKeyPerToken` | `[]OneRecordPerToken` (not in a run) | the runtime has Web Crypto |
| `TokenDeliveryProofs!TypeCorrect` | `[]TypeOK` | |
| `ReportedIsStored` | `[]AckedIsStored` | |
| `PushesGoToNewest` | `PushUsesNewestAcked` | |
| `ActivityObserversProofs!TypeCorrect` | `[]TypeOK` | |
| `NoneUntracked` | `[]NoUntrackedDrain` | |
| `DrainsFollow` | `[]DrainsFollowListeners` | |
| `SurfaceStorageProofs!TypeCorrect` | `[]TypeOK` | |
| `AlwaysReadable` | `[]ReadableAnytime` | |
| `AtRestIsTrue` | `[]RestIsTrue` | |
| `StagesAdvance` | `OrderNeverGoesBack` | |
| `ScaffolderProofs!TypeCorrect` | `[]TypeOK` | |
| `OriginalsAreKept` | `[]OriginalsKept` | |
| `PromotionIsAtomic` | `[]AtomicPromotion` | |
| `CodesMeanWhatTheySay` | `[]CodesAreKept` (part of a run's `ReportsAreTrue`) | |
| `ReportsTrue` | `[]ReportsAreTrue` | |

### The arguments

**Http2Client.** `SlotEffect` classifies what a step can do to slots and queue:
keep them, admit, enqueue, hand off, release, let a waiter leave, or drain the
queue. `StepHasSlotEffect` proves action by action that every step has one of
these effects, and everything else follows from the effects alone. `IInv` is
`TypeOK`, `SlotAccounting` and `QueueExact` together: a hand-off keeps the
counter right only if the head of the queue is a queued request, which is
`QueueExact`, and the queue stays exact only if the requests that move are of
the kind the effect says. `NoLostWakeup` adds that all caps are positive, so
that a request is queued only if a slot is held, and the last holder hands its
slot on. `Refinement` maps each effect to a step of `SlotPool` or a stutter.
`OneSession` is not inductive: it says nothing of the dial. `DialInv` adds that
only the newest session can be connecting, that it does so only while the dial is
pending and nothing is open then, and that a pending dial always has a request
waiting for it; `IdleInv` that a session nobody uses has its timer armed. A session
that comes up is then never idle, since whoever waits for the dial holds a slot
(`SlotAccounting`), and the dial that replaces a session finds it gone.

**PushRetry.** `BudgetInv` ties the log of retried reasons to the attempt
counter: in a backoff the log is one ahead, elsewhere equal; `RetryBudget` by
itself does not say where the call stands and is not inductive. `BearerInv` says
for every call that its bearer is newer than the one last refused whenever it is
about to be sent, and that the cache is empty or holds the newest bearer. The
second part is what makes an entry dropped or refilled by another call harmless.
`HooksInOrder` is exact, so its invariant has to be: `ToldSoFar` says that the
hooks of a running call number its attempts so far, those of a sleeping call the
present one too, with no final one among them, and as many as were retried. For a
settled call `Ended` lists the five ways to end with the hooks each leaves; two of
them are the exceptions `Twice` and `Untold`. From there every step is silent,
reports one attempt (`LogGrows`), or concludes.

**PushApi.** Every step of the composition is one of `PushRetry` or leaves its
variables alone (`StepRunsTheLoop`), so its theorems hold of the calls of the client,
and `BudgetInv` may be used of them. `ApiInv` says that a request is the one made of
arguments that passed every check, and of the call's own as long as these are kept
(`HandedOver`); what that means is a fact about operators: `FirstErrorFacts` (a
sequence of checks passes if each does), `PreflightPasses`, `RequestIsValid`,
`PathsAgreeFor`, and one lemma for each of the six projections. `DeviceAgreesWithSchema`
and `DeliveriesHold` are facts of the same kind about the adapter and the reference
producer. `ResultInv` adds how each result came about (`Explained`); the rest is read
from the tables: no two reasons of `DEFAULT_RETRYABLE_REASONS` share a class with any
other, both directions of the trap binding agree for every name (`TrapsAgree`), every
reason with a class is in both guides. A `ProjectionInvariantError`, which has no trap
and is in no table, is not among the results because no projection fails. `SetupInv`
follows the wizard prompt by prompt and the script to its exit code. A caller that
takes `ExpiredProviderToken` out of `retryableReasons` gets that class with budget
left, hence the hypothesis of the last theorem. What a caller may pass and an operator
may type is constrained by the form of the records only (`InputsAssumption`,
`InvocationsAssumption`).

**TokenStore.** `SaveInv` strengthens `DiskCatchesUp` with two facts. While
storage loads, no timer is armed, nothing is in flight, and without
`saveQueuedDuringHydration` no durable record was touched. Afterwards, while no
timer is armed, the last snapshot in flight (or what storage holds, if none is)
equals the durable records. `KeyInv` says no record and no snapshot has a
fallback key.

**TokenDelivery.** `AckedIsStored` alone says nothing of the answers that are still
on their way. `DeliveryInv` adds that every request was sent by an attempt made,
that an attempt is answered at most once, and (`AnswersAreAwaited`) that an
answer under way is for the attempt that waits for it and, if it acknowledges in
the present run, that the record or a later one of its token is stored. Records are only
replaced by later ones, so this survives every `Store`; `Restart` changes the run,
and with it what earlier answers are worth. `PushUsesNewestAcked` needs the tokens
in memory to be those of forwarded records, and that `pickToken` finds the latest
of any finite set: a lemma by minimal counterexample (`WFMin` of the library).

**ActivityObservers.** `RegistryInv` says that drains have different ids, that a
handle names a drain of its slot that goes on, and that a drain awaits at most one
call, which is about its own slot: a drain that returns clears no other drain's
handle. That is enough for `NoUntrackedDrain` in any order of calls.
`FollowInv` is about what the calls under way will do once they are served:
`WillDrain`, `WillObserve` and `WillStop` say that for every slot the last call
about it leaves the registry as the present observation wants it; with no call
left this is `DrainsFollowListeners`. Calls may be served in any order: one served
out of turn changes the last word on no slot unless it `Overtakes`, and then
`overtaken` stays set until JavaScript next starts or stops, which puts calls behind
everything under way that settle every slot again.

**SurfaceStorage.** `TurnInv` holds the position of the one refresh under way: its
entry is written before its pointer and its stamp, and only a toggle can come in
between. `CaughtUp` strengthens `RestIsTrue` to surfaces that are not at rest: a
surface nobody owes a reload is being read at what is stored, or shows it.

**Scaffolder.** An apply or a build follows a program, the sequence of steps of its
mode. `ProgramOK` is what a program promises by itself: it ends with its only commit
or promotion, a path is recorded before it is written, every step finds the tree that
its predecessor left, an unpacked source tree is removed later, and all that is
planned is written. `ProgramIsOK` shows it of all programs the choices lead to, from
their text. `Inv` relates a state to its program: the steps left are the end of it
(`Following`), and those done have done what they say (`FilesDone`, `TreeDone`,
`RecordsDone`, `Lockfile`, `TempLeft`), until the widget's decision cuts it short
(`Left`). `ManifestInv` and `DiskInv` say what a rollback can rely on: a copy
is what the user had, no path is recorded twice, and what is not recorded is as
the user has it, edits made meanwhile included. There is one lemma for each action.
`PhaseInv` says for each phase what the session, the error and the disk are, and
`AfterInv` that after a commit all that was planned is there, and that a rollback
which counted no file had none to restore: the two messages for an interrupt differ
by that count alone.

### Only model-checked

Liveness (`RequestsSettle`, `CallsAnswer`, `SavesDrain`,
`ForwardsSettle`, `EndsAreTold`, `ReloadIsShown`) is beyond the prover,
as is anything with `ENABLED`, and what a recursive definition computes; no
module here declares a recursive operator. Every safety and action property of the
passing runs is stated by a theorem, under the assumptions of the table where it
gives any, except `StartsAreSound` and `RenamesAreExact`: these are about the tables
of `ScaffolderStart` and `RenameStarter`, which are computed by recursion over texts
and workspace files, and TLC evaluates them.

## Limits

Left out of the modelled parts:

- `Http2Client`: headers, bodies and the parsing of answers; the TLS layer; what
  a stream still receives after its request settled.
- `PushRetry`, `PushApi`: the length of a backoff and Retry-After (except 0),
  signing, the metadata of a result. A hook that throws is swallowed by the code
  and has no effect here.
- `SurfaceContract`: bounds and formats of single fields (a deep link, a ratio, a
  number of seconds are legal or wrong), the JSON schema, fixtures, diagnostics.
- `ApnsReasons`: messages, timestamps and documentation links. In `PushApi`
  whatever else the default policy retries counts as the loop's `transient`,
  `IdleTimeout` with status 400 among them.
- `SetupApns`: echo and retries of a prompt, quoting in `.env`, variables the shell
  already exports (`loadEnvFile` keeps them).
- `LiveActivityCalls`: the values of dates other than the classes of
  `PushRequest`; `listActive` and `getPushToStartToken`, which only read.
- `ExampleDomain`: wording, other than what a text says of the time left.
- `PushRequest`, `SendApns`: the bytes of a payload (its size is an input), paths
  and origins, the hints printed for an answer.
- `TokenStore`: listeners (called synchronously, their errors are swallowed),
  unmounting of the hook, parsing of the stored blob,
  kinds that are not persisted but are found on disk, and storage that settles
  two saves out of order: AsyncStorage queues them and the memory adapter is
  synchronous.

- `TokenDelivery`: the delays of a backoff, the fields of the wire schema, the
  inspector routes, what stage an order is at, and the draining part of
  `shutdown()`.
- `ActivityObservers`: the sending of token and state events other than the end of
  an activity. Its calls are in `LiveActivityCalls`.
- `SurfaceStorage`: rendering of the staleness hint, `handleReset`, `parse.ts`,
  the locked and failing cases of a read other than an entry that does not decode.
- `Scaffolder`: the content of an edit, `node_modules` and empty parent
  directories (`backup.mjs:24-30` leaves them out too), the recaps before a
  confirmation.
- `RenameStarter`: what a file holds besides names (the change of a fixture's deep
  link among it), a file that is half written, `--scheme` and its like when they
  are not given (the script then ends with 2), the three verification scripts of a
  run without `--skip-verify`, and the files of the other generators, which run
  after the installation.
- `ScaffolderStart`: limits of length, comments and quotes in a workspace file,
  `package.json` workspaces, a check that throws.

Behaviours met while modelling that the properties allow or the assumptions
exclude:

- With a peer that advertises a cap of 0 (legal in HTTP/2) a request is queued
  behind nothing and nothing wakes it when the cap rises. This is why
  `NoLostWakeup` and `Refinement` exclude 0. `http2` with
  `PeerCaps` containing 0 shows it.
- `#acquireSlot` does not look at the queue: after the peer raises its cap a new
  request starts ahead of waiting ones. `SlotPool` therefore does not promise
  that newcomers queue behind others.
- While a dial hangs nothing listens to a request's signal. The request settles
  when the dial ends, which is why `LiveSpec` assumes that it does.
- An injected JWT cache that rejects with a retryable code in the refresh makes
  the loop send the refused bearer again. This is why `FreshBearerAfterExpiry`
  excludes it; `push_retry` with `"transport"` in `JwtFailures` shows it.
- `listChannels` reports a channel that is listed by its bare id as `no-storage`
  (`channels.ts:62-64`), whatever it was created with, although
  `BroadcastOptions` calls the `ChannelInfo` of `listChannels()` the canonical
  source of the policy (`client.ts:287-289`).
- `send-apns.mjs` says that it and the package "agree at every byte" (512-514).
  It takes timestamps of millisecond magnitude and payloads over the limit that
  the client rejects, ignores `--dismissal-date` in a broadcast, and calls the
  creation of a channel a success for 201 only, where the client takes any 2xx.
  `PathsAgree` therefore goes one way: what the client sends, the script sends.
- Of `send-apns.mjs` "Each subsequent mode also checks no earlier mode's token
  was passed alongside it" (391-393) does not hold for `validateDeviceSend`,
  which looks at no other token and at no `--env`.
- `describeSend` does not compare `tokenEnvironment` and knows no
  `sendNotification`. `PathsAgree` excepts both.
- On Node 18, which has no global Web Crypto, an emission that races the import
  of `node:crypto` gets a fallback key of its own. `OneKeyPerToken` excludes it;
  `token_store` with `HasNodeCrypto = TRUE` and `HasSubtle = FALSE` shows it.
- `transition` compares for equality only: `markEnding` after `markDead` takes a
  dead record back to ending. And `clearAll` during hydration drops nothing of
  what is loaded later.
- `#releaseSlot` hands its slot on without comparing the cap again (`http.ts:271`),
  although `http.ts:109-111` says that every acquisition reads the peer's setting:
  a queue keeps more streams open than a peer that tightened its cap allows.
  `SlotPool` promises the client's own cap only.
- An abort during the backoff after a retryable answer calls `onError` twice for
  one attempt (`client.ts:1511` against 218-219), and an abort in the other
  backoff, or a close in any, settles a call whose last hook said
  `isFinalAttempt: false` (`client.ts:1569`, 1454, against 220-221).
  `HooksInOrder` excepts exactly these two, as `Twice` and `Untold`; everything else
  those lines say it demands.
- `clearAll()` awaits a save that was in flight, not the one it has scheduled, and
  resolves while storage holds the cleared records (`tokens/src/index.ts:306`
  against 304-305).
- The end of an activity leaves the key and the `recordedAt` of its token as they
  were (`tokens/src/index.ts:245`), so the backend keeps the active record
  (`server.mjs:208` stores only a later one) and `pickToken` goes on choosing it;
  and the hook forwards tokens, not state changes (`react.ts:119-128`).
  `PushUsesNewestAcked` therefore speaks of keys with no dead record about.
- Ctrl+C during the prebuild after a committed apply reports "Stopped before any
  files were changed" (`bin/index.mjs:57-61`, `copy.mjs:203`) although they were:
  the count of restored files is 0. This is what `scaffolder_stopped_report` shows.
- The interrupt is looked at first, so it also hides a restore or a commit that
  failed: "Stopped before any files were changed" or "Recorded files were restored"
  is then told although they were not. `ReportsAreTrue` excepts this by name.
- After a rolled back apply a lockfile stays that the package manager created: only
  those that exist are recorded (`apply-existing.mjs:457-460`), although
  "Your project files were restored to their pre-apply state" (`copy.mjs:173`) and
  "the user's project returns to its pre-apply state" (`apply-existing.mjs:398-401`).
  `Restored`, which `ReportsAreTrue` demands, excepts this one path by name.
- `rollback()` removes the backup also when restoring from it failed
  (`backup.mjs:147`), and a `commit()` that cannot remove it leads to a rollback
  that is refused (`backup.mjs:170`). Both are reported as an error of the
  rollback, and `OriginalsKept` and `ReportsAreTrue` except them.
- A reader of the tool's output that closes its pipe in the middle of an apply
  ends the process with code 0 and without a rollback (`bin/index.mjs:99-103`);
  the backup directory stays. `OriginalsKept` covers the files.
- A user's edit of a path that was already recorded is lost in a rollback; and an
  unpacked source tree stays behind when `tar` fails.
- A `clearObservers` that the actor takes after the begins of the next start cancels
  their drains, and a begin it takes after the `clearObservers` of its own stop
  leaves a drain behind, although `LiveActivityModule.swift:247-250` says
  "regardless of which queued first". The tasks that carry the calls have no order
  among them, which 250-251 puts as "in practice". `DrainsFollowListeners` and
  `EndsAreTold` except a pair that has crossed (`overtaken`) until the next start or
  stop, which repairs it (252-255), and nothing else. TLC explores one call out of
  turn (or a token that rotates), the theorem any number.
- A cancelled token drain may still cache the token it holds over a newer one
  (`cached` in `ActivityObservers`), and an activity delivered after the
  enumeration and before the new updates drain iterates is followed only if
  ActivityKit yields it again. `DrainsFollowListeners` does not expect it.
- `writeControlValue` may write back an entry older than the one the host wrote
  meanwhile: `RestIsTrue` says that the control then shows what is stored, not
  that it is the host's. `OrderNeverGoesBack` is about the host's writes.
- A private key over 64 KB passes the wizard, whose probe it can sign, and is then
  refused by `createPushClient`. `SetupTellsTruth` excepts it. On iOS 16.1
  `areActivitiesEnabled` may answer yes although `start` asks for 16.2.
- With `--yes` the word after the command is not validated
  (`bin/index.mjs:283-288`): `_a` becomes the project name `-a`. A name of digits
  passes `validateProjectSlug` although the deriver it guards then throws
  (`validators/src/index.mjs:20-29`). `NamesAreValid` excepts both. And the
  bundle id that is derived by default is always one the validator refuses, so
  `--yes` needs `--bundle-id` although the help calls it optional.
- A `pnpm-workspace.yaml` whose list items are not indented, which is YAML, is
  read as having no globs, and what `appendPnpmGlobs` makes of it no longer
  parses. `GlobsAreFound` speaks of indented items.
- The help says 3 for a missing template; a `template.tgz` that is missing beside
  its manifest is noticed at the copy and ends with 2.
- The recap of an existing app lists `expo prebuild` and the widget's files also
  where `--no-install`, a config in code or a widget of the user's own will skip
  them, although what is confirmed is to be what is executed
  (`existing-expo.mjs:4-7`).
- In a subdirectory of a workspace the package manager may rewrite a lockfile
  above it, which the backup does not record. A backup session that cannot be
  created is reported with "The apply step succeeded" (`copy.mjs:185`) although
  nothing was applied: `ReportsAreTrue` allows it with the disk unchanged.
- `rename-starter.mjs:76-78` promises that the order of its substitutions keeps a
  shorter name from damaging a longer one. That holds for the old names. A new
  name that contains an old one is replaced again: "Mobile Surfaces Pro" ends as
  a project of `mobile-surfaces-pro-pro`, and a bundle id
  `com.acme.mobilesurfaces` is changed with the scheme. A project of one word
  has a slug equal to its scheme, which the next rename cannot tell apart.
  `RenamesAreExact` says exactly when (`Separable`).
- A rename that failed and is followed by one with other names stamps the second
  names over files that read the first. `RenamesAreExact` speaks of the same
  command.
- `MobileSurfacesTraps.swift` is not among the files that a rename moves
  (`rename-starter.mjs:352-369`), and the generator that runs after it writes
  `FooTraps.swift` beside it: both stay in a new project's widget target
  (`hw-true-cw-true.txt:52` and `:60` of the scaffolder's snapshots) and declare
  the same types. `MobileSurfacesAppGroup.swift` stays too. `ReadsAs` excepts them.
- A stage of an order whose screen was left may land after a later one, because
  the new screen's `busy` does not know of it.

Not modelled at all: the texts of the traps catalogue, the layout of the screens,
the documentation site and the repository's own scripts (checks and code
generation). They keep no state and nothing in them can interleave; most of the
repository's lines are of this kind.

## Plan

Done: every module with its run, and the proofs of `Http2Client`, `PushRetry`,
`TokenStore`, `TokenDelivery`, `ActivityObservers`, `SurfaceStorage`, `Scaffolder` and
`PushApi` (with the modules it composes). Left, the most important first:

1. The backoff as an operator, checked against a reference definition;
   `PushRetry` composed with an abstract transport that `Http2Client` implements.
