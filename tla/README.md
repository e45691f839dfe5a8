# A TLA+ model of go-carta

Modules, TLC configurations and TLAPS proofs about the Go services under
`src/`: the controller `carta-ctl` (its start, logins, websocket sessions, frames
and database API), the spawner `carta-spawn`, and a session on a spawner. The code
is the reference; every definition that models code is listed with its lines in
`PROJECT.json` under `map`.

Run everything from this directory: `tlasany M.tla` parses, `tlc -config X.cfg M`
checks, `tlapm M.tla` proves.

## 1. The system

    browser ==ws==> carta-ctl ==HTTP==> carta-spawn --starts, kills--> worker processes
                        |  |                                                 ^
                        |  +==============ws, one connection per worker======+
                        +==HTTP handlers==> PostgreSQL (preferences, layouts, snippets, workspaces)

| Component | Code | State | Operations | Hard behaviour |
|---|---|---|---|---|
| Spawner service | `carta-spawn/main.go` | `workerMap` (plain Go map, no lock), global context | `POST /`, `GET /workers`, `GET`/`DELETE /worker/{id}`, shutdown loop after SIGINT/SIGTERM | a goroutine per request plus the main goroutine, all on one map; kill and unlist are two steps; shutdown races requests |
| Process helper | `carta-spawn/internal/processHelpers` | the process, its log output, its exit state | start, wait for the port, time out, kill, reap, PING/PONG test | port, timeout and signal race in a select; ports are reused; a kill may be refused (sudo runs as root) |
| Session | `carta-ctl/main.go` (`wsHandler`), `internal/session/*.go` | `Session` fields, `fileMap`, one channel and two goroutines per connection | REGISTER_VIEWER, OPEN_FILE, proxied messages, status, worker replies, PING/PONG, disconnect | a goroutine per message in both directions, none of it locked; disconnect races handlers; closed and nil channels; two writers on a websocket |
| Spawner client | `internal/spawnerHelpers` | none | start, stop, status of a worker | answers lost, no timeout, no retry |
| Database API | `internal/database/database.go` | four PostgreSQL tables | 15 HTTP handlers | concurrent requests of several users, retried saves, ids named by clients, sharing |
| Message codec | `internal/cartaHelpers` | none | 8-byte prefix, event types, file id extraction, rebuilding a proxied frame | ids are `int32` in some messages and `uint32` in others, and one map key |
| Authentication | `internal/auth` | none: tokens in cookies and headers | PAM form, OIDC redirects, bearer tokens, the order of the backends | tokens outlive the controller; clocks and lifetimes; a refusal is written before the next backend is asked |
| Start-up and configuration | `carta-ctl/main.go`, `pkg/config` | viper | override, flag, environment, file, default; choice of authenticators and routes | precedence, units, keys that are not decoded |
| Worker prototype | `carta-worker` | none (per call a FITS handle) | gRPC: file list, file info | close on every error path |
| Shared helpers, `api` stub | `pkg/shared`, `services/api` | none | | |

What makes each of them correct:

- **Spawner**: no process that may be stopped is ever lost track of; "Worker
  stopped" is true of the process it started; every request is answered; a signal stops every worker and
  ends the spawner.
- **Session**: no accepted message is lost or doubled while its connection lives;
  none reaches the worker of another file or the wrong end; sends go through;
  a client that leaves takes its workers with it.
- **Database**: a key leads to one workspace, and a workspace keeps its key; a
  private workspace stays private; a request touches rows of its own user only;
  concurrent changes of different preferences do not undo each other.
- **Codec**: a worker gets the bytes its client has sent; two messages name the
  same worker exactly when they carry the same bits of a file id.
- **Authentication**: whoever is served has proved the name recently, to the kind
  of login that is configured, or knows the key of the session tokens; a redirect leads somewhere; one login is enough.
- **Together**: the worker of a session is always one the spawner knows, and it
  ends when its client leaves.

`PROJECT.json` lists the hazards of the code at their lines, with the
properties that would catch each going wrong.

## 2. Modules

| Module | Role |
|---|---|
| `WorkerService` | Abstract: what a client of the spawner may rely on. A worker is requested, then serving or refused, then retired; the service forgets no running worker it may stop. |
| `Delivery` | Abstract: what a session promises whoever sends: bounded lines, delivered once, lost only with the connection at the end, and in order where one carrier serves the line. |
| `Links` | Abstract: what the database promises of workspaces, a directory in which a link leads to one workspace, which its owner opens, closes and deletes. |
| `Spawner` | carta-spawn, one action per step between which other goroutines can run. |
| `Session` | One browser session of carta-ctl, its workers and their connections. |
| `Codec` | Frames, file ids and their conversions, as operators on sequences of bytes. |
| `SessionFrames` | `Session` and `Codec`: what a handler does follows from the bytes of its message. |
| `CartaSystem` | `Session` and `Spawner` composed: the session's requests are served by the spawner, beside those of others. |
| `Controller` | Start-up, configuration, routes, logins and authentication of carta-ctl. |
| `Database` | The database API. |
| `SpawnerProofs`, `SessionProofs`, `SessionKeptProofs`, `CodecProofs`, `SessionFramesProofs`, `CartaSystemProofs`, `ControllerProofs`, `DatabaseProofs` | The theorems about the module each is named after (`SessionKeptProofs`: `KeptOnce` and `ImplementsDelivery`). |
| `MCSpawner`, `MCSession`, `MCCartaSystem`, `MCController`, `MCDatabase` | Symmetry sets, message scripts, people and configurations for TLC. |

### 2.1 Spawner

A POST `p` names its process and its worker id too (ids are fresh UUIDs).

| Variable | Code |
|---|---|
| `proc`, `port`, `immune`, `waited` | the process the spawner has started (sudo), the port its backend has logged, whether Kill is refused with EPERM, whether `Wait` has returned |
| `orphans` | processes that are over and whose backend goes on |
| `post`, `peer` | program counter of each POST handler, and the process at the other end of its test connection |
| `workerMap`, `writers` | the map, and the goroutines inside a write of it |
| `del` | program counter and id of each DELETE handler |
| `ctx`, `main`, `cur`, `todo` | the cancelled context; the main goroutine, the worker its loop is at, the entries its range may still produce |

`PostStart` to `PostReply` are `SpawnWorker` (start, then the select over port,
timeout and signal), `TestWorker` (dial, PING, PONG) and the store.
`DeleteLookup`, `DeleteKill`, `DeleteUnlist`, `DeleteReply` are the DELETE
handler. `LoopStart` to `Exit` are the shutdown; requests are accepted until `StopListening`,
the beginning of `server.Shutdown`. GETs change nothing; they appear
only among the readers that may meet a write of the map.

Two outcomes the Go runtime may produce are nondeterministic: an access that
overlaps a write of `workerMap` either takes effect or ends the program
(`MapRace`), and a range over the map may or may not see an entry added
meanwhile (`PostStore` and `todo`). `ContextKill` is the goroutine of
`exec.CommandContext`, which kills on cancellation by itself. A process may exit
at any time, and a port given up may be given out again, so that a test may reach
another worker than the one it is for.

What the spawner starts, waits for and kills is sudo, and the backend is its child. sudo passes
SIGTERM on and ends with its child, but SIGKILL ends sudo alone: `Kill` may leave the
backend as an orphan, which keeps its port and its websockets until it exits
(`OrphanExit`). The code does nothing about orphans, so the properties speak
of the process: "Worker stopped" is true of sudo (`StoppedIsOver`, `DoneIsOver`), and
`NoStrayWorker` counts processes that run (finding 15).

`Service == INSTANCE WorkerService WITH ...` maps each POST to a status; the
property `ImplementsService` is `Service!Spec`.

### 2.2 Session

A client message `m` names its handler goroutine and whatever that creates (worker,
`SessionWorker`, connection, channel, sender, reader); a message `r` of a worker names
its goroutine. What bears one name need not belong together, which is what two
variables are for: `remote` is the worker at the other end of a connection, `sink` and `drains`
are the connection and the channel of a sender. `pc` and `dest` are a goroutine's place and the channel
it sends on, read at the moment the code evaluates it. `info`, `shared`, `mapMade`,
`fileMap` are the fields of `Session`; `sendChan` is the field of each
`SessionWorker`; `buf`, `hand`, `closed` are what a channel holds, what a sender is writing, and
the closed channels; `conn`, `got`, `pong` are a websocket, what it has delivered, and
whether its reader is writing PONG. `running` are the workers whose process runs, `alive` those whose
backend does.

A handler dials the address and port it has been told, so a dial (`Dial`, `Connect`)
reaches whoever listens there by then (`Reaches`): the worker that was started while its backend
lives, and after that any worker, of another session too (`Others`), that has been given the port.
That a live worker's port is its own is what `CartaSystem` shows of the spawner.

Every handler is split where another goroutine may see or change what it uses:
`REGISTER_VIEWER` publishes `sharedWorker` (`Dial`) before its channel exists, and reads it again
for `handleInit` and before it sends (`Target`); `handleInit` stores a channel (`MakeChan`) and reads
the field again for its sender (`StartSender`). Two REGISTER_VIEWERs may do that on one
`SessionWorker`: a channel then has two senders, another none, the connection two
writers and two readers. `OPEN_FILE` looks at `fileMap` (`StartSender`, `Initialised`), makes it
(`MakeMap`), and writes it (`PutBegin`, `PutEnd`); `HandleDisconnect` is `CloseClientChan`, `Check`,
`CloseShared`, `AskShutdown` (it reads `Session.Info` again and puts the id in the
URL: `target`), `DeleteWorker`. Panics are modelled by what they do: a send on a
closed channel, two writers on a websocket (`WritePanics`) and two readers that
corrupt each other's buffer (`ReadPanics`) end the controller (`Crash`), except
in `wsHandler`, whose panic net/http recovers after the deferred calls
(`PongPanics`). A send on a nil channel blocks for ever (`Send` is never
enabled).

`D == INSTANCE Delivery WITH ...` maps channels to lines, senders to carriers, connections to
ends, and the goroutines past their send to what has been accepted; `ImplementsDelivery` is `D!Spec`.
A carrier takes the oldest message of its line, so a channel with one sender keeps the order of
the sends. With two it may not, and Delivery allows that. A step
of Delivery that loses a message needs a closed end, and one event (a panic) may
close several ends.

The spawner is an environment here: it starts a worker, fails, or its
answer is lost; a DELETE may fail with or without effect. `CartaSystem` replaces
it by `Spawner`.

### 2.3 Database

Every handler does all it does to shared state in one SQL statement, which
PostgreSQL runs atomically, so a request is one step, and a retried one is
another step. The statements are translated as they are: `||` merges preferences,
`content - keys` removes keys, `ON CONFLICT (name, username) DO UPDATE`
overwrites the user's own row (with or without its id), `UNIQUE (id)` refuses an
id another row has, the WHERE clauses of share, read and delete select rows.
`everShared` is a history variable: the workspaces whose owner has asked for
sharing. `L == INSTANCE Links WITH ...` maps an id to the row that has it (`LeadsTo`) and the
rows with `shared = true` to the open workspaces; `ImplementsLinks` is `L!Spec`. The id in the answer of a save without an id is `Garbled`: it is scanned
into an interface as bytes and encoded in base64.

### 2.4 Codec and SessionFrames

A byte is a number below `Byte`, a frame a sequence of bytes, so that widths are
as in the code: `Uint16`, `Uint32` and `PutUint32` are little-endian,
`Int32` is Go's conversion of a `uint32`. The code has `Byte = 256`; TLC takes 4 (then
a `uint32` has 8 bits, and ids with the highest bit set are among the inputs);
the theorems are about 256. The generated protobuf code is external: the file ids of
CARTA are `fixed32` and `sfixed32`, four bytes on the wire, left out when they are
zero, and that is what a body consists of here. `FileIdType` is
`messageTypeMap` together with the type the getter of each message returns.

In `SessionFrames` the constants `Kind` and `File` of `Session` are no longer free: they are
what `Codec` reads in `Frames`. `MCSession` writes its scripts with
`PrepareBinaryMessage`.

### 2.5 Controller

`Boot` and `BootFails` are `main` up to `ListenAndServe`: which layer of the
configuration wins (`Mode`), which start-ups end in a panic or an exit (`Refused`), and
what is then registered (`Registered`). `Stop` may come at any time, and the next start may
be with another configuration: tokens survive it. A request reads only its
own cookies and the configuration, so an exchange is one step: `WithAuth` is a
handler behind an authenticator, `PamLoginGet`, `PamLoginPost`, `LoginHandler`,
`CallbackHandler`, `CallbackRefuses` are the login pages. `at` is the page a browser asks
for next; it follows redirects by itself. `Multi` is mode "both": the user is
that of the first backend that accepts, the status that of the first write.

`now` is a clock that only `Tick` moves. `born`, `person` and `proved` in a token are history:
when and by whom it was obtained, and whether PAM or the provider has vouched for the name. HMAC and
JWT signatures are taken to be sound: a token is made with its key or not at all. The key
of session tokens is a constant of the source (finding 14), so `SignSession` lets
whoever knows it, the constant `KeyHolders`, make a token for any name and expiry.
`ServedByRecentLogin` says what is left: a name is served only to who has proved it, or
to a holder of the key. With `KeyHolders` empty it is the property the code would have with a secret key.

`LoginLasts` says that whoever carries the cookie of a login is not sent to log in again, however often
it asks. In mode "both" it speaks of the PAM cookie only, because there the code does send a browser with a good cookie of
the provider to `/pam-login` (finding 8). `LoginGetsIn` holds in mode "both" because somebody
logs in with PAM; a person whom only the provider knows does not get in (finding 9).

As the code stands, modes "oidc" and "both" start only with the key spelled
`issuerurl` (finding 10), which no example documents. The runs include such configurations, or these
modes would never be reached.

### 2.6 CartaSystem

`Spawner` is extended and `Session` instantiated (`S`). `running` and `alive` of `Session` are no
variables here but what `Spawner` says: processes that run (`Started`), and those or their orphans
(`Backends`). Message `m` names the POST that its handler makes; the other POSTs are workers
of other sessions. `SessionStep` is a step of the session alone; it gets a
worker only from a POST that was answered 200. `StartWorker` is the
arrival of its POST. `DialPort` dials the port in the answer and reaches whoever
listens there, as `Spawner` has it. `Leave` is its DELETE: `RequestShutdown` (the spawner accepts it),
`ShutdownAnswered` (with what the handler says, or nobody listens), `ShutdownLost`.
Everything else of the spawner is `BySpawner(SpawnerStep)`: processes, timers, other
requests, signal and shutdown; a websocket ends with the backend at its other end, not with the sudo above it
(`Hangup`). `ImplementsSession`, that is `S!Spec`, says that the environment assumed in
`Session` is what the spawner provides, `Reaches` included: by `PortInv` no two live backends have a port in common.

## 3. What TLC checks

| Run | Question | Instance | Distinct states |
|---|---|---|---|
| `spawner_safety` | Whatever requests and the shutdown do to the unlocked map: `NoStrayWorker`, `StoppedIsOver`, `WaitsEnd`, and the refinement `ImplementsService` | 2 POSTs, 2 DELETEs, 2 ports, symmetric | 939 thousand |
| `spawner_liveness` | `SignalStopsWorkers`, `SignalEndsSpawner`, `PostAnswered`, `DeleteAnswered` | 2 POSTs, 1 DELETE, 1 port | 281 thousand |
| `spawner_graceful` (violation) | `GracefulFirst`: "First try a graceful shutdown" | 1 POST | |
| `session_safety` | `ConnectedHasInfo`, `KeptOnce`, `WorkersGetTheirOwn`, `WorkersGetTheirFrames`, `RoutedByBits`, and the refinement `ImplementsDelivery` | two REGISTER_VIEWERs, or one and two OPEN_FILEs with a message for the first file (an id with the highest bit set, `int32` in one and `uint32` in the other), or a status request; one reply, channels of 1; the client stays (`Steady`) | 273 thousand |
| `session_liveness` | `KeptOnce`, `SendsFinish`, `SentIsDelivered`, `RegisteredWorkerStops` | REGISTER_VIEWER, one message, one reply; the client may leave, workers may exit, anybody may send PING, requests may fail | 35 thousand |
| `session_leak` (violation) | `WorkerClosedOnExit`: "Close worker on exit if it exists" | REGISTER_VIEWER, OPEN_FILE | |
| `session_quiet` (violation) | `ClosedChannelsAreQuiet` | REGISTER_VIEWER, one reply | |
| `session_filemap` (violation) | `OpenedFileIsMapped` | REGISTER_VIEWER, two OPEN_FILEs | |
| `session_proxied` (violation) | `ProxiedIsSent` | REGISTER_VIEWER, one message | |
| `database_safety` | `KeysAreUnambiguous`, `PrivateStaysPrivate`, `OwnRowsOnly`, `KeysSurviveSaves`, `PrefsChangeAsNamed`, and the refinement `ImplementsLinks` | 2 users, 1 name, 2 ids, 2 keys | 76 thousand |
| `controller_login` | `ServedByRecentLogin`, `RedirectsLead`, `LoginLasts`, `LoginGetsIn` | 1 browser used by 3 people, one of whom knows the key, 11 start-ups, 2 starts, a PAM cookie for 2 hours and an ID token for 1, a clock up to 3 | 484 thousand |
| `system_leaving` | `HeldIsListed`, `DoneIsOver`, `ImplementsSession`, `LeavingEndsWorker` | REGISTER_VIEWER and a POST of somebody else, its DELETE and a DELETE of somebody else, 1 port, all of the spawner's shutdown | 314 thousand |

The safety runs of `Spawner`, `Session`, `Database` and `Controller` also check the
module's `TypeOK`. Deadlock is not checked: requests, messages and processes are
finite, so a finished behaviour stops.

**Bounds.** `Posts`, `Deletes`, `Msgs` and `Replies` bound how many requests and
messages there are; but for the clock and the starts of `Controller` nothing else is bounded by hand. Two POSTs are the least in
which a worker can take over the port of another, one handler can store while
the loop is at another worker, and one map write can overlap another; two DELETEs are
the least that can meet on one worker. Channels of capacity 1 make a full channel
common, while the code's 100 would hide it. Two users, one name each and two ids let
every save collide with another; more names add rows that no statement relates.
In `Controller`, the three people are a PAM account that is also known to the
provider, a user of the provider only, and an account whose name no token can carry; `MaxTime`
is more than both lifetimes, two starts are the least in which a cookie meets
another mode, and the 11 start-ups set the mode in each layer against another one
below, and meet each refusal. Browsers share nothing, hence one. In
`CartaSystem` one worker of the session meets two DELETEs, its own exit and the shutdown, and a
worker of somebody else may take over its port; `Spawner` by itself has two workers at once.

**Action constraints** restrict what the environment chooses where a run would not end in time
otherwise; no step they forbid is one that the fairness of a run asks for.
`Steady` (`MCSession`, `session_safety`): two viewers or two files, not both; the client
stays and sends no PING, requests succeed, and workers exit before their dial or never, so that ports change
hands between the answer and the dial. `session_liveness` and the violation runs do without it.
`Narrow` (`MCCartaSystem`): the POST of somebody else comes when the session's worker is over, and
not in the runs with a signal or with the other DELETE. `Narrow` (`MCController`): the tokens made with the
key are for one name, until the end of the clock. The proofs know none of these.

`MaxTime` and `MaxBoots` bound the clock and the starts in the guards of `Tick`, `Boot` and
`BootFails`. The proofs (section 5) lift the safety results from these bounds.

**Symmetry** is used in safety runs only, over requests, ports and users that no
definition singles out.

## 4. Fairness

Liveness is stated under `FairSpec`, with weak fairness of:

- every step of a goroutine that can run (the Go scheduler is preemptive), with
  the timers of a select among them: a timer fires when nothing else happens;
- `ContextKill`, a goroutine of os/exec;
- in `Session`, the spawner's answer and a worker's answer to a dial, and `Write`: the peer of an
  open connection keeps reading. `WriteMessage` has no deadline, so that a peer which stops
  reading and keeps its connection holds up its sender, and in the end whoever sends to it;
- in `CartaSystem`, only what leaving needs: the goroutine of `wsHandler` (`Disconnect`),
  the arrival of its DELETE, the DELETE handler, its answer, and `ContextKill`;
- in `Controller`, weak fairness of the controller's answers and of logging in at the
  provider, and strong fairness of logging in with PAM: a user may mistype any
  number of times (a form that is refused comes back), but not for ever.

The strong fairness of the PAM login lets anybody with an account log in on any browser: `LoginGetsIn`
says nothing of a person whom only the provider knows, in mode "both". Progress of a DELETE
(`DeleteAnswered`, `RegisteredWorkerStops`) is progress of one straight handler that
waits for nothing; a DELETE that fails or is lost is not repeated by the code, and the properties leave it out.

Nothing obliges clients to send, leave or stay, processes to boot or exit, a
signal to come, a controller to start or stop, or time to pass. Two assumptions are about time. A worker that listens answers
PING or exits (`TestWorker` reads PONG with no deadline), and `Exit` waits for
the kills of the context: `main` sleeps one second before it returns, and the
model takes that as long enough.

## 5. What TLAPS proves

All theorems hold for every value of the constants that satisfies the module's
assumption (`SpawnerAssumption`, `SessionAssumption`, `DatabaseAssumption`,
`ControllerAssumption`, `SystemAssumption`, which includes that of `Session`: sets are disjoint where names would be
confused, `Nil` and `None` are new, a channel's capacity is positive, a worker's id is
that of a POST; `CodecAssumption` and `FramesAssumption`: numbers fit their widths, and the
handlers are those of the frames). The theorems of `CodecProofs` and `SessionFramesProofs`
have the hypothesis `Byte = 256`. Each safety property follows from an inductive
invariant, since none is inductive by itself.

- **Spawner.** `IInv` is `TypeOK`, `PostInv`, `DelInv`, `LoopInv` and
  `NoStrayWorker`. `StoppedIsOver` needs `DelInv`: past its kill, a DELETE's process is
  over, which no other action undoes because a process never runs again; and
  that needs `PostInv`, which ties a process's life to the place of its POST.
  `NoStrayWorker` needs `DelInv` and `LoopInv`, which say that an entry is deleted
  only once its process is over. `SpawnerImplementsService` proves
  `Spec => Service!Spec`: initial states map to initial states, each action maps to
  an action of `WorkerService` or a stutter. `WaitsEnd` (nobody is inside `Wait` for a process
  that somebody else has waited for, or that runs on, unless it is protected from the kill of
  its own POST) needs `WaitInv`: a process whose POST has yet to wait for it has been waited
  for by nobody, and the worker the loop waits for may be killed.
- **Session.** `LinkInv` (how far each handler has come, and what the session
  knows by then) gives `ConnectedHasInfo`; with `WireInv` (which connection a channel,
  a sender, a field of the session and an acknowledgement are of), `RouteInv` (whoever
  sends, is queued, is being written or has been delivered belongs there) and `RemoteInv` (a connection
  leads to the worker that was started for it, unless that one is over) it gives
  `WorkersGetTheirOwn`. Routing needs the
  history of each message: what a connection delivered was in a sender's
  hand, before that in a channel, before that with a goroutine whose `dest` was
  computed from a `fileMap` entry that still belongs to the file.
- **Session, once only.** `KeptOnce` counts occurrences in sequences. `SessionKeptProofs` replaces
  the count by positions: `DialInv` (nothing is wired to a worker before its connection),
  `HeldInv` (what a channel or a sender holds is there once and not delivered, with several senders
  to a channel too), `OwedInv` (what was sent on an open connection is held or delivered).
  `SessionImplementsDelivery` proves `Spec => D!Spec` from the same invariant and `OpenInv`
  (nothing is connected before its dial, and a line leads only to what has been connected),
  action by action: a `Dial` opens an end, `MakeChan` attaches a line to one, `StartSender` makes a
  carrier join a line, and a panic closes all ends that are open.
- **Codec.** `PrefixesReadBack`: what `PrepareBinaryMessage` writes, `DecodeMessagePrefix` reads.
  `ForwardedUnchanged`: taking a frame of any length apart and building it again changes no byte.
  `FileIdsStayApart`: two messages have the same key of `fileMap` if and only if they carry the
  same 32 bits, which is why ids from 2^31 on, though negative as a key, do no harm.
  With `WorkersGetTheirOwn` they give `WorkersGetTheirFrames` and `RoutedByBits`.
- **Controller.** `TokenInv` says of every token a browser carries that its person has earned
  the name, at `born`, and that it expires no later than the lifetime allows, or that its person knows the key; `DownIsSilent`
  that answers are of the configuration in effect. `ServedByRecentLogin` and `RedirectsLead`
  follow for what each authenticator may return (`AuthenticateHTTPResult`).
- **Database.** `IInv` adds that ids in use have been used (`IdsAreUsed`, so a fresh id
  collides with none) and that a shared row has been asked to be shared
  (`SharedIsAsked`). `PrefsChangeAsNamed` is an action property of single steps.
  `DatabaseImplementsLinks` proves `Spec => L!Spec`. Its mapping chooses the row of an id;
  `LinksLead` uses `KeysAreUnambiguous` to show that there is no choice, and `RowMoves` and
  `RowOpens` reduce every statement to what it does to one row. It says more than
  `PrivateStaysPrivate`: what others are shown is open at that moment, not only
  once asked to be.
- **CartaSystem.** `SystemInv` is `IInv` and `PortInv` of `Spawner` (no two live backends share a
  port), `ListInv` (an entry of `workerMap` outlives its process) and `LinkInv` (an id the session
  keeps, and whatever a handler dials, is one the spawner has answered
  with; the DELETE is made once, for the id kept when it was made). `SpawnerSees` shows
  that the spawner takes no step here that it would not take alone, so its invariants carry over;
  `LinkInv` is needed because a 200 answers the DELETE of `target` only if `Leave` is for
  `target`. `SystemImplementsSession` proves `SystemSpec => S!Spec`: each step is a step of
  `Session` or invisible to it. The end of a process is its `WorkerExits` or, when the backend
  goes on, its `WorkerOrphaned` (`KillMoves`), the answer is its `DeleteWorker`, and a dial of the port is its
  `Dial` because of `PortInv` (`DialRefines`). `ServedInv` says that `reading = "done"` comes
  after the end of the process; it gives `DoneIsOver`.
- **Carried over.** What is proved of a component holds in the composition, by theorem and not by
  analogy: `SystemImplementsSpawner` with the theorems of `SpawnerProofs` gives
  `SystemKeepsSpawner`, and `SystemImplementsSession` with those of `SessionProofs` and
  `SessionKeptProofs`, instantiated for the session of the composition (`SK`, shown to be
  the same specification by `SameSpec`), gives `SystemKeepsSession` and `SystemDelivers`.

Only model-checked: liveness, which is (with ENABLED) beyond the prover:
`SignalStopsWorkers`, `SignalEndsSpawner`, `PostAnswered`, `DeleteAnswered`, `SendsFinish`,
`SentIsDelivered`, `RegisteredWorkerStops`, `LoginGetsIn`, `LeavingEndsWorker`. Induction over
data and RECURSIVE operators are beyond the prover as well; no module here uses
recursion.

## 6. Where code and comments disagree

Each of these is a run that TLC must find violated, or was read in the code
(`PROJECT.json`, `findings`, quotes the lines):

1. The signal cancels the context all workers were started with, so they are
   killed before the loop sends SIGTERM (`spawner_graceful`).
2. A client that leaves while REGISTER_VIEWER waits for the spawner, or that has
   opened a file, leaves workers running (`session_leak`).
3. A worker's message in flight is sent on the client channel that the
   disconnect has closed, and the panic ends the controller (`session_quiet`).
4. Two OPEN_FILEs that both find `fileMap` nil: one map, and its worker, is lost
   (`session_filemap`).
5. A message between the assignment of `sharedWorker` and `handleInit` is sent on a
   nil channel and blocks for ever (`session_proxied`).
6. (read) The REGISTER_VIEWER for a file worker carries the payload of OPEN_FILE.
7. (read) `--timeout`, documented in seconds, is decoded as nanoseconds.
8. (read) In mode "both", PAM has already answered with a redirect when the provider's
   cookie is accepted: the handler runs, but the browser is told to log in.
9. (read) In mode "both" the OIDC login routes are never registered, since
   `oidcAuth` is only assigned in mode "oidc".
10. (read) The tags of `issuer_url` and `client_id` are misspelt (`mapstrucutre`), so that the
    documented keys are not decoded.
11. (read) An invalid bearer token is answered with a redirect, not with 401.
12. (read) Without a frontend directory the websocket is not served either, although the
    log says that only it is.
13. (read) `ExtractFileId` returns -1, not 0, when there is no id (nothing depends on it).
14. (read) The key of session tokens is a constant of the source that nothing replaces, against the
    TODO above it; what `ServedByRecentLogin` promises is only about people who do not know it.
15. (read) "Worker stopped" is said of sudo, which SIGKILL ends without its child: the backend
    may go on.

## 7. Not modelled, and why

Payloads, headers, JSON and logging only decide between an answer and a refusal,
which is a choice. JSON schemas are an external submodule. What a worker does inside is
external: only boot, log of the port, PONG, acknowledgement and exit. PAM, the OIDC
provider and the generated protobuf code are external. `CountWorkers` has no caller.

- The Go worker prototype (`carta-worker`, `fitsWrapper`): nothing starts it, and its calls
  are stateless: each opens, reads and closes one file through cfitsio.
- Static files, templates and `/config`: they keep no state.
- Configuration keys other than those in `Controller` are single values that are read
  once and given to what other modules have as a constant (ports, timeouts).
- A crash and restart of the spawner: nothing is persisted, so a restarted spawner
  starts from `Init` and knows none of the workers that run; there is no
  recovery to check. `MapRace` and `ListenError` end the spawner, and every promise is stated under `Up`.
- `GET /worker/{id}` and `GET /workers` change nothing; they appear among the readers of
  the map.
- A save of preferences with the body `null` panics on a nil map; net/http ends that
  exchange, and nothing else changes (`Refuse` in `Database`).
- What expiry means for a websocket that is open: the user of a session is read
  once, and nothing in the repository says that an open session should end.

## 8. Order of the work, and what could follow

The parts whose state is shared by most goroutines came first: `Spawner`, `Session`,
`Database`; then `Codec` and `Controller`, which keep none; then the compositions
`SessionFrames` and `CartaSystem`. What could follow:

1. `CartaSystem` checked with OPEN_FILE, so that `session_leak` is seen on the spawner's
   side too, and with two sessions on one spawner; both multiply the states, and
   the proofs already hold for any number of workers and other requests.
2. The liveness of a browser with several tabs on one cookie, in `Controller`.
3. An abstract specification of a login (a proof of a name, good for its lifetime) that `Controller`
   implements, as `Delivery`, `Links` and `WorkerService` are for the other components.
