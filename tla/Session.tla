------------------------------ MODULE Session ------------------------------
(***************************************************************************)
(* One browser session of carta-ctl.  wsHandler reads the client's         *)
(* websocket and starts a goroutine per message; REGISTER_VIEWER starts    *)
(* the session's shared worker, OPEN_FILE a worker for that file, and any  *)
(* other message is proxied to one of them.  Every websocket is written by *)
(* a sender goroutine that drains a buffered channel, and read by a        *)
(* goroutine that starts one more goroutine per message.  Session fields   *)
(* and fileMap are shared by all of them with no lock.                     *)
(*                                                                         *)
(* A client message is named m, and so are its handler goroutine, the     *)
(* worker it starts, the SessionWorker and the connection it creates, and  *)
(* the channel, the sender and the reader its handleInit makes.  These     *)
(* need not belong together: a dial reaches whoever listens on the port by *)
(* then, and two REGISTER_VIEWERs may run handleInit on one SessionWorker. *)
(* A message of a worker is named r, as is its goroutine.  What a          *)
(* goroutine puts on a channel has its name too: a message of the client   *)
(* is sent on as it is, a REGISTER_VIEWER for the handlers of              *)
(* REGISTER_VIEWER and OPEN_FILE, and the OPEN_FILE an ack gives rise to   *)
(* is named after the ack.                                                 *)
(***************************************************************************)
EXTENDS Naturals, Sequences

CONSTANTS
  Msgs,      \* messages of the client, each sent at most once, in any order
  Replies,   \* messages of the workers
  Others,    \* workers of other sessions
  Files,     \* file ids
  Kind,      \* Kind[m]: "register", "open", "proxied" or "status"
  File,      \* File[m]: its file id, or Nil
  Cap,       \* capacity of a send channel (100 in the code)
  Client,    \* the client's connection, its channel, sender and reader
  Nil

Goroutines == Msgs \union Replies
Conns == Msgs \union {Client}
Chans == Conns
Senders == Conns
Workers == Msgs \union Others

ASSUME SessionAssumption ==
  /\ Cap \in Nat \ {0}
  /\ Kind \in [Msgs -> {"register", "open", "proxied", "status"}]
  /\ File \in [Msgs -> Files \union {Nil}]
  /\ \A m \in Msgs : Kind[m] = "open" => File[m] # Nil
  /\ Msgs \intersect Replies = {}
  /\ Client \notin Goroutines
  /\ Others \intersect Msgs = {}
  /\ Nil \notin Goroutines \union Others \union Files \union {Client}

VARIABLES
  up,        \* the controller process runs (no unrecovered panic yet)
  reading,   \* where wsHandler is: its read loop, then HandleDisconnect
  pc,        \* where each goroutine is
  dest,      \* the channel operand of each goroutine's send
  from,      \* the connection a reply comes from
  ack,       \* the replies that are a REGISTER_VIEWER_ACK
  info,      \* Session.Info: the worker to stop
  shared,    \* Session.sharedWorker
  mapMade,   \* Session.fileMap is not nil
  fileMap,   \* Session.fileMap
  writers,   \* goroutines inside a write of fileMap
  target,    \* the worker HandleDisconnect asks the spawner to stop
  sendChan,  \* SessionWorker.sendChan
  buf,       \* what a channel holds
  closed,    \* the closed channels
  sink,      \* the connection of the SessionWorker a handleInit works on
  drains,    \* the channel each sender drains
  hand,      \* what each sender is writing
  conn,      \* each connection, seen from the controller
  remote,    \* the worker at the other end of each connection
  got,       \* what each connection has delivered
  pong,      \* readers that are writing a PONG
  running,   \* workers whose process, as the spawner knows it, runs
  alive      \* workers whose backend runs, also when that process is over

sessVars == <<info, shared, mapMade, fileMap, writers, target>>
chanVars == <<sendChan, buf, closed, sink, drains, hand>>
connVars == <<conn, remote, got, pong>>
lifeVars == <<running, alive>>
goVars   == <<pc, dest, from, ack>>
vars == <<up, reading, goVars, sessVars, chanVars, connVars, lifeVars>>

Reading == {"reading", "closing", "checking", "stopping", "asking", "deleting", "done", "undeleted"}
Pc == {"idle", "received", "starting", "started", "dialing", "ready", "made", "running", "making",
       "putting", "storing", "sending", "sent", "failed"}

TypeOK ==
  /\ up \in BOOLEAN
  /\ reading \in Reading
  /\ pc \in [Goroutines -> Pc]
  /\ dest \in [Goroutines -> Chans \union {Nil}]
  /\ from \in [Replies -> Msgs \union {Nil}]
  /\ ack \subseteq Replies
  /\ info \in Msgs \union {Nil}
  /\ shared \in Msgs \union {Nil}
  /\ mapMade \in BOOLEAN
  /\ fileMap \in [Files -> Msgs \union {Nil}]
  /\ writers \subseteq Msgs
  /\ target \in Msgs \union {Nil}
  /\ sendChan \in [Msgs -> Msgs \union {Nil}]
  /\ buf \in [Chans -> Seq(Goroutines)]
  /\ \A c \in Chans : Len(buf[c]) <= Cap
  /\ closed \subseteq Chans
  /\ sink \in [Chans -> Conns \union {Nil}]
  /\ drains \in [Senders -> Chans \union {Nil}]
  /\ hand \in [Senders -> Goroutines \union {Nil}]
  /\ conn \in [Conns -> {"none", "open", "closed"}]
  /\ remote \in [Conns -> Workers \union {Nil}]
  /\ got \in [Conns -> SUBSET Goroutines]
  /\ pong \subseteq Conns
  /\ running \subseteq Msgs
  /\ alive \subseteq Msgs

\* NewSession and HandleConnection have run.
Init ==
  /\ up = TRUE
  /\ reading = "reading"
  /\ pc = [a \in Goroutines |-> "idle"]
  /\ dest = [a \in Goroutines |-> Nil]
  /\ from = [r \in Replies |-> Nil]
  /\ ack = {}
  /\ info = Nil
  /\ shared = Nil
  /\ mapMade = FALSE
  /\ fileMap = [f \in Files |-> Nil]
  /\ writers = {}
  /\ target = Nil
  /\ sendChan = [m \in Msgs |-> Nil]
  /\ buf = [c \in Chans |-> <<>>]
  /\ closed = {}
  /\ sink = [c \in Chans |-> IF c = Client THEN Client ELSE Nil]
  /\ drains = [s \in Senders |-> IF s = Client THEN Client ELSE Nil]
  /\ hand = [s \in Senders |-> Nil]
  /\ conn = [k \in Conns |-> IF k = Client THEN "open" ELSE "none"]
  /\ remote = [k \in Conns |-> Nil]
  /\ got = [k \in Conns |-> {}]
  /\ pong = {}
  /\ running = {}
  /\ alive = {}

\* A step of goroutine a from one pc to another.
Step(a, here, there) ==
  /\ up
  /\ pc[a] = here
  /\ pc' = [pc EXCEPT ![a] = there]

\* An unrecovered panic ends the process, and every session with it.
Crash ==
  /\ up
  /\ up' = FALSE
  /\ UNCHANGED <<reading, goVars, sessVars, chanVars, connVars, lifeVars>>

-----------------------------------------------------------------------------
(* The read loop. *)

Listens == up /\ reading = "reading" /\ Client \notin pong

\* The message's goroutine starts.
Receive(m) ==
  /\ Listens
  /\ Step(m, "idle", "received")
  /\ UNCHANGED <<up, reading, dest, from, ack, sessVars, chanVars, connVars, lifeVars>>

\* The client goes away, or its connection fails.
ClientLeaves ==
  /\ Listens
  /\ reading' = "closing"
  /\ conn' = [conn EXCEPT ![Client] = "closed"]
  /\ UNCHANGED <<up, goVars, sessVars, chanVars, remote, got, pong, lifeVars>>

-----------------------------------------------------------------------------
(* handleRegisterViewerMessage and handleOpenFile. *)

\* checkAndParse: only REGISTER_VIEWER is allowed without a worker connection,
\* and a zero request id or a body that does not parse is refused.
Parse(m) ==
  /\ Kind[m] \in {"register", "open"}
  /\ \/ Step(m, "received", "failed")
     \/ /\ Kind[m] = "open" => shared # Nil
        /\ Step(m, "received", "starting")
  /\ UNCHANGED <<up, reading, dest, from, ack, sessVars, chanVars, connVars, lifeVars>>

\* POST to the spawner: the worker runs before the answer is here.
SpawnerStarts(m) ==
  /\ Step(m, "starting", "started")
  /\ running' = running \union {m}
  /\ alive' = alive \union {m}
  /\ UNCHANGED <<up, reading, dest, from, ack, sessVars, chanVars, connVars>>

\* The spawner is not reachable, answers an error, or its answer is lost.
StartFails(m) ==
  /\ \/ Step(m, "starting", "failed")
     \/ Step(m, "started", "failed")
  /\ UNCHANGED <<up, reading, dest, from, ack, sessVars, chanVars, connVars, lifeVars>>

\* Mutation: the worker's id is dropped, as handleOpenFile does.
StartAnsweredForgets(m) ==
  /\ Step(m, "started", "dialing")
  /\ UNCHANGED <<up, reading, dest, from, ack, sessVars, chanVars, connVars, lifeVars>>

\* Only REGISTER_VIEWER keeps the worker's id.
StartAnswered(m) ==
  /\ Step(m, "started", "dialing")
  /\ info' = IF Kind[m] = "register" THEN m ELSE info
  /\ UNCHANGED <<up, reading, dest, from, ack, shared, mapMade, fileMap, writers, target,
                 chanVars, connVars, lifeVars>>

DialFails(m) ==
  /\ Step(m, "dialing", "failed")
  /\ UNCHANGED <<up, reading, dest, from, ack, sessVars, chanVars, connVars, lifeVars>>

\* Who may be at the port the spawner has named: the worker that was started, or,
\* once it is over, any worker that has been given its port.
Reaches(m) == IF m \in alive THEN {m} ELSE alive \union Others

\* One of W takes the connection.  The session sees its new shared worker at
\* once, and a file worker later.
Connect(m, W) ==
  /\ Step(m, "dialing", "ready")
  /\ conn' = [conn EXCEPT ![m] = "open"]
  /\ \E w \in W : remote' = [remote EXCEPT ![m] = w]
  /\ shared' = IF Kind[m] = "register" THEN m ELSE shared
  /\ UNCHANGED <<up, reading, dest, from, ack, info, mapMade, fileMap, writers, target,
                 chanVars, got, pong, lifeVars>>

\* Mutation: the address is read back from Session.Info.
DialInfo(m) == Connect(m, Reaches(info))

Dial(m) == Connect(m, Reaches(m))

\* The worker a handler goes on with: handleRegisterViewerMessage reads
\* s.sharedWorker again each time.
Target(m) == IF Kind[m] = "register" THEN shared ELSE m

\* handleInit stores a new channel in the SessionWorker it is called on, which
\* the handler of another REGISTER_VIEWER may have stored.
MakeChan(m) ==
  /\ Step(m, "ready", "made")
  /\ sendChan' = [sendChan EXCEPT ![Target(m)] = m]
  /\ sink' = [sink EXCEPT ![m] = Target(m)]
  /\ UNCHANGED <<up, reading, dest, from, ack, sessVars, buf, closed, drains, hand, connVars,
                 lifeVars>>

\* Where a handler goes on when handleInit returns.
Initialised(m) ==
  IF Kind[m] = "register" THEN "running" ELSE IF mapMade THEN "putting" ELSE "making"

\* It reads the channel again for the sender, and starts the sender and the
\* reader of the connection.
StartSender(m) ==
  /\ Step(m, "made", Initialised(m))
  /\ drains' = [drains EXCEPT ![m] = sendChan[sink[m]]]
  /\ UNCHANGED <<up, reading, dest, from, ack, sessVars, sendChan, buf, closed, sink, hand,
                 connVars, lifeVars>>

\* fileMap was nil when the handler looked: a new map, also when another
\* handler has made one meanwhile.
MakeMap(m) ==
  /\ Step(m, "making", "putting")
  /\ mapMade' = TRUE
  /\ fileMap' = [f \in Files |-> Nil]
  /\ writers' = {}
  /\ UNCHANGED <<up, reading, dest, from, ack, info, shared, target, chanVars, connVars, lifeVars>>

PutBegin(m) ==
  /\ Step(m, "putting", "storing")
  /\ fileMap' = [fileMap EXCEPT ![File[m]] = m]
  /\ writers' = writers \union {m}
  /\ UNCHANGED <<up, reading, dest, from, ack, info, shared, mapMade, target, chanVars, connVars,
                 lifeVars>>

PutEnd(m) ==
  /\ Step(m, "storing", "running")
  /\ writers' = writers \ {m}
  /\ UNCHANGED <<up, reading, dest, from, ack, info, shared, mapMade, fileMap, target,
                 chanVars, connVars, lifeVars>>

\* REGISTER_VIEWER for the worker; the channel is read here.
SendRegister(m) ==
  /\ Step(m, "running", "sending")
  /\ dest' = [dest EXCEPT ![m] = sendChan[Target(m)]]
  /\ UNCHANGED <<up, reading, from, ack, sessVars, chanVars, connVars, lifeVars>>

-----------------------------------------------------------------------------
(* handleProxiedMessage and handleStatusMessage. *)

\* The worker of the message's file, or else the shared worker.
Route(m) ==
  IF File[m] # Nil /\ mapMade /\ fileMap[File[m]] # Nil THEN fileMap[File[m]] ELSE shared

Proxy(m) ==
  /\ Kind[m] = "proxied"
  /\ IF Route(m) = Nil
     THEN Step(m, "received", "failed") /\ UNCHANGED dest
     ELSE Step(m, "received", "sending") /\ dest' = [dest EXCEPT ![m] = sendChan[Route(m)]]
  /\ UNCHANGED <<up, reading, from, ack, sessVars, chanVars, connVars, lifeVars>>

\* handleStatusMessage asks the spawner about the worker and logs the answer.
QueryStatus(m) ==
  /\ Kind[m] = "status"
  /\ Step(m, "received", IF info = Nil THEN "failed" ELSE "sent")
  /\ UNCHANGED <<up, reading, dest, from, ack, sessVars, chanVars, connVars, lifeVars>>

-----------------------------------------------------------------------------
(* Workers and their replies. *)

\* Reader s, which handler s has started, may read the next message.
Reads(s) == up /\ drains[s] # Nil /\ conn[sink[s]] = "open" /\ s \notin pong

\* A worker acknowledges the REGISTER_VIEWER it has received on connection k,
\* once, and may send anything else at any time.
WorkerSends(r, k) ==
  /\ \E s \in Msgs : Reads(s) /\ sink[s] = k
  /\ r \in Replies /\ pc[r] = "idle"
  /\ pc' = [pc EXCEPT ![r] = "received"]
  /\ from' = [from EXCEPT ![r] = k]
  /\ \/ /\ \E m \in got[k] \intersect Msgs : Kind[m] # "proxied"
        /\ \A q \in ack : from[q] # k
        /\ ack' = ack \union {r}
     \/ UNCHANGED ack
  /\ UNCHANGED <<up, reading, dest, sessVars, chanVars, connVars, lifeVars>>

\* The ack of a file worker becomes its OPEN_FILE; the rest is for the client.
Answer(r) ==
  /\ r \in Replies
  /\ Step(r, "received", "sending")
  /\ dest' = [dest EXCEPT ![r] =
       IF r \in ack /\ Kind[from[r]] = "open" THEN sendChan[from[r]] ELSE Client]
  /\ UNCHANGED <<up, reading, from, ack, sessVars, chanVars, connVars, lifeVars>>

\* The connections of the workers W end with them.
HangUp(W) ==
  conn' = [k \in Conns |-> IF remote[k] \in W /\ conn[k] = "open" THEN "closed" ELSE conn[k]]

\* The worker exits by itself, or something else stops it.
WorkerExits(w) ==
  /\ w \in alive \union Others
  /\ running' = running \ {w}
  /\ alive' = alive \ {w}
  /\ HangUp({w})
  /\ UNCHANGED <<up, reading, goVars, sessVars, chanVars, remote, got, pong>>

\* Something else kills the process the spawner knows, and its backend goes on.
WorkerOrphaned(w) ==
  /\ w \in running
  /\ running' = running \ {w}
  /\ UNCHANGED <<up, reading, goVars, sessVars, chanVars, connVars, alive>>

-----------------------------------------------------------------------------
(* Channels, senders and PONGs. *)

\* Mutation: a channel with no bound.
SendUnbounded(a) ==
  /\ dest[a] # Nil
  /\ dest[a] \notin closed
  /\ Step(a, "sending", "sent")
  /\ buf' = [buf EXCEPT ![dest[a]] = Append(@, a)]
  /\ UNCHANGED <<up, reading, dest, from, ack, sessVars, sendChan, closed, sink, drains, hand,
                 connVars, lifeVars>>

\* Mutation: a send that does not wait, and drops the message instead.
SendDrops(a) ==
  /\ dest[a] # Nil
  /\ dest[a] \notin closed
  /\ Step(a, "sending", "sent")
  /\ buf' = [buf EXCEPT ![dest[a]] = IF Len(@) < Cap THEN Append(@, a) ELSE @]
  /\ UNCHANGED <<up, reading, dest, from, ack, sessVars, sendChan, closed, sink, drains, hand,
                 connVars, lifeVars>>

\* A send blocks while the channel is full, and for ever when it is nil.
Send(a) ==
  /\ dest[a] # Nil
  /\ dest[a] \notin closed
  /\ Len(buf[dest[a]]) < Cap
  /\ Step(a, "sending", "sent")
  /\ buf' = [buf EXCEPT ![dest[a]] = Append(@, a)]
  /\ UNCHANGED <<up, reading, dest, from, ack, sessVars, sendChan, closed, sink, drains, hand,
                 connVars, lifeVars>>

\* Mutation: the next message is taken while one is being written.
TakeOverwrites(s) ==
  LET c == drains[s] IN
  /\ up
  /\ c # Nil /\ buf[c] # <<>>
  /\ hand' = [hand EXCEPT ![s] = Head(buf[c])]
  /\ buf' = [buf EXCEPT ![c] = Tail(@)]
  /\ UNCHANGED <<up, reading, goVars, sessVars, sendChan, closed, sink, drains, connVars, lifeVars>>

\* Mutation: the sender takes nothing more once its connection has failed.
TakeWhileOpen(s) ==
  LET c == drains[s] IN
  /\ up
  /\ c # Nil /\ hand[s] = Nil /\ buf[c] # <<>>
  /\ conn[sink[s]] = "open"
  /\ hand' = [hand EXCEPT ![s] = Head(buf[c])]
  /\ buf' = [buf EXCEPT ![c] = Tail(@)]
  /\ UNCHANGED <<up, reading, goVars, sessVars, sendChan, closed, sink, drains, connVars, lifeVars>>

\* sendHandler drains a closed channel too; two of them may drain one channel.
Take(s) ==
  LET c == drains[s] IN
  /\ up
  /\ c # Nil /\ hand[s] = Nil /\ buf[c] # <<>>
  /\ hand' = [hand EXCEPT ![s] = Head(buf[c])]
  /\ buf' = [buf EXCEPT ![c] = Tail(@)]
  /\ UNCHANGED <<up, reading, goVars, sessVars, sendChan, closed, sink, drains, connVars, lifeVars>>

\* WriteMessage; an error is logged and the loop goes on.
Write(s) ==
  LET k == sink[s] IN
  /\ up
  /\ hand[s] # Nil
  /\ hand' = [hand EXCEPT ![s] = Nil]
  /\ got' = [got EXCEPT ![k] = IF conn[k] = "open" THEN @ \union {hand[s]} ELSE @]
  /\ UNCHANGED <<up, reading, goVars, sessVars, sendChan, buf, closed, sink, drains, conn,
                 remote, pong, lifeVars>>

\* PING from the other end: the reader itself writes PONG.
PongBegin(s) ==
  /\ IF s = Client THEN Listens ELSE Reads(s)
  /\ pong' = pong \union {s}
  /\ UNCHANGED <<up, reading, goVars, sessVars, chanVars, conn, remote, got, lifeVars>>

PongEnd(s) ==
  /\ up
  /\ s \in pong
  /\ pong' = pong \ {s}
  /\ UNCHANGED <<up, reading, goVars, sessVars, chanVars, conn, remote, got, lifeVars>>

-----------------------------------------------------------------------------
(* Panics. *)

SendPanics(a) ==
  /\ pc[a] = "sending"
  /\ dest[a] \in closed
  /\ Crash

\* Who is inside WriteMessage on connection k: senders, and readers with a PONG.
Writing(k) ==
  {<<s, "frame">> : s \in {t \in Senders : hand[t] # Nil /\ sink[t] = k}} \union
  {<<s, "pong">> : s \in {t \in pong : sink[t] = k}}

\* gorilla/websocket panics when it notices two writers on a connection.
Overlap(k) == conn[k] = "open" /\ \E x, y \in Writing(k) : x # y

WritePanics(k) == Overlap(k) /\ Crash

\* It does not guard a reader against another one: what they read is garbled and
\* dropped, as if it had not been sent, or an index is out of range.
ReadPanics(k) ==
  /\ \E s, t \in Msgs : s # t /\ Reads(s) /\ Reads(t) /\ sink[s] = k /\ sink[t] = k
  /\ Crash

\* In wsHandler itself the panic runs the deferred calls, and net/http
\* recovers it.
PongPanics ==
  /\ up
  /\ Client \in pong /\ Overlap(Client)
  /\ pong' = pong \ {Client}
  /\ reading' = "closing"
  /\ UNCHANGED <<up, goVars, sessVars, chanVars, conn, remote, got, lifeVars>>

\* fatal error: concurrent map writes, or map read and map write.
MapRace(m) ==
  /\ \/ pc[m] = "putting" /\ writers # {}
     \/ /\ pc[m] = "received" /\ Kind[m] = "proxied"
        /\ File[m] # Nil /\ mapMade /\ writers # {}
  /\ Crash

-----------------------------------------------------------------------------
(* HandleDisconnect. *)

CloseClientChan ==
  /\ up
  /\ reading = "closing"
  /\ closed' = closed \union {Client}
  /\ reading' = "checking"
  /\ UNCHANGED <<up, goVars, sessVars, sendChan, buf, sink, drains, hand, connVars, lifeVars>>

\* Mutation: the early return looks at the connection instead of the id.
CheckShared ==
  /\ up
  /\ reading = "checking"
  /\ reading' = IF shared = Nil THEN "done" ELSE "stopping"
  /\ conn' = IF shared = Nil THEN [conn EXCEPT ![Client] = "closed"] ELSE conn
  /\ UNCHANGED <<up, goVars, sessVars, chanVars, remote, got, pong, lifeVars>>

\* No worker id: nothing to stop, and wsHandler closes the connection.
Check ==
  /\ up
  /\ reading = "checking"
  /\ reading' = IF info = Nil THEN "done" ELSE "stopping"
  /\ conn' = IF info = Nil THEN [conn EXCEPT ![Client] = "closed"] ELSE conn
  /\ UNCHANGED <<up, goVars, sessVars, chanVars, remote, got, pong, lifeVars>>

\* SessionWorker.disconnect on the shared worker.
CloseShared ==
  /\ up
  /\ reading = "stopping"
  /\ reading' = "asking"
  /\ IF shared = Nil
     THEN UNCHANGED <<conn, closed>>
     ELSE /\ conn' = [conn EXCEPT ![shared] = "closed"]
          /\ closed' = closed \union ({sendChan[shared]} \ {Nil})
  /\ UNCHANGED <<up, goVars, sessVars, sendChan, buf, sink, drains, hand, remote, got, pong, lifeVars>>

\* The DELETE is made for the id that is kept by now.
AskShutdown ==
  /\ up
  /\ reading = "asking"
  /\ reading' = "deleting"
  /\ target' = info
  /\ UNCHANGED <<up, goVars, info, shared, mapMade, fileMap, writers, chanVars, connVars, lifeVars>>

\* DELETE to the spawner: no retry; an answer that does not come may mean either,
\* and a process that is over may have left its backend.
DeleteWorker ==
  /\ up
  /\ reading = "deleting"
  /\ \/ reading' = "done" /\ running' = running \ {target}
     \/ reading' = "undeleted" /\ running' \in {running, running \ {target}}
  /\ alive' \in {alive, alive \ {target}}
  /\ running' \subseteq alive'
  /\ conn' = [k \in Conns |->
       IF k = Client \/ (conn[k] = "open" /\ remote[k] \in alive \ alive') THEN "closed"
       ELSE conn[k]]
  /\ UNCHANGED <<up, goVars, sessVars, chanVars, remote, got, pong>>

-----------------------------------------------------------------------------
HandlerStep(m) ==
  \/ Parse(m) \/ SpawnerStarts(m) \/ StartFails(m) \/ StartAnswered(m) \/ DialFails(m) \/ Dial(m)
  \/ MakeChan(m) \/ StartSender(m) \/ MakeMap(m) \/ PutBegin(m) \/ PutEnd(m) \/ SendRegister(m)
  \/ Proxy(m) \/ QueryStatus(m) \/ MapRace(m)

SendStep(a) == Send(a) \/ SendPanics(a)

Disconnect == CloseClientChan \/ Check \/ CloseShared \/ AskShutdown \/ DeleteWorker

\* What the controller does, and those it talks to while they run.
Acts ==
  \/ \E m \in Msgs : Receive(m) \/ HandlerStep(m)
  \/ \E r \in Replies : \/ Answer(r)
                        \/ \E k \in Msgs : WorkerSends(r, k)
  \/ \E a \in Goroutines : SendStep(a)
  \/ \E s \in Senders : Take(s) \/ Write(s) \/ PongBegin(s) \/ PongEnd(s)
  \/ \E k \in Conns : WritePanics(k) \/ ReadPanics(k)
  \/ ClientLeaves \/ PongPanics \/ Disconnect

Next == Acts \/ \E w \in Workers : WorkerExits(w) \/ WorkerOrphaned(w)

Spec == Init /\ [][Next]_vars

\* Goroutines that can run do, the spawner answers, a worker answers a dial, and
\* whoever is at the other end of an open connection keeps reading (WriteMessage
\* has no deadline: a peer that stops reading holds up its sender); the client,
\* the workers' messages and exits are owed by nobody.
Fairness ==
  /\ \A m \in Msgs : WF_vars(HandlerStep(m))
  /\ \A r \in Replies : WF_vars(Answer(r))
  /\ \A a \in Goroutines : WF_vars(SendStep(a))
  /\ \A s \in Senders : WF_vars(Take(s)) /\ WF_vars(Write(s)) /\ WF_vars(PongEnd(s))
  /\ WF_vars(Disconnect)

FairSpec == Spec /\ Fairness

-----------------------------------------------------------------------------
(* Safety. *)

\* The messages that the sends have accepted.
Accepted == {a \in Goroutines : pc[a] = "sent" /\ dest[a] # Nil}

\* A worker that the session can reach, shared or through fileMap, is never
\* connected while Session.Info is empty: the early return of HandleDisconnect
\* strands no connected worker.
ConnectedHasInfo == shared # Nil \/ (\E f \in Files : fileMap[f] # Nil) => info # Nil

\* sessionWorker.go:87-106: what the sends accepted, and has not been delivered, is
\* still on its way or belongs to a connection that is over; and it is on its way
\* once, on the channel it was sent to, also while others fill or close the
\* channel, and when the handlers of two REGISTER_VIEWERs have given one channel
\* two senders.
Queued(c) == {buf[c][i] : i \in DOMAIN buf[c]}
Holds(c, a) == a \in Queued(c) \/ \E s \in Senders : drains[s] = c /\ hand[s] = a
Owed(c, a) == pc[a] = "sent" /\ dest[a] = c /\ a \notin got[sink[c]]
KeptOnce ==
  /\ \A a \in Accepted : conn[sink[dest[a]]] = "open" =>
       Holds(dest[a], a) \/ a \in got[sink[dest[a]]]
  /\ \A c \in Chans : \A i \in DOMAIN buf[c] :
       /\ Owed(c, buf[c][i])
       /\ \A j \in DOMAIN buf[c] : buf[c][i] = buf[c][j] => i = j
  /\ \A s \in Senders : hand[s] # Nil =>
       /\ Owed(drains[s], hand[s])
       /\ hand[s] \notin Queued(drains[s])
       /\ \A t \in Senders : hand[t] = hand[s] => t = s

\* No message crosses over to a worker of another file: on the connection of a
\* file worker go its own REGISTER_VIEWER, the OPEN_FILE its own acknowledgement
\* gives rise to, and proxied messages with its file id; the client gets
\* everything else the workers send, whatever handlers write fileMap or Session
\* meanwhile.  openFile.go:27: at the other end of the connection is the worker
\* the handler has started, and somebody else only when that worker was over
\* before the dial.
Belongs(a, k) ==
  IF k = Client
  THEN a \in Replies /\ ~(a \in ack /\ Kind[from[a]] = "open")
  ELSE IF Kind[k] = "open"
  THEN \/ a = k
       \/ a \in ack /\ from[a] = k /\ k \in got[k]
       \/ a \in Msgs /\ Kind[a] = "proxied" /\ File[a] = File[k]
  ELSE a \in Msgs /\ Kind[a] \in {"register", "proxied"}
WorkersGetTheirOwn ==
  \A k \in Conns : \A a \in got[k] :
    Belongs(a, k) /\ (k = Client \/ remote[k] = k \/ k \notin alive)

-----------------------------------------------------------------------------
(* What it all amounts to for who sends. *)

D == INSTANCE Delivery WITH
       Messages <- Goroutines, Lines <- Chans, Carriers <- Senders, Ends <- Conns,
       First <- Client, Room <- Cap, None <- Nil,
       accepted <- Accepted, queue <- buf, end <- sink, line <- drains, carried <- hand,
       state <- conn, delivered <- got

\* sessionWorker.go:87, session.go:104: whoever fills, drains or closes a channel
\* and whatever connection ends meanwhile, a message that a send accepts is
\* written to its connection once, and only when that connection is over is it
\* lost; with one sender to the channel, in the order of the sends.
ImplementsDelivery == D!Spec

-----------------------------------------------------------------------------
(* Liveness, under FairSpec. *)

\* handleStatusMessage sends nothing, and only REGISTER_VIEWER keeps an id.
Speakers == Replies \union {m \in Msgs : Kind[m] # "status"}
Registers == {m \in Msgs : Kind[m] = "register"}

\* A send on a channel that has a sender goes through: the senders keep draining,
\* also when every write fails because the other end is gone.
Drained(c) == c # Nil /\ \E s \in Senders : drains[s] = c
SendsFinish ==
  \A a \in Speakers : pc[a] = "sending" /\ Drained(dest[a]) ~> pc[a] = "sent" \/ ~up

\* What was sent on such a channel reaches the other end, or the connection is
\* over.
Reached(a) == dest[a] # Nil /\ (a \in got[sink[dest[a]]] \/ conn[sink[dest[a]]] # "open")
SentIsDelivered ==
  \A a \in Speakers : pc[a] = "sent" /\ Drained(dest[a]) ~> Reached(a) \/ ~up

\* When the client leaves, the process of the worker whose id the session keeps is
\* stopped, unless the spawner does not do it or the controller dies first.
RegisteredWorkerStops ==
  \A w \in Registers : reading = "closing" /\ info = w ~>
    w \notin running \/ info # w \/ reading = "undeleted" \/ ~up

-----------------------------------------------------------------------------
(* What comments in the code say. *)

Over(m) == pc[m] \in {"idle", "sent", "failed"}

\* carta-ctl/main.go:102: "Close worker on exit if it exists".  When the client
\* has left, HandleDisconnect is done and every handler is over, no worker the
\* session has been connected to still runs.
WorkerClosedOnExit ==
  reading = "done" /\ up /\ (\A m \in Msgs : Over(m)) =>
    \A w \in running : conn[w] = "none"

\* session.go:104: closing the client channel signals the sender goroutine to
\* stop, and nobody sends on it any more.
ClosedChannelsAreQuiet ==
  up => \A a \in Goroutines : pc[a] = "sending" => dest[a] \notin closed

\* shared.go:27: a message with a file id is routed "to the corresponding
\* worker": once its OPEN_FILE has stored the worker there always is one.
OpenedFileIsMapped ==
  \A m \in Msgs : Kind[m] = "open" /\ pc[m] \in {"running", "sending", "sent"} =>
    fileMap[File[m]] # Nil

\* session.go:91: messages with no handler of their own are simply proxied.
ProxiedIsSent ==
  \A m \in Msgs : Kind[m] = "proxied" /\ pc[m] = "sending" ~>
                     pc[m] = "sent" \/ ~up
=============================================================================
