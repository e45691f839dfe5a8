------------------------------ MODULE Spawner ------------------------------
(***************************************************************************)
(* carta-spawn: the HTTP service that starts, probes, lists and stops      *)
(* worker processes.  net/http runs every request in a goroutine of its    *)
(* own, and the main goroutine waits for SIGINT/SIGTERM and then stops     *)
(* every worker it finds in workerMap.  workerMap is a plain Go map, read  *)
(* and written by all of them with no lock.                                *)
(*                                                                         *)
(* A POST is named p, and so are the process it starts and the worker id   *)
(* it mints (uuid.New never returns an id twice).  The process is the one  *)
(* the spawner starts, waits for and kills: sudo, which runs the backend   *)
(* as its child.  sudo passes SIGTERM on and ends with its child, but      *)
(* SIGKILL ends sudo alone, and the backend may go on as an orphan.  What  *)
(* the backend does inside is not modelled, only that it boots, logs the   *)
(* port it listens on, answers PING and may exit at any time.              *)
(***************************************************************************)
EXTENDS Naturals

CONSTANTS
  Posts,     \* POST / requests
  Deletes,   \* DELETE /worker/{id} requests
  Ports,     \* TCP ports a worker may listen on
  None,      \* no port, no process, no id
  Main       \* the main goroutine, as a writer of workerMap

ASSUME SpawnerAssumption ==
  /\ None \notin Posts \union Ports
  /\ Main \notin Posts \union Deletes
  /\ Posts \intersect Deletes = {}

VARIABLES
  proc,       \* life of each process: see ProcState
  orphans,    \* processes whose backend has outlived them
  port,       \* the port a backend has logged
  immune,     \* processes that may not be signalled (EPERM: sudo runs as root)
  waited,     \* processes whose Wait has returned (ProcessState is set)
  post,       \* where the handler of each POST is
  peer,       \* the process at the other end of a POST's test connection
  workerMap,  \* the ids stored in workerMap
  writers,    \* goroutines inside a write of workerMap
  del,        \* where the handler of each DELETE is, and its id
  ctx,        \* a SIGINT or SIGTERM has cancelled the global context
  main,       \* where the main goroutine is
  cur,        \* the worker its shutdown loop is at
  todo        \* ids its range over workerMap may still produce

procVars == <<proc, orphans, port, immune, waited>>
mapVars  == <<workerMap, writers>>
mainVars == <<ctx, main, cur, todo>>
vars == <<procVars, post, peer, mapVars, del, mainVars>>

ProcState == {"none", "booting", "listening", "exited", "killed"}
PostState == {"idle", "waiting", "reaping", "dialing", "probing", "storing",
              "ok", "failed", "rejected"}
DelState  == {"idle", "found", "killed", "stopping", "stopped", "missing", "error"}
MainState == {"serving", "looping", "waiting", "reaped", "unlisting",
              "closing", "draining", "exited", "crashed"}

TypeOK ==
  /\ proc \in [Posts -> ProcState]
  /\ orphans \subseteq Posts
  /\ port \in [Posts -> Ports \union {None}]
  /\ immune \subseteq Posts
  /\ waited \subseteq Posts
  /\ post \in [Posts -> PostState]
  /\ peer \in [Posts -> Posts \union {None}]
  /\ workerMap \subseteq Posts
  /\ writers \subseteq Posts \union Deletes \union {Main}
  /\ del \in [Deletes -> [pc : DelState, id : Posts \union {None}]]
  /\ ctx \in BOOLEAN
  /\ main \in MainState
  /\ cur \in Posts \union {None}
  /\ todo \subseteq Posts

Init ==
  /\ proc = [p \in Posts |-> "none"]
  /\ orphans = {}
  /\ port = [p \in Posts |-> None]
  /\ immune \in SUBSET Posts
  /\ waited = {}
  /\ post = [p \in Posts |-> "idle"]
  /\ peer = [p \in Posts |-> None]
  /\ workerMap = {}
  /\ writers = {}
  /\ del = [d \in Deletes |-> [pc |-> "idle", id |-> None]]
  /\ ctx = FALSE
  /\ main = "serving"
  /\ cur = None
  /\ todo = {}

Up == main \notin {"exited", "crashed"}
\* No request begins once the listener is closed.
Accepting == Up /\ main # "draining"

Running(p) == proc[p] \in {"booting", "listening"}
Listening(p) == proc[p] = "listening" \/ (p \in orphans /\ port[p] # None)
InProgress(p) == post[p] \in {"waiting", "reaping", "dialing", "probing"}

\* os.Process.Kill succeeds on a zombie, fails with EPERM on a process of
\* root, and with ErrProcessDone once Wait has returned.
Killable(p) == p \notin immune /\ p \notin waited
Killed(p) ==
  IF Killable(p) /\ Running(p) THEN [proc EXCEPT ![p] = "killed"] ELSE proc
Kill(p) ==
  /\ proc' = Killed(p)
  /\ orphans' \in {orphans, orphans \union {q \in {p} : Killable(q) /\ Running(q)}}

-----------------------------------------------------------------------------
(* The worker processes, and the operating system. *)

\* A backend logs its port when it listens; live listeners have distinct ports,
\* and the port of a dead one may be given out again.
Boot(p) ==
  /\ proc[p] = "booting" \/ (p \in orphans /\ port[p] = None)
  /\ \E n \in Ports :
       /\ \A q \in Posts : Listening(q) => port[q] # n
       /\ port' = [port EXCEPT ![p] = n]
  /\ proc' = [proc EXCEPT ![p] = IF @ = "booting" THEN "listening" ELSE @]
  /\ UNCHANGED <<orphans, immune, waited, post, peer, mapVars, del, mainVars>>

\* By itself: initial_timeout, idle_timeout, exit_timeout, a crash, SIGTERM.
ProcessExit(p) ==
  /\ Running(p)
  /\ proc' = [proc EXCEPT ![p] = "exited"]
  /\ UNCHANGED <<orphans, port, immune, waited, post, peer, mapVars, del, mainVars>>

OrphanExit(p) ==
  /\ p \in orphans
  /\ orphans' = orphans \ {p}
  /\ UNCHANGED <<proc, port, immune, waited, post, peer, mapVars, del, mainVars>>

\* Mutation: exec.Command in place of exec.CommandContext.
ContextKillNever(p) == FALSE /\ UNCHANGED vars

\* The goroutine exec.CommandContext leaves behind kills the process when the
\* context is done.
ContextKill(p) ==
  /\ Up /\ ctx
  /\ Running(p) /\ Killable(p)
  /\ Kill(p)
  /\ UNCHANGED <<port, immune, waited, post, peer, mapVars, del, mainVars>>

Signal ==
  /\ Up /\ ~ctx
  /\ ctx' = TRUE
  /\ UNCHANGED <<procVars, post, peer, mapVars, del, main, cur, todo>>

-----------------------------------------------------------------------------
(* POST /: SpawnWorker, TestWorker, store. *)

\* A body that does not decode (400); or no such user, a bad template, a
\* process that does not start (500).
PostReject(p) ==
  /\ Accepting
  /\ post[p] = "idle"
  /\ post' = [post EXCEPT ![p] = "rejected"]
  /\ UNCHANGED <<procVars, peer, mapVars, del, mainVars>>

\* cmd.Start refuses when the context is already done.
PostStart(p) ==
  /\ Accepting
  /\ post[p] = "idle"
  /\ ~ctx
  /\ post' = [post EXCEPT ![p] = "waiting"]
  /\ proc' = [proc EXCEPT ![p] = "booting"]
  /\ UNCHANGED <<orphans, port, immune, waited, peer, mapVars, del, mainVars>>

\* The port is read from the worker's output, which outlives the worker.
PostReady(p) ==
  /\ Up
  /\ post[p] = "waiting"
  /\ port[p] # None
  /\ post' = [post EXCEPT ![p] = "dialing"]
  /\ UNCHANGED <<procVars, peer, mapVars, del, mainVars>>

\* Mutation: Wait without Kill.
PostTimeoutNoKill(p) ==
  /\ Up
  /\ post[p] = "waiting"
  /\ post' = [post EXCEPT ![p] = "reaping"]
  /\ UNCHANGED <<procVars, peer, mapVars, del, mainVars>>

\* The spawn timeout or the signal: kill, the error of Kill ignored, and Wait.
PostTimeout(p) ==
  /\ Up
  /\ post[p] = "waiting"
  /\ post' = [post EXCEPT ![p] = "reaping"]
  /\ Kill(p)
  /\ UNCHANGED <<port, immune, waited, peer, mapVars, del, mainVars>>

PostReap(p) ==
  /\ Up
  /\ post[p] = "reaping"
  /\ ~Running(p)
  /\ waited' = waited \union {p}
  /\ post' = [post EXCEPT ![p] = "failed"]
  /\ UNCHANGED <<proc, orphans, port, immune, peer, mapVars, del, mainVars>>

\* TestWorker dials the port, whoever listens there by now.
PostDial(p) ==
  /\ Up
  /\ post[p] = "dialing"
  /\ ~ctx
  /\ \E q \in Posts : /\ Listening(q) /\ port[q] = port[p]
                      /\ peer' = [peer EXCEPT ![p] = q]
  /\ post' = [post EXCEPT ![p] = "probing"]
  /\ UNCHANGED <<procVars, mapVars, del, mainVars>>

\* Mutation: the error path returns without killing.
PostTestFailsNoKill(p) ==
  /\ Up
  /\ \/ post[p] = "dialing"
     \/ post[p] = "probing" /\ ~Listening(peer[p])
  /\ post' = [post EXCEPT ![p] = "failed"]
  /\ UNCHANGED <<procVars, peer, mapVars, del, mainVars>>

\* The dial is refused, times out or is cancelled, or the connection is lost
\* before PONG (nothing bounds the wait for it): kill, and no Wait.
PostTestFails(p) ==
  /\ Up
  /\ \/ post[p] = "dialing"
     \/ post[p] = "probing" /\ ~Listening(peer[p])
  /\ post' = [post EXCEPT ![p] = "failed"]
  /\ Kill(p)
  /\ UNCHANGED <<port, immune, waited, peer, mapVars, del, mainVars>>

\* Mutation: the worker is stored under its port.
PostStoreByPort(p) ==
  /\ Up
  /\ post[p] = "probing"
  /\ Listening(peer[p])
  /\ post' = [post EXCEPT ![p] = "storing"]
  /\ workerMap' = workerMap \union {port[p]}
  /\ writers' = writers \union {p}
  /\ UNCHANGED <<procVars, peer, del, mainVars>>

\* PONG: the handler stores the worker.  A range over the map in progress may
\* or may not produce an entry that is added meanwhile.
PostStore(p) ==
  /\ Up
  /\ post[p] = "probing"
  /\ Listening(peer[p])
  /\ post' = [post EXCEPT ![p] = "storing"]
  /\ workerMap' = workerMap \union {p}
  /\ writers' = writers \union {p}
  /\ todo' \in IF main \in {"serving", "closing", "draining"} THEN {todo} ELSE {todo, todo \union {p}}
  /\ UNCHANGED <<procVars, peer, del, ctx, main, cur>>

PostReply(p) ==
  /\ Up
  /\ post[p] = "storing"
  /\ post' = [post EXCEPT ![p] = "ok"]
  /\ writers' = writers \ {p}
  /\ UNCHANGED <<procVars, peer, workerMap, del, mainVars>>

-----------------------------------------------------------------------------
(* DELETE /worker/{id}: kill, then delete. *)

DeleteLookup(d, p) ==
  /\ Accepting
  /\ del[d].pc = "idle"
  /\ del' = [del EXCEPT ![d] = [pc |-> IF p \in workerMap THEN "found" ELSE "missing", id |-> p]]
  /\ UNCHANGED <<procVars, post, peer, mapVars, mainVars>>

\* Mutation: the error of Kill is only logged, as the POST handler does.
DeleteKillIgnoresError(d) ==
  /\ Up
  /\ del[d].pc = "found"
  /\ del' = [del EXCEPT ![d].pc = "killed"]
  /\ Kill(del[d].id)
  /\ UNCHANGED <<port, immune, waited, post, peer, mapVars, mainVars>>

\* Mutation: the handler waits for the worker to exit instead of killing it.
DeleteKillWaits(d) ==
  /\ Up
  /\ del[d].pc = "found" /\ ~Running(del[d].id)
  /\ del' = [del EXCEPT ![d].pc = "killed"]
  /\ UNCHANGED <<procVars, post, peer, mapVars, mainVars>>

DeleteKill(d) ==
  LET p == del[d].id IN
  /\ Up
  /\ del[d].pc = "found"
  /\ del' = [del EXCEPT ![d].pc = IF Killable(p) THEN "killed" ELSE "error"]
  /\ Kill(p)
  /\ UNCHANGED <<port, immune, waited, post, peer, mapVars, mainVars>>

\* Mutation: the entry may be deleted before the kill.
DeleteUnlistFirst(d) ==
  /\ Up
  /\ del[d].pc \in {"found", "killed"}
  /\ del' = [del EXCEPT ![d].pc = "stopping"]
  /\ workerMap' = workerMap \ {del[d].id}
  /\ writers' = writers \union {d}
  /\ UNCHANGED <<procVars, post, peer, mainVars>>

DeleteUnlist(d) ==
  /\ Up
  /\ del[d].pc = "killed"
  /\ del' = [del EXCEPT ![d].pc = "stopping"]
  /\ workerMap' = workerMap \ {del[d].id}
  /\ writers' = writers \union {d}
  /\ UNCHANGED <<procVars, post, peer, mainVars>>

DeleteReply(d) ==
  /\ Up
  /\ del[d].pc = "stopping"
  /\ del' = [del EXCEPT ![d].pc = "stopped"]
  /\ writers' = writers \ {d}
  /\ UNCHANGED <<procVars, post, peer, workerMap, mainVars>>

-----------------------------------------------------------------------------
(* The main goroutine after the signal. *)

LoopStart ==
  /\ main = "serving" /\ ctx
  /\ main' = "looping"
  /\ todo' = workerMap
  /\ UNCHANGED <<procVars, post, peer, mapVars, del, ctx, cur>>

\* SIGTERM reaches the worker: wait for it.
LoopSignal(p) ==
  /\ main = "looping"
  /\ p \in todo \intersect workerMap
  /\ Killable(p)
  /\ main' = "waiting"
  /\ cur' = p
  /\ todo' = todo \ {p}
  /\ UNCHANGED <<procVars, post, peer, mapVars, del, ctx>>

\* Mutation: no continue after a SIGTERM that could not be sent.
LoopSkipWaits(p) ==
  /\ main = "looping"
  /\ p \in todo \intersect workerMap
  /\ ~Killable(p)
  /\ main' = "waiting"
  /\ cur' = p
  /\ todo' = todo \ {p}
  /\ UNCHANGED <<procVars, post, peer, mapVars, del, ctx>>

\* SIGTERM cannot be sent: continue, the entry stays.
LoopSkip(p) ==
  /\ main = "looping"
  /\ p \in todo \intersect workerMap
  /\ ~Killable(p)
  /\ todo' = todo \ {p}
  /\ UNCHANGED <<procVars, post, peer, mapVars, del, ctx, main, cur>>

\* Five seconds have passed.
LoopForceKill ==
  /\ main = "waiting"
  /\ Running(cur)
  /\ Kill(cur)
  /\ UNCHANGED <<port, immune, waited, post, peer, mapVars, del, mainVars>>

LoopReap ==
  /\ main = "waiting"
  /\ ~Running(cur)
  /\ waited' = waited \union {cur}
  /\ main' = "reaped"
  /\ UNCHANGED <<proc, orphans, port, immune, post, peer, mapVars, del, ctx, cur, todo>>

LoopUnlist ==
  /\ main = "reaped"
  /\ main' = "unlisting"
  /\ workerMap' = workerMap \ {cur}
  /\ writers' = writers \union {Main}
  /\ UNCHANGED <<procVars, post, peer, del, ctx, cur, todo>>

LoopNext ==
  /\ main = "unlisting"
  /\ main' = "looping"
  /\ cur' = None
  /\ writers' = writers \ {Main}
  /\ UNCHANGED <<procVars, post, peer, workerMap, del, ctx, todo>>

LoopEnd ==
  /\ main = "looping"
  /\ todo \intersect workerMap = {}
  /\ main' = "closing"
  /\ UNCHANGED <<procVars, post, peer, mapVars, del, ctx, cur, todo>>

\* server.Shutdown closes the listener.
StopListening ==
  /\ main = "closing"
  /\ main' = "draining"
  /\ UNCHANGED <<procVars, post, peer, mapVars, del, ctx, cur, todo>>

\* server.Shutdown returns (handlers done, or five seconds), and main sleeps a
\* second before it returns: long enough for the context's kills.
Exit ==
  /\ main = "draining"
  /\ \A p \in Posts : Running(p) => p \in immune
  /\ main' = "exited"
  /\ UNCHANGED <<procVars, post, peer, mapVars, del, ctx, cur, todo>>

\* ListenAndServe fails: os.Exit(1), with no look at the workers.
ListenError ==
  /\ Accepting
  /\ main' = "crashed"
  /\ UNCHANGED <<procVars, post, peer, mapVars, del, ctx, cur, todo>>

-----------------------------------------------------------------------------
(* The unsynchronised map. *)

\* A goroutine is about to read, iterate over or write workerMap: a request
\* (GET /workers and GET /worker/{id} are not modelled further, as they change
\* nothing), a handler's write, or the shutdown loop.
AboutToAccess ==
  \/ Accepting
  \/ \E p \in Posts : post[p] = "probing" /\ Listening(peer[p])
  \/ \E d \in Deletes : del[d].pc = "killed"
  \/ main \in {"looping", "reaped"}
  \/ main = "serving" /\ ctx

\* The Go runtime may notice an access that overlaps a write, and then ends
\* the program ("fatal error: concurrent map writes"); when it does not, the
\* access takes effect (the actions above).
MapRace ==
  /\ Up
  /\ writers # {}
  /\ AboutToAccess
  /\ main' = "crashed"
  /\ UNCHANGED <<procVars, post, peer, mapVars, del, ctx, cur, todo>>

-----------------------------------------------------------------------------
PostNext(p) ==
  \/ PostReady(p) \/ PostTimeout(p) \/ PostReap(p) \/ PostDial(p)
  \/ PostTestFails(p) \/ PostStore(p) \/ PostReply(p)

DeleteNext(d) == DeleteKill(d) \/ DeleteUnlist(d) \/ DeleteReply(d)

LoopStep ==
  \/ LoopStart \/ LoopForceKill \/ LoopReap \/ LoopUnlist \/ LoopNext \/ LoopEnd
  \/ StopListening \/ Exit
  \/ \E p \in Posts : LoopSignal(p) \/ LoopSkip(p)

Next ==
  \/ \E p \in Posts : \/ Boot(p) \/ ProcessExit(p) \/ OrphanExit(p) \/ ContextKill(p)
                      \/ PostReject(p) \/ PostStart(p) \/ PostNext(p)
  \/ \E d \in Deletes : \/ \E p \in Posts : DeleteLookup(d, p)
                        \/ DeleteNext(d)
  \/ Signal \/ LoopStep \/ ListenError \/ MapRace

Spec == Init /\ [][Next]_vars

\* Every goroutine that can run does, timers fire, a worker that listens
\* answers PING; requests, signals, exits and boots are owed by nobody.
Fairness ==
  /\ \A p \in Posts : WF_vars(PostNext(p)) /\ WF_vars(ContextKill(p))
  /\ \A d \in Deletes : WF_vars(DeleteNext(d))
  /\ WF_vars(LoopStep)

FairSpec == Spec /\ Fairness

-----------------------------------------------------------------------------
(* Safety. *)

\* While the spawner is up, a process it started and may signal is either
\* still looked after by the POST that started it or can be found, and so
\* stopped, through workerMap: no error path of a POST, no DELETE and no
\* shutdown step leaves one running that nobody can reach.
NoStrayWorker ==
  Up => \A p \in Posts : Running(p) /\ p \notin immune => InProgress(p) \/ p \in workerMap

\* "Worker stopped" means that the process the spawner started is over, whatever
\* else was going on and whoever else was stopping the same worker.  It says
\* nothing of a backend that outlives the kill.
StoppedIsOver ==
  \A d \in Deletes : del[d].pc \in {"stopping", "stopped"} => ~Running(del[d].id)

\* processSpawning.go:156, main.go:237: whoever is inside Wait waits for a process
\* that nobody has waited for, and that is over or may be killed there and then;
\* only the POST of a protected worker, which cannot be killed, waits for more.
WaitsEnd ==
  /\ \A p \in Posts : post[p] = "reaping" =>
       p \notin waited /\ (Running(p) => p \in immune)
  /\ main = "waiting" => Killable(cur)

\* What WorkerService says of the worker.
ServiceStatus(p) ==
  CASE post[p] = "idle" -> "unknown"
    [] InProgress(p) -> "requested"
    [] post[p] \in {"failed", "rejected"} -> "refused"
    [] post[p] \in {"storing", "ok"} ->
         IF p \in workerMap THEN "serving" ELSE "retired"

Service == INSTANCE WorkerService WITH
  Workers <- Posts,
  up <- Up,
  running <- {p \in Posts : Running(p)},
  status <- [p \in Posts |-> ServiceStatus(p)],
  protected <- immune

\* The handlers and the shutdown loop keep the promises of WorkerService.
ImplementsService == Service!Spec

-----------------------------------------------------------------------------
(* Liveness, under FairSpec. *)

\* Every worker the signal finds running is stopped, unless it is protected or
\* the spawner dies first.
SignalStopsWorkers ==
  ctx ~> main = "crashed" \/ \A p \in Posts : Running(p) => p \in immune

\* A protected worker never holds up the shutdown.
SignalEndsSpawner == ctx ~> ~Up

\* A POST is answered, unless it waits for a process it may not kill.
PostAnswered ==
  \A p \in Posts : InProgress(p) ~> \/ ~InProgress(p) \/ ~Up
                                    \/ post[p] = "reaping" /\ p \in immune

\* A DELETE is answered, also one that meets the shutdown loop.
DeleteAnswered ==
  \A d \in Deletes : del[d].pc \in {"found", "killed", "stopping"} ~>
                       del[d].pc \in {"stopped", "error"} \/ ~Up

-----------------------------------------------------------------------------
(* What the comment at main.go:228 says. *)

\* After the signal no worker is killed that SIGTERM has not been sent to
\* first, and that has not had its five seconds.
GracefulFirst ==
  [][\A p \in workerMap : ctx /\ Running(p) /\ proc'[p] = "killed" => cur = p]_vars
=============================================================================
