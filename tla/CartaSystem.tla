---------------------------- MODULE CartaSystem ----------------------------
(***************************************************************************)
(* A session of carta-ctl on a spawner that it shares with others.         *)
(* Session takes the spawner for an environment that may do this and that; *)
(* here its requests are served by Spawner, next to the POSTs and DELETEs  *)
(* of other sessions, so that a worker has one life: started by the       *)
(* handler of a POST, probed, listed, dialled by the session on the port   *)
(* it was given, and stopped by a DELETE or the spawner's own shutdown.    *)
(* running and alive, variables of Session, are none here: they are what   *)
(* Spawner says of the processes and of the backends.                      *)
(***************************************************************************)
EXTENDS Spawner

CONSTANTS
  Msgs, Replies, Files, Kind, File, Cap, Client,  \* of Session
  Leave                                           \* the DELETE of its HandleDisconnect

VARIABLES
  up, reading, pc, dest, from, ack, info, shared, mapMade, fileMap, fileWriters, target,
  sendChan, buf, hand, closed, sink, drains, conn, remote, got, pong,  \* of Session
  lost                                       \* the network has lost Leave or its answer

\* The workers whose process runs, and those whose backend runs: it holds the
\* port and the websocket, and may outlive its process.
Started == {p \in Posts : Running(p)}
Backends == {p \in Posts : Running(p) \/ p \in orphans}

S == INSTANCE Session WITH
       running <- Started \intersect Msgs, alive <- Backends \intersect Msgs,
       Others <- Posts \ Msgs, writers <- fileWriters, Nil <- None

ASSUME SystemAssumption ==
  /\ Msgs \subseteq Posts
  /\ Leave \in Deletes
  /\ S!SessionAssumption

spawnerVars ==
  <<proc, orphans, port, immune, waited, post, peer, workerMap, writers, del, ctx, main, cur, todo>>
quietVars ==
  <<up, dest, from, ack, info, shared, mapMade, fileMap, fileWriters, target, sendChan, buf, hand,
    closed, sink, drains, remote, got, pong>>
sessionVars == <<quietVars, reading, pc, conn>>
systemVars == <<sessionVars, spawnerVars, lost>>

SystemInit == Init /\ S!Init /\ lost = FALSE

-----------------------------------------------------------------------------
(* The session: its own steps, its requests, and their answers. *)

\* RequestWorkerStartup returns a worker only when the spawner has answered
\* 200; an exchange may fail at any time.
SessionStep ==
  /\ UNCHANGED <<spawnerVars, lost>>
  /\ S!Acts
  /\ \A m \in Msgs : pc[m] = "started" /\ pc'[m] = "dialing" => post[m] = "ok"
  /\ \A m \in Msgs : pc[m] = "dialing" => pc'[m] # "ready"
  /\ reading = "deleting" => reading' = reading

\* The handler dials the port in the answer, and who listens there takes it.
DialPort(m) ==
  /\ UNCHANGED <<spawnerVars, lost>>
  /\ S!Connect(m, {w \in Posts : Listening(w) /\ port[w] = port[m]})

\* The POST arrives, and the handler of the spawner starts the worker.
StartWorker(m) ==
  /\ PostStart(m)
  /\ S!Step(m, "starting", "started")
  /\ UNCHANGED <<quietVars, reading, conn, lost>>

RejectStart(m) ==
  /\ pc[m] = "starting"
  /\ PostReject(m)
  /\ UNCHANGED <<sessionVars, lost>>

RequestShutdown ==
  /\ up
  /\ reading = "deleting"
  /\ DeleteLookup(Leave, target)
  /\ UNCHANGED <<sessionVars, lost>>

\* RequestWorkerShutdown returns, and wsHandler closes the client's connection.
ShutdownReturns(there) ==
  /\ up
  /\ reading = "deleting"
  /\ reading' = there
  /\ conn' = [conn EXCEPT ![Client] = "closed"]
  /\ UNCHANGED <<quietVars, pc, spawnerVars>>

\* 200, an error status, or nobody to connect to.
ShutdownAnswered ==
  /\ \/ del[Leave].pc = "stopped" /\ ShutdownReturns("done")
     \/ del[Leave].pc \in {"missing", "error"} /\ ShutdownReturns("undeleted")
     \/ del[Leave].pc = "idle" /\ ~Accepting /\ ShutdownReturns("undeleted")
     \/ ~Up /\ ShutdownReturns("undeleted")
  /\ UNCHANGED lost

ShutdownLost == lost' = TRUE /\ ShutdownReturns("undeleted")

-----------------------------------------------------------------------------
(* The spawner, the processes, and the requests of others. *)

\* The connections to a backend end with it.
Hangup == S!HangUp(Backends \ Backends')

BySpawner(A) == A /\ Hangup /\ UNCHANGED <<quietVars, reading, pc, lost>>

SpawnerStep ==
  \/ \E p \in Posts : \/ Boot(p) \/ ProcessExit(p) \/ OrphanExit(p) \/ ContextKill(p) \/ PostNext(p)
                      \/ p \notin Msgs /\ (PostReject(p) \/ PostStart(p))
  \/ \E d \in Deletes : \/ DeleteNext(d)
                        \/ d # Leave /\ \E p \in Posts : DeleteLookup(d, p)
  \/ Signal \/ LoopStep \/ ListenError \/ MapRace

-----------------------------------------------------------------------------
SystemNext ==
  \/ SessionStep
  \/ \E m \in Msgs : StartWorker(m) \/ RejectStart(m) \/ DialPort(m)
  \/ RequestShutdown \/ ShutdownAnswered \/ ShutdownLost
  \/ BySpawner(SpawnerStep)

SystemSpec == SystemInit /\ [][SystemNext]_systemVars

\* The goroutine of wsHandler runs, the spawner accepts a request and runs its
\* handler, and os/exec kills what the signal found running.
SystemFairness ==
  /\ WF_systemVars(SessionStep /\ S!Disconnect)
  /\ WF_systemVars(RequestShutdown)
  /\ WF_systemVars(ShutdownAnswered)
  /\ WF_systemVars(BySpawner(DeleteNext(Leave)))
  /\ \A m \in Msgs : WF_systemVars(BySpawner(ContextKill(m)))

FairSystemSpec == SystemSpec /\ SystemFairness

-----------------------------------------------------------------------------
\* All that Session assumes of the spawner is what the spawner does, whoever else
\* uses it: the workers its handlers, processes and shutdown make and end are those
\* of Session, who listens on the port in an answer is the worker that was started
\* unless that worker is over (openFile.go:27), and a DELETE that succeeds has ended
\* its worker's process.
ImplementsSession == S!Spec

\* session.go:118: while the process of a worker whose id the session keeps is
\* running, the spawner has it in workerMap, and a DELETE finds it.
HeldIsListed == info \in Started /\ Up => info \in workerMap

\* session.go:118: once HandleDisconnect has its answer, 200, the process of the
\* worker it asked for is over, whoever else stopped it or tried to meanwhile.  The
\* backend below a killed sudo may not be.
DoneIsOver == reading = "done" /\ target # None => target \notin Started

\* When the client leaves, the process of its registered worker ends, also while
\* the spawner is shutting down or others stop the worker, unless it may not be
\* signalled, the network fails or one of the services crashes.
LeavingEndsWorker ==
  \A w \in Msgs : reading = "closing" /\ info = w ~>
    w \notin Started \/ w \in immune \/ info # w \/ lost \/ ~up \/ main = "crashed"
=============================================================================
