------------------------- MODULE CartaSystemProofs -------------------------
(***************************************************************************)
(* Proofs about CartaSystem: what Session assumes of the spawner is what   *)
(* the spawner does, for any number of messages, workers, POSTs and        *)
(* DELETEs.                                                                *)
(***************************************************************************)
EXTENDS CartaSystem, SpawnerProofs

\* An entry of workerMap outlives its process.
ListInv == Up => \A p \in Posts : post[p] \in Stored /\ Running(p) => p \in workerMap

\* The kept id, and what a handler dials, is one the spawner has answered with, and
\* the DELETE is made once, for the id that was kept when it was made.
LinkInv ==
  /\ pc \in [S!Goroutines -> S!Pc]
  /\ conn \in [S!Conns -> {"none", "open", "closed"}]
  /\ \A m \in Msgs : pc[m] = "dialing" => post[m] = "ok"
  /\ info # None => info \in Msgs /\ post[info] = "ok"
  /\ reading \in {"stopping", "asking"} => info # None
  /\ reading = "deleting" => target \in Msgs
  /\ Client \in pong => reading = "reading"
  /\ del[Leave].pc # "idle" => reading \in {"deleting", "done", "undeleted"}
  /\ reading = "deleting" /\ del[Leave].pc # "idle" => del[Leave].id = target

SystemInv == IInv /\ PortInv /\ ListInv /\ LinkInv

\* Of no process and no message.
LEMMA NoneFacts ==
  /\ None \notin Posts /\ None \notin Msgs /\ Msgs \subseteq Posts /\ Leave \in Deletes
  /\ Client # None /\ Client \notin Msgs
  BY SpawnerAssumption, SystemAssumption DEF S!SessionAssumption, S!Goroutines

\* What the spawner sees of the system is Spawner.
LEMMA SpawnerSees == LinkInv /\ [SystemNext]_systemVars => [Next]_vars
<1> SUFFICES ASSUME LinkInv, [SystemNext]_systemVars PROVE [Next]_vars
  OBVIOUS
<1>1. CASE UNCHANGED spawnerVars
  BY <1>1 DEF spawnerVars, vars, procVars, mapVars, mainVars
<1>2. CASE \E m \in Msgs : StartWorker(m) \/ RejectStart(m)
  BY <1>2, NoneFacts DEF StartWorker, RejectStart, Next
<1>3. CASE RequestShutdown
  <2>1. DeleteLookup(Leave, target) /\ target \in Posts
    BY <1>3, NoneFacts DEF RequestShutdown, LinkInv
  <2> QED
    BY <2>1, NoneFacts DEF Next
<1>4. CASE BySpawner(SpawnerStep)
  BY <1>4 DEF BySpawner, SpawnerStep, Next
<1> QED
  BY <1>1, <1>2, <1>3, <1>4 DEF SystemNext, SessionStep, DialPort, ShutdownAnswered,
     ShutdownLost, ShutdownReturns, systemVars

-----------------------------------------------------------------------------
(* The spawner's part. *)

\* What one step may do to a POST, its process and its entry.
LEMMA OneStep ==
  ASSUME IInv, TypeOK', [Next]_vars, NEW p \in Posts
  PROVE  /\ post'[p] \in Stored => (post[p] \in Stored \/ p \in workerMap')
         /\ post[p] = "ok" => post'[p] = "ok"
         /\ post[p] \in Stored => post'[p] \in Stored
         /\ Running(p)' /\ ~Running(p) => post[p] = "idle" /\ PostStart(p)
         /\ p \in workerMap /\ p \notin workerMap' => ~Running(p) /\ ~Running(p)'
         /\ Up' => Up
<1> USE DEF Stored
<1>k. TypeOK /\ PostInv /\ DelInv /\ LoopInv
  BY DEF IInv
<1> DEFINE Goal == /\ post'[p] \in Stored => (post[p] \in Stored \/ p \in workerMap')
                   /\ post[p] = "ok" => post'[p] = "ok"
                   /\ post[p] \in Stored => post'[p] \in Stored
                   /\ Running(p)' /\ ~Running(p) => post[p] = "idle" /\ PostStart(p)
                   /\ p \in workerMap /\ p \notin workerMap' => ~Running(p) /\ ~Running(p)'
                   /\ Up' => Up
<1>1. CASE UNCHANGED <<proc, post, workerMap>> /\ (Up' => Up)
  BY <1>1 DEF Running
<1>2. CASE UNCHANGED <<post, workerMap, main>> /\ (Running(p)' => Running(p))
  BY <1>2 DEF Up
<1>3. ASSUME NEW q \in Posts,
             \/ Boot(q) \/ ProcessExit(q) \/ OrphanExit(q) \/ ContextKill(q)
      PROVE  Goal
  <2>1. UNCHANGED <<post, workerMap, main>>
    BY <1>3 DEF Boot, ProcessExit, OrphanExit, ContextKill, mapVars, mainVars
  <2>2. Running(p)' => Running(p)
    BY <1>3, KilledProc, <1>k DEF Boot, ProcessExit, OrphanExit, ContextKill, Kill, Running, TypeOK
  <2> QED
    BY <1>2, <2>1, <2>2
<1>4. ASSUME NEW q \in Posts, PostStart(q) PROVE Goal
  BY <1>4, <1>k DEF PostStart, Running, TypeOK, Up, mapVars, mainVars
<1>5. ASSUME NEW q \in Posts,
             \/ PostReject(q) \/ PostReady(q) \/ PostReap(q) \/ PostDial(q) \/ PostReply(q)
      PROVE  Goal
  <2>1. UNCHANGED <<proc, workerMap, main>> /\ \A r \in Posts : r # q => post'[r] = post[r]
    BY <1>5, <1>k DEF PostReject, PostReady, PostReap, PostDial, PostReply, TypeOK, procVars,
         mapVars, mainVars
  <2>2. \/ post[q] \notin Stored /\ post'[q] \notin Stored
        \/ post[q] = "storing" /\ post'[q] = "ok"
    BY <1>5, <1>k DEF PostReject, PostReady, PostReap, PostDial, PostReply, TypeOK
  <2> QED
    BY <2>1, <2>2 DEF Running, Up
<1>6. ASSUME NEW q \in Posts, PostTimeout(q) \/ PostTestFails(q) PROVE Goal
  <2>1. UNCHANGED <<workerMap, main>> /\ \A r \in Posts : r # q => post'[r] = post[r]
    BY <1>6, <1>k DEF PostTimeout, PostTestFails, TypeOK, procVars, mapVars, mainVars
  <2>2. post[q] \notin Stored /\ post'[q] \notin Stored
    BY <1>6, <1>k DEF PostTimeout, PostTestFails, TypeOK
  <2>3. Running(p)' => Running(p)
    BY <1>6, KilledProc, <1>k DEF PostTimeout, PostTestFails, Kill, Running, TypeOK
  <2> QED
    BY <2>1, <2>2, <2>3 DEF Up
<1>7. ASSUME NEW q \in Posts, PostStore(q) PROVE Goal
  BY <1>7, <1>k DEF PostStore, Running, TypeOK, Up, procVars
<1>8. ASSUME NEW d \in Deletes, (\E q \in Posts : DeleteLookup(d, q)) \/ DeleteReply(d) PROVE Goal
  BY <1>8, <1>1 DEF DeleteLookup, DeleteReply, procVars, mapVars, mainVars, Up
<1>9. ASSUME NEW d \in Deletes, DeleteKill(d) PROVE Goal
  <2>1. UNCHANGED <<post, workerMap, main>> /\ proc' = Killed(del[d].id)
    BY <1>9 DEF DeleteKill, Kill, mapVars, mainVars
  <2>2. Running(p)' => Running(p)
    BY <2>1, KilledProc, <1>k DEF Running, TypeOK
  <2> QED
    BY <1>2, <2>1, <2>2
<1>10. ASSUME NEW d \in Deletes, DeleteUnlist(d) PROVE Goal
  BY <1>10, <1>k DEF DeleteUnlist, DelInv, Running, Up, procVars, mainVars
<1>11. CASE LoopUnlist
  BY <1>11, <1>k DEF LoopUnlist, LoopInv, Running, Up, procVars
<1>12. CASE LoopForceKill
  <2>1. UNCHANGED <<post, workerMap, main>> /\ proc' = Killed(cur)
    BY <1>12 DEF LoopForceKill, Kill, mapVars, mainVars
  <2>2. Running(p)' => Running(p)
    BY <2>1, KilledProc, <1>k DEF Running, TypeOK
  <2> QED
    BY <1>2, <2>1, <2>2
<1>13. CASE \/ LoopStart \/ LoopReap \/ LoopNext \/ LoopEnd \/ StopListening \/ Exit
            \/ Signal \/ ListenError \/ MapRace
  BY <1>13, <1>1 DEF LoopStart, LoopReap, LoopNext, LoopEnd, StopListening, Exit, Signal, ListenError, MapRace,
     procVars, mapVars, mainVars, Up, Accepting
<1>14. ASSUME NEW q \in Posts, LoopSignal(q) \/ LoopSkip(q) PROVE Goal
  BY <1>14, <1>1 DEF LoopSignal, LoopSkip, procVars, mapVars, mainVars, Up
<1>15. CASE UNCHANGED vars
  BY <1>15, <1>1 DEF vars, procVars, mapVars, mainVars, Up
<1> QED
  BY <1>3, <1>4, <1>5, <1>6, <1>7, <1>8, <1>9, <1>10, <1>11, <1>12, <1>13, <1>14, <1>15
     DEF Next, PostNext, DeleteNext, LoopStep

\* An entry is deleted only when its process is over.
LEMMA ListStep == SystemInv /\ TypeOK' /\ [Next]_vars => ListInv'
<1> SUFFICES ASSUME SystemInv, TypeOK', [Next]_vars, Up',
                    NEW p \in Posts, post'[p] \in Stored, Running(p)'
             PROVE  p \in workerMap'
  BY DEF ListInv
<1>1. CASE post[p] \notin Stored
  BY <1>1, OneStep DEF SystemInv
<1>2. CASE post[p] \in Stored
  <2>1. Running(p) /\ Up
    BY <1>2, OneStep DEF SystemInv, Stored
  <2>2. p \in workerMap
    BY <1>2, <2>1 DEF SystemInv, ListInv
  <2> QED
    BY <2>2, OneStep DEF SystemInv
<1> QED
  BY <1>1, <1>2

-----------------------------------------------------------------------------
(* The session's part. *)

\* What one step of Session may do to the fields that LinkInv speaks of.
LEMMA SessionMoves ==
  ASSUME LinkInv, S!Acts
  PROVE  /\ pc' \in [S!Goroutines -> S!Pc]
         /\ conn' \in [S!Conns -> {"none", "open", "closed"}]
         /\ \/ info' = info
            \/ \E m \in Msgs : info' = m /\ pc[m] = "started" /\ pc'[m] = "dialing"
         /\ Client \in pong' => reading' = "reading"
         /\ \/ reading' = reading /\ target' = target
            \/ reading' \in {"closing", "checking", "done", "undeleted"}
            \/ reading = "checking" /\ reading' = "stopping" /\ info # None
            \/ reading = "stopping" /\ reading' = "asking"
            \/ reading = "asking" /\ reading' = "deleting" /\ target' = info
         /\ reading \in {"deleting", "done", "undeleted"} =>
              reading' \in {"deleting", "done", "undeleted"}
<1> DEFINE Goal ==
  /\ pc' \in [S!Goroutines -> S!Pc]
  /\ conn' \in [S!Conns -> {"none", "open", "closed"}]
  /\ \/ info' = info
     \/ \E m \in Msgs : info' = m /\ pc[m] = "started" /\ pc'[m] = "dialing"
  /\ Client \in pong' => reading' = "reading"
  /\ \/ reading' = reading /\ target' = target
     \/ reading' \in {"closing", "checking", "done", "undeleted"}
     \/ reading = "checking" /\ reading' = "stopping" /\ info # None
     \/ reading = "stopping" /\ reading' = "asking"
     \/ reading = "asking" /\ reading' = "deleting" /\ target' = info
  /\ reading \in {"deleting", "done", "undeleted"} =>
       reading' \in {"deleting", "done", "undeleted"}
<1> USE DEF S!sessVars, S!chanVars, S!connVars, S!goVars, LinkInv
<1>1. ASSUME UNCHANGED <<reading, info, target, pong, conn>>, pc' \in [S!Goroutines -> S!Pc]
      PROVE  Goal
  BY <1>1
<1>2. ASSUME NEW m \in Msgs,
             \/ S!Receive(m) \/ S!Parse(m) \/ S!SpawnerStarts(m) \/ S!StartFails(m)
             \/ S!DialFails(m) \/ S!MakeChan(m) \/ S!StartSender(m) \/ S!MakeMap(m) \/ S!PutBegin(m)
      PROVE  Goal
  BY <1>1, <1>2 DEF S!Receive, S!Parse, S!SpawnerStarts, S!StartFails, S!DialFails,
     S!MakeChan, S!StartSender, S!Initialised, S!MakeMap, S!PutBegin, S!Step, S!Pc
<1>3. ASSUME NEW m \in Msgs,
             \/ S!PutEnd(m) \/ S!SendRegister(m) \/ S!Proxy(m) \/ S!QueryStatus(m) \/ S!MapRace(m)
      PROVE  Goal
  BY <1>1, <1>3 DEF S!PutEnd, S!SendRegister, S!Proxy, S!QueryStatus, S!MapRace, S!Crash,
     S!Step, S!Pc
<1>4. ASSUME NEW m \in Msgs, S!StartAnswered(m) PROVE Goal
  BY <1>4 DEF S!StartAnswered, S!Step, S!Pc, S!Goroutines
<1>5. ASSUME NEW m \in Msgs, S!Dial(m) PROVE Goal
  BY <1>5 DEF S!Dial, S!Connect, S!Step, S!Pc
<1>6. ASSUME NEW r \in Replies, S!Answer(r) \/ (\E w \in Msgs : S!WorkerSends(r, w)) PROVE Goal
  BY <1>1, <1>6 DEF S!Answer, S!WorkerSends, S!Step, S!Pc
<1>7. ASSUME NEW a \in S!Goroutines, S!SendStep(a) PROVE Goal
  BY <1>1, <1>7 DEF S!SendStep, S!Send, S!SendPanics, S!Crash, S!Step, S!Pc
<1>8. ASSUME NEW s \in S!Senders, S!Take(s) \/ S!Write(s) PROVE Goal
  BY <1>1, <1>8 DEF S!Take, S!Write
<1>9. ASSUME NEW k \in S!Conns,
             S!PongBegin(k) \/ S!PongEnd(k) \/ S!WritePanics(k) \/ S!ReadPanics(k)
      PROVE  Goal
  BY <1>9 DEF S!PongBegin, S!PongEnd, S!WritePanics, S!ReadPanics, S!Crash, S!Listens
<1>11. CASE S!ClientLeaves \/ S!PongPanics
  BY <1>11 DEF S!ClientLeaves, S!PongPanics, S!Listens
<1>12. CASE S!CloseClientChan \/ S!Check \/ S!CloseShared
  BY <1>12 DEF S!CloseClientChan, S!Check, S!CloseShared
<1>13. CASE S!AskShutdown \/ S!DeleteWorker
  BY <1>13 DEF S!AskShutdown, S!DeleteWorker
<1> QED
  BY <1>2, <1>3, <1>4, <1>5, <1>6, <1>7, <1>8, <1>9, <1>11, <1>12, <1>13
     DEF S!Acts, S!HandlerStep, S!Disconnect, S!Senders

\* What one step of Session may do to a dial and the target.
LEMMA SessionDials ==
  ASSUME LinkInv, S!Acts
  PROVE  /\ \A m \in Msgs : pc'[m] = "dialing" => pc[m] \in {"started", "dialing"}
         /\ target' = target \/ (reading = "asking" /\ reading' = "deleting")
         /\ reading' = "done" => reading \in {"checking", "deleting", "done"}
         /\ reading' \in {"reading", "closing", "checking", "stopping", "asking"} =>
              reading \in {"reading", "closing", "checking", "stopping", "asking"}
<1> DEFINE Goal ==
  /\ \A m \in Msgs : pc'[m] = "dialing" => pc[m] \in {"started", "dialing"}
  /\ target' = target \/ (reading = "asking" /\ reading' = "deleting")
  /\ reading' = "done" => reading \in {"checking", "deleting", "done"}
  /\ reading' \in {"reading", "closing", "checking", "stopping", "asking"} =>
       reading \in {"reading", "closing", "checking", "stopping", "asking"}
<1> USE NoneFacts DEF S!sessVars, S!chanVars, S!connVars, S!goVars
<1>t. /\ pc \in [S!Goroutines -> S!Pc] /\ Msgs \subseteq S!Goroutines
  BY DEF LinkInv, S!Goroutines
<1>1. ASSUME UNCHANGED <<reading, target>>,
             \A m \in Msgs : pc'[m] = "dialing" => pc[m] \in {"started", "dialing"}
      PROVE  Goal
  BY <1>1
<1>pc. ASSUME UNCHANGED <<reading, target>>, NEW a, NEW here, NEW there,
              S!Step(a, here, there), there = "dialing" => here = "started"
       PROVE  Goal
  BY <1>pc, <1>1, <1>t DEF S!Step
<1>2. ASSUME NEW m \in Msgs,
             \/ S!Receive(m) \/ S!Parse(m) \/ S!SpawnerStarts(m) \/ S!StartFails(m)
             \/ S!DialFails(m) \/ S!MakeChan(m) \/ S!StartSender(m) \/ S!MakeMap(m) \/ S!PutBegin(m)
      PROVE  Goal
  BY <1>1, <1>2, <1>t DEF S!Receive, S!Parse, S!SpawnerStarts, S!StartFails, S!DialFails,
     S!MakeChan, S!StartSender, S!Initialised, S!MakeMap, S!PutBegin, S!Step
<1>3. ASSUME NEW m \in Msgs,
             \/ S!PutEnd(m) \/ S!SendRegister(m) \/ S!Proxy(m) \/ S!QueryStatus(m) \/ S!MapRace(m)
             \/ S!StartAnswered(m)
      PROVE  Goal
  BY <1>1, <1>3, <1>t DEF S!PutEnd, S!SendRegister, S!Proxy, S!QueryStatus, S!MapRace, S!Crash,
     S!StartAnswered, S!Step
<1>5. ASSUME NEW m \in Msgs, S!Dial(m) PROVE Goal
  BY <1>5, <1>t DEF S!Dial, S!Connect, S!Step
<1>6. ASSUME NEW r \in Replies, S!Answer(r) \/ (\E w \in Msgs : S!WorkerSends(r, w)) PROVE Goal
  <2>1. UNCHANGED <<reading, target>> /\ \A m \in Msgs : pc'[m] = "dialing" => pc[m] = "dialing"
    BY <1>6, <1>t DEF S!Answer, S!WorkerSends, S!Step
  <2> QED
    BY <2>1, <1>1
<1>7. ASSUME NEW a \in S!Goroutines, S!SendStep(a) PROVE Goal
  BY <1>1, <1>7, <1>t DEF S!SendStep, S!Send, S!SendPanics, S!Crash, S!Step
<1>8. ASSUME NEW s \in S!Senders, S!Take(s) \/ S!Write(s) PROVE Goal
  BY <1>1, <1>8 DEF S!Take, S!Write
<1>9. ASSUME NEW k \in S!Conns,
             S!PongBegin(k) \/ S!PongEnd(k) \/ S!WritePanics(k) \/ S!ReadPanics(k)
      PROVE  Goal
  BY <1>1, <1>9 DEF S!PongBegin, S!PongEnd, S!WritePanics, S!ReadPanics, S!Crash
<1>11. CASE S!ClientLeaves \/ S!PongPanics
  BY <1>11, <1>t DEF S!ClientLeaves, S!PongPanics, S!Listens, LinkInv
<1>12. CASE S!CloseClientChan \/ S!Check \/ S!CloseShared
  BY <1>12, <1>t DEF S!CloseClientChan, S!Check, S!CloseShared
<1>13. CASE S!AskShutdown \/ S!DeleteWorker
  BY <1>13, <1>t DEF S!AskShutdown, S!DeleteWorker
<1> QED
  BY <1>2, <1>3, <1>5, <1>6, <1>7, <1>8, <1>9, <1>11, <1>12, <1>13
     DEF S!Acts, S!HandlerStep, S!Disconnect, S!Senders

\* The DELETE of the session is touched by its own steps only.
LEMMA LeaveSame ==
  ASSUME TypeOK, BySpawner(SpawnerStep)
  PROVE  /\ del[Leave].pc = "idle" => del'[Leave].pc = "idle"
         /\ del'[Leave].id = del[Leave].id
<1>1. ASSUME NEW d \in Deletes, DeleteNext(d)
      PROVE  /\ del[Leave].pc = "idle" => del'[Leave].pc = "idle"
             /\ del'[Leave].id = del[Leave].id
  BY <1>1, NoneFacts
     DEF DeleteNext, DeleteKill, DeleteUnlist, DeleteReply, TypeOK, DelState
<1>2. ASSUME NEW d \in Deletes \ {Leave}, NEW p \in Posts, DeleteLookup(d, p)
      PROVE  del'[Leave] = del[Leave]
  BY <1>2, NoneFacts DEF DeleteLookup, TypeOK
<1>3. ASSUME NEW p \in Posts,
             \/ Boot(p) \/ ProcessExit(p) \/ OrphanExit(p) \/ ContextKill(p) \/ PostNext(p)
             \/ PostReject(p) \/ PostStart(p)
      PROVE  del' = del
  BY <1>3 DEF Boot, ProcessExit, OrphanExit, ContextKill, PostNext, PostReject, PostStart, PostReady,
     PostTimeout, PostReap, PostDial, PostTestFails, PostStore, PostReply
<1>4. CASE Signal \/ LoopStep \/ ListenError \/ MapRace
  <2>1. del' = del
    BY <1>4 DEF Signal, ListenError, MapRace, LoopStep, LoopStart, LoopForceKill, LoopReap,
       LoopUnlist, LoopNext, LoopEnd, StopListening, Exit, LoopSignal, LoopSkip
  <2> QED
    BY <2>1
<1> QED
  BY <1>1, <1>2, <1>3, <1>4 DEF BySpawner, SpawnerStep

\* The connections keep their type when the processes at their ends end.
LEMMA HangupTyped ==
  ASSUME LinkInv, Hangup
  PROVE  conn' \in [S!Conns -> {"none", "open", "closed"}]
  BY DEF LinkInv, Hangup, S!HangUp

\* What ties the session to the spawner is preserved by every step.
LEMMA LinkStep == SystemInv /\ TypeOK' /\ [SystemNext]_systemVars => LinkInv'
<1> SUFFICES ASSUME SystemInv, TypeOK', [SystemNext]_systemVars PROVE LinkInv'
  OBVIOUS
<1>k. IInv /\ TypeOK /\ LinkInv
  BY DEF SystemInv, IInv
<1>ok. \A p \in Posts : post[p] = "ok" => post'[p] = "ok"
  BY <1>k, SpawnerSees, OneStep
<1>info. info # None => info \in Posts
  BY <1>k, NoneFacts DEF LinkInv
<1>dial. ASSUME \A m \in Msgs : pc'[m] = "dialing" => pc[m] = "dialing"
         PROVE  \A m \in Msgs : pc'[m] = "dialing" => post'[m] = "ok"
  BY <1>dial, <1>ok, <1>k, NoneFacts DEF LinkInv
<1>1. CASE SessionStep
  <2>1. S!Acts /\ UNCHANGED <<post, del>>
    BY <1>1 DEF SessionStep, spawnerVars
  <2>d. \A m \in Msgs : pc'[m] = "dialing" => post'[m] = "ok"
    <3> SUFFICES ASSUME NEW m \in Msgs, pc'[m] = "dialing" PROVE post[m] = "ok"
      BY <2>1
    <3>1. CASE pc[m] = "dialing"
      BY <3>1, <1>k DEF LinkInv
    <3>2. CASE pc[m] = "started"
      BY <1>1, <3>2 DEF SessionStep
    <3> QED
      BY <2>1, <3>1, <3>2, <1>k, SessionDials
  <2>2. /\ pc' \in [S!Goroutines -> S!Pc]
        /\ conn' \in [S!Conns -> {"none", "open", "closed"}]
        /\ Client \in pong' => reading' = "reading"
    BY <2>1, <1>k, SessionMoves
  <2>3. info' # None => info' \in Msgs /\ post'[info'] = "ok"
    <3>1. info' = info \/ \E m \in Msgs : info' = m /\ pc[m] = "started" /\ pc'[m] = "dialing"
      BY <2>1, <1>k, SessionMoves
    <3>2. CASE info' = info
      BY <3>2, <2>1, <1>k DEF LinkInv
    <3>3. ASSUME NEW m \in Msgs, info' = m, pc[m] = "started", pc'[m] = "dialing"
          PROVE  info' \in Msgs /\ post'[info'] = "ok"
      BY <3>3, <2>1, <1>1 DEF SessionStep
    <3> QED
      BY <3>1, <3>2, <3>3
  <2>4. info # None => info' # None
    BY <2>1, <1>k, SessionMoves, NoneFacts
  <2>5. /\ reading' \in {"stopping", "asking"} => info' # None
        /\ reading' = "deleting" => target' \in Msgs
    BY <2>1, <2>4, <1>k, SessionMoves DEF LinkInv
  <2>6. del[Leave].pc # "idle" =>
          reading' \in {"deleting", "done", "undeleted"} /\ (reading' = "deleting" => target' = target)
    BY <2>1, <1>k, SessionMoves DEF LinkInv
  <2>7. del[Leave].pc # "idle" /\ reading' = "deleting" => reading = "deleting"
    BY <2>1, <1>k, SessionMoves DEF LinkInv
  <2>8. /\ del'[Leave].pc # "idle" => reading' \in {"deleting", "done", "undeleted"}
        /\ reading' = "deleting" /\ del'[Leave].pc # "idle" => del'[Leave].id = target'
    BY <2>1, <2>6, <2>7, <1>k DEF LinkInv
  <2> QED
    BY <2>2, <2>d, <2>3, <2>5, <2>8 DEF LinkInv
<1>2. ASSUME NEW m \in Msgs, StartWorker(m) \/ RejectStart(m) PROVE LinkInv'
  <2>1. /\ UNCHANGED <<reading, conn, info, target, pong, del>>
        /\ pc' = pc \/ S!Step(m, "starting", "started")
    BY <1>2 DEF StartWorker, RejectStart, PostStart, PostReject, sessionVars, quietVars
  <2>2. /\ pc' \in [S!Goroutines -> S!Pc]
        /\ \A n \in Msgs : pc'[n] = "dialing" => pc[n] = "dialing"
    BY <2>1, <1>k DEF LinkInv, S!Step, S!Pc, S!Goroutines
  <2> QED
    BY <2>1, <2>2, <1>k, <1>ok, <1>info, <1>dial DEF LinkInv
<1>2a. ASSUME NEW m \in Msgs, DialPort(m) PROVE LinkInv'
  <2>1. /\ UNCHANGED <<reading, info, target, pong, del, post>>
        /\ S!Step(m, "dialing", "ready") /\ conn' = [conn EXCEPT ![m] = "open"]
    BY <1>2a DEF DialPort, S!Connect, spawnerVars
  <2>2. /\ pc' \in [S!Goroutines -> S!Pc]
        /\ conn' \in [S!Conns -> {"none", "open", "closed"}]
        /\ \A n \in Msgs : pc'[n] = "dialing" => pc[n] = "dialing"
    BY <2>1, <1>k DEF LinkInv, S!Step, S!Pc, S!Goroutines
  <2> QED
    BY <2>1, <2>2, <1>k, <1>info, <1>dial DEF LinkInv
<1>3. CASE RequestShutdown
  <2>1. UNCHANGED <<reading, conn, info, target, pong, pc>> /\ reading = "deleting"
    BY <1>3 DEF RequestShutdown, sessionVars, quietVars
  <2>2. del'[Leave].id = target
    BY <1>3, <1>k, NoneFacts DEF RequestShutdown, DeleteLookup, TypeOK
  <2> QED
    BY <2>1, <2>2, <1>k, <1>ok, <1>info, <1>dial DEF LinkInv
<1>4. CASE ShutdownAnswered \/ ShutdownLost
  <2>1. /\ UNCHANGED <<info, target, pong, pc, del>> /\ reading = "deleting"
        /\ reading' \in {"done", "undeleted"} /\ conn' = [conn EXCEPT ![Client] = "closed"]
    BY <1>4 DEF ShutdownAnswered, ShutdownLost, ShutdownReturns, quietVars, spawnerVars
  <2>2. conn' \in [S!Conns -> {"none", "open", "closed"}]
    BY <2>1, <1>k DEF LinkInv
  <2> QED
    BY <2>1, <2>2, <1>k, <1>ok, <1>info, <1>dial DEF LinkInv
<1>5. CASE BySpawner(SpawnerStep)
  <2>1. UNCHANGED <<reading, info, target, pong, pc>>
    BY <1>5 DEF BySpawner, quietVars
  <2>2. conn' \in [S!Conns -> {"none", "open", "closed"}]
    BY <1>5, <1>k, HangupTyped DEF BySpawner
  <2> QED
    BY <2>1, <2>2, <1>5, <1>k, <1>ok, <1>info, <1>dial, LeaveSame DEF LinkInv
<1>6. CASE UNCHANGED systemVars
  BY <1>6, <1>k DEF systemVars, sessionVars, quietVars, spawnerVars, LinkInv
<1> QED
  BY <1>1, <1>2, <1>2a, <1>3, <1>4, <1>5, <1>6 DEF SystemNext

-----------------------------------------------------------------------------
\* The inductive invariant of the composition holds throughout.
THEOREM SystemInvariant == SystemSpec => []SystemInv
<1>1. SystemInit => SystemInv
  <2> SUFFICES ASSUME SystemInit PROVE SystemInv
    OBVIOUS
  <2>1. IInv
    BY InitIInv DEF SystemInit
  <2>2. PortInv /\ ListInv
    BY DEF SystemInit, Init, PortInv, Listening, ListInv, Stored
  <2>3. LinkInv
    BY NoneFacts DEF SystemInit, Init, S!Init, S!Pc, S!Goroutines, LinkInv
  <2> QED
    BY <2>1, <2>2, <2>3 DEF SystemInv
<1>2. SystemInv /\ [SystemNext]_systemVars => SystemInv'
  <2> SUFFICES ASSUME SystemInv, [SystemNext]_systemVars PROVE SystemInv'
    OBVIOUS
  <2>1. IInv /\ [Next]_vars
    BY SpawnerSees DEF SystemInv
  <2>2. IInv'
    BY <2>1, TypeStep, PostStep, StopStep DEF IInv
  <2>3. TypeOK'
    BY <2>2 DEF IInv
  <2> QED
    BY <2>1, <2>2, <2>3, PortStep, ListStep, LinkStep DEF SystemInv
<1> QED
  BY <1>1, <1>2, PTL DEF SystemSpec

\* While the worker whose id the session keeps runs, workerMap has it, for any
\* number of workers and of other requests to the spawner.
THEOREM HeldIsListedHolds == SystemSpec => []HeldIsListed
<1>1. SystemInv => HeldIsListed
  BY NoneFacts DEF SystemInv, ListInv, LinkInv, HeldIsListed, Started, Stored
<1> QED
  BY SystemInvariant, <1>1, PTL

-----------------------------------------------------------------------------
(* The spawner is the environment that Session assumes. *)

\* The life of one worker takes a step that the session may see.
OneMoves(w) ==
  /\ \A p \in Posts : p # w =>
       (Running(p)' <=> Running(p)) /\ (p \in Backends' <=> p \in Backends)
  /\ Running(w)' => Running(w) \/ w \notin Msgs
  /\ w \in Backends' => w \in Backends \/ w \notin Msgs
  /\ w \in Backends \ Backends' => ~Running(w)'

\* A kill ends one process, and its backend too or not.
LEMMA KillMoves ==
  ASSUME TypeOK, PortInv, NEW w \in Posts, Kill(w)
  PROVE  OneMoves(w)
<1>1. /\ \A p \in Posts : p # w => proc'[p] = proc[p] /\ (p \in orphans' <=> p \in orphans)
      /\ Running(w)' => Running(w)
  BY KilledProc DEF Kill, Running
<1>2. w \in orphans' => w \in orphans \/ Running(w)
  BY DEF Kill
<1>3. w \in orphans => w \in orphans' /\ ~Running(w)
  BY DEF Kill, PortInv, Running
<1>4. \A p \in Posts : p # w => (Running(p)' <=> Running(p)) /\ (p \in Backends' <=> p \in Backends)
  BY <1>1 DEF Running, Backends
<1>5. w \in Backends' => w \in Backends
  BY <1>1, <1>2 DEF Backends
<1>6. w \in Backends \ Backends' => ~Running(w)'
  BY DEF Backends
<1> QED
  BY <1>1, <1>4, <1>5, <1>6 DEF OneMoves

\* What the spawner does moves one worker, or none.
LEMMA SpawnerMoves ==
  ASSUME IInv, PortInv, TypeOK', SpawnerStep
  PROVE  UNCHANGED <<Started, Backends>> \/ \E w \in Posts : OneMoves(w)
<1> DEFINE Goal == UNCHANGED <<Started, Backends>> \/ \E w \in Posts : OneMoves(w)
<1>k. TypeOK /\ DelInv /\ LoopInv
  BY DEF IInv
<1>0. ASSUME UNCHANGED <<proc, orphans>> PROVE Goal
  BY <1>0 DEF Started, Backends, Running
<1>kill. ASSUME NEW w \in Posts, Kill(w) PROVE Goal
  BY <1>kill, <1>k, KillMoves
<1>1. ASSUME NEW p \in Posts, Boot(p) \/ ProcessExit(p) \/ OrphanExit(p) PROVE Goal
  <2>1. CASE Boot(p)
    <3>1. \A q \in Posts : Running(q)' <=> Running(q)
      BY <2>1, <1>k DEF Boot, Running, TypeOK
    <3>2. orphans' = orphans
      BY <2>1 DEF Boot
    <3> QED
      BY <3>1, <3>2 DEF Started, Backends
  <2>2. CASE ProcessExit(p)
    <3>1. /\ \A q \in Posts : q # p => proc'[q] = proc[q]
          /\ ~Running(p)' /\ Running(p) /\ orphans' = orphans
      BY <2>2, <1>k DEF ProcessExit, Running, TypeOK
    <3>2. OneMoves(p)
      BY <3>1 DEF OneMoves, Running, Backends
    <3> QED
      BY <3>2
  <2>3. CASE OrphanExit(p)
    <3>1. proc' = proc /\ orphans' = orphans \ {p} /\ ~Running(p)
      BY <2>3 DEF OrphanExit, PortInv, Running
    <3>2. OneMoves(p)
      BY <3>1 DEF OneMoves, Running, Backends
    <3> QED
      BY <3>2
  <2> QED
    BY <1>1, <2>1, <2>2, <2>3
<1>2. ASSUME NEW p \in Posts, ContextKill(p) \/ PostTimeout(p) \/ PostTestFails(p) PROVE Goal
  BY <1>2, <1>kill DEF ContextKill, PostTimeout, PostTestFails
<1>3. ASSUME NEW p \in Posts,
             \/ PostReady(p) \/ PostReap(p) \/ PostDial(p) \/ PostStore(p) \/ PostReply(p)
             \/ PostReject(p)
      PROVE  Goal
  BY <1>3, <1>0 DEF PostReady, PostReap, PostDial, PostStore, PostReply, PostReject, procVars
<1>4. ASSUME NEW p \in Posts, p \notin Msgs, PostStart(p) PROVE Goal
  <2>1. /\ \A q \in Posts : q # p => proc'[q] = proc[q]
        /\ Running(p)' /\ orphans' = orphans
    BY <1>4, <1>k DEF PostStart, Running, TypeOK
  <2>2. OneMoves(p)
    BY <2>1, <1>4 DEF OneMoves, Running, Backends
  <2> QED
    BY <2>2
<1>5. ASSUME NEW d \in Deletes, DeleteKill(d) PROVE Goal
  <2>1. del[d].id \in Posts /\ Kill(del[d].id)
    BY <1>5, <1>k DEF DeleteKill, DelInv
  <2> QED
    BY <2>1, <1>kill
<1>6. ASSUME NEW d \in Deletes,
             DeleteUnlist(d) \/ DeleteReply(d) \/ \E p \in Posts : DeleteLookup(d, p)
      PROVE  Goal
  BY <1>6, <1>0 DEF DeleteUnlist, DeleteReply, DeleteLookup, procVars
<1>7. CASE LoopForceKill
  <2>1. cur \in Posts /\ Kill(cur)
    BY <1>7, <1>k DEF LoopForceKill, LoopInv
  <2> QED
    BY <2>1, <1>kill
<1>8. CASE \/ LoopStart \/ LoopReap \/ LoopUnlist \/ LoopNext \/ LoopEnd \/ StopListening \/ Exit
           \/ Signal \/ ListenError \/ MapRace
           \/ \E p \in Posts : LoopSignal(p) \/ LoopSkip(p)
  BY <1>8, <1>0 DEF LoopStart, LoopReap, LoopUnlist, LoopNext, LoopEnd, StopListening, Exit, Signal,
     ListenError, MapRace, LoopSignal, LoopSkip, procVars
<1> QED
  BY <1>1, <1>2, <1>3, <1>4, <1>5, <1>6, <1>7, <1>8
     DEF SpawnerStep, PostNext, DeleteNext, LoopStep

\* When no backend ends no connection does.
LEMMA NobodyHangsUp ==
  ASSUME LinkInv, Hangup, Backends \ Backends' = {}
  PROVE  conn' = conn
<1>1. conn' = [k \in S!Conns |-> conn[k]]
  BY DEF Hangup, S!HangUp
<1> QED
  BY <1>1 DEF LinkInv

\* Whatever the spawner, a process or another request does shows in the session
\* as the end of a worker, as one that outlives its process, or not at all.
LEMMA SpawnerStepRefines ==
  ASSUME SystemInv, TypeOK', BySpawner(SpawnerStep)
  PROVE  [S!Next]_(S!vars)
<1>k. LinkInv /\ PortInv /\ IInv
  BY DEF SystemInv
<1>1. UNCHANGED <<Started, Backends>> \/ \E w \in Posts : OneMoves(w)
  BY <1>k, SpawnerMoves DEF BySpawner
<1>2. UNCHANGED <<quietVars, reading, pc>> /\ Hangup
  BY DEF BySpawner
<1>3. ASSUME Backends \ Backends' = {},
             UNCHANGED <<Started \intersect Msgs, Backends \intersect Msgs>>
      PROVE  UNCHANGED S!vars
  <2>1. conn' = conn
    BY <1>2, <1>3, <1>k, NobodyHangsUp
  <2> QED
    BY <1>2, <1>3, <2>1 DEF S!vars, S!goVars, S!sessVars, S!chanVars, S!connVars, S!lifeVars, quietVars
<1>4. ASSUME NEW w \in Posts, OneMoves(w), w \in Backends, w \notin Backends'
      PROVE  S!WorkerExits(w) /\ w \in S!Workers
  <2>1. Backends \ Backends' = {w}
    BY <1>4 DEF OneMoves, Backends
  <2>2. S!HangUp({w})
    BY <1>2, <2>1 DEF Hangup
  <2>3. Started' \intersect Msgs = (Started \intersect Msgs) \ {w}
    BY <1>4 DEF OneMoves, Started
  <2>4. Backends' \intersect Msgs = (Backends \intersect Msgs) \ {w}
    BY <1>4 DEF OneMoves, Backends
  <2>5. w \in (Backends \intersect Msgs) \union (Posts \ Msgs)
    BY <1>4
  <2> QED
    BY <1>2, <2>2, <2>3, <2>4, <2>5
       DEF S!WorkerExits, S!Workers, S!goVars, S!sessVars, S!chanVars, quietVars
<1>5. ASSUME NEW w \in Posts, OneMoves(w), w \in Backends', w \in Backends,
             w \in Msgs, Running(w), ~Running(w)'
      PROVE  S!WorkerOrphaned(w) /\ w \in S!Workers
  <2>1. Backends' = Backends
    BY <1>5 DEF OneMoves, Backends
  <2>2. conn' = conn
    BY <1>2, <2>1, <1>k, NobodyHangsUp
  <2>3. Started' \intersect Msgs = (Started \intersect Msgs) \ {w} /\ w \in Started
    BY <1>5 DEF OneMoves, Started
  <2> QED
    BY <1>2, <1>5, <2>1, <2>2, <2>3
       DEF S!WorkerOrphaned, S!Workers, S!goVars, S!sessVars, S!chanVars, S!connVars, quietVars
<1>6. ASSUME NEW w \in Posts, OneMoves(w), ~(w \in Backends /\ w \notin Backends'),
             ~(w \in Msgs /\ Running(w) /\ ~Running(w)')
      PROVE  UNCHANGED S!vars
  <2>1. Backends \ Backends' = {}
    BY <1>6 DEF OneMoves, Backends
  <2>2. Started' \intersect Msgs = Started \intersect Msgs
    BY <1>6 DEF OneMoves, Started
  <2>3. Backends' \intersect Msgs = Backends \intersect Msgs
    BY <1>6 DEF OneMoves, Backends
  <2> QED
    BY <1>3, <2>1, <2>2, <2>3
<1>7. \A w \in Posts : Running(w) => w \in Backends
  BY DEF Backends
<1>8. CASE UNCHANGED <<Started, Backends>>
  BY <1>3, <1>8
<1> QED
  BY <1>1, <1>4, <1>5, <1>6, <1>7, <1>8 DEF S!Next

\* Who listens on the port in the answer is the worker of the session, or another
\* when it is over.
LEMMA DialRefines ==
  ASSUME SystemInv, NEW m \in Msgs, DialPort(m)
  PROVE  S!Dial(m)
<1>k. PortInv /\ LinkInv
  BY DEF SystemInv
<1>1. pc[m] = "dialing" /\ UNCHANGED spawnerVars
  BY DEF DialPort, S!Connect, S!Step
<1>2. post[m] = "ok" /\ port[m] # None /\ m \in Posts
  BY <1>1, <1>k, NoneFacts DEF LinkInv, PortInv, Stored
<1>3. m \in Backends => Listening(m)
  BY <1>2, <1>k DEF Backends, Listening, Running, PortInv
<1>4. ASSUME NEW w \in Posts, Listening(w), port[w] = port[m]
      PROVE  w \in S!Reaches(m)
  <2>1. w \in Backends
    BY <1>4 DEF Backends, Listening, Running
  <2>2. CASE m \in Backends
    BY <1>2, <1>3, <1>4, <2>2, <1>k DEF PortInv, S!Reaches
  <2>3. CASE m \notin Backends
    BY <2>1, <2>3 DEF S!Reaches
  <2> QED
    BY <2>2, <2>3
<1>5. {w \in Posts : Listening(w) /\ port[w] = port[m]} \subseteq S!Reaches(m)
  BY <1>4
<1> QED
  BY <1>5 DEF DialPort, S!Dial, S!Connect

\* The answer to the DELETE is the session's DeleteWorker: 200 only when the
\* process it names is over.
LEMMA ShutdownRefines ==
  ASSUME SystemInv, ShutdownAnswered \/ ShutdownLost
  PROVE  S!DeleteWorker
<1>1. up /\ reading = "deleting" /\ UNCHANGED <<quietVars, pc, spawnerVars>>
      /\ conn' = [conn EXCEPT ![Client] = "closed"]
  BY DEF ShutdownAnswered, ShutdownLost, ShutdownReturns
<1>2. Started' = Started /\ Backends' = Backends
  BY <1>1 DEF Started, Backends, Running, spawnerVars
<1>3. \/ reading' = "undeleted"
      \/ reading' = "done" /\ del[Leave].pc = "stopped"
  BY DEF ShutdownAnswered, ShutdownLost, ShutdownReturns
<1>4. reading' = "done" => target \notin Started
  <2>1. del[Leave].pc = "stopped" => del[Leave].id = target /\ ~Running(target)
    BY <1>1, NoneFacts DEF SystemInv, LinkInv, IInv, DelInv
  <2> QED
    BY <1>3, <2>1 DEF Started
<1>5. Started \subseteq Backends
  BY DEF Started, Backends
<1>6. conn' = [k \in S!Conns |->
        IF k = Client \/ (conn[k] = "open" /\ remote[k] \in {}) THEN "closed" ELSE conn[k]]
  BY <1>1 DEF SystemInv, LinkInv
<1>7. (Backends \intersect Msgs) \ (Backends' \intersect Msgs) = {}
  BY <1>2
<1>8. Started' \intersect Msgs = (Started \intersect Msgs) \ {target} \/ reading' = "undeleted"
  BY <1>2, <1>3, <1>4
<1> QED
  BY <1>1, <1>2, <1>3, <1>5, <1>6, <1>7, <1>8
     DEF S!DeleteWorker, S!goVars, S!sessVars, S!chanVars, quietVars

\* Every step of the composition is a step of Session, or one that it does not
\* see.
LEMMA SystemStepRefines ==
  ASSUME SystemInv, TypeOK', [SystemNext]_systemVars
  PROVE  [S!Next]_(S!vars)
<1> USE DEF S!vars, S!goVars, S!sessVars, S!chanVars, S!connVars, S!lifeVars, quietVars, sessionVars
<1>1. CASE SessionStep
  BY <1>1 DEF SessionStep, S!Next
<1>2. ASSUME NEW m \in Msgs, StartWorker(m) PROVE S!SpawnerStarts(m)
  <2>1. /\ \A p \in Posts : p # m => proc'[p] = proc[p]
        /\ Running(m)' /\ orphans' = orphans
    BY <1>2, NoneFacts DEF StartWorker, PostStart, SystemInv, IInv, TypeOK, Running
  <2>2. /\ Started' \intersect Msgs = (Started \intersect Msgs) \union {m}
        /\ Backends' \intersect Msgs = (Backends \intersect Msgs) \union {m}
    BY <2>1, NoneFacts DEF Started, Backends, Running
  <2> QED
    BY <1>2, <2>2 DEF StartWorker, S!SpawnerStarts
<1>3. CASE (\E m \in Msgs : RejectStart(m)) \/ RequestShutdown
  <2>1. UNCHANGED <<sessionVars, proc, orphans>>
    BY <1>3 DEF RejectStart, RequestShutdown, PostReject, DeleteLookup, procVars
  <2>2. Started' = Started /\ Backends' = Backends
    BY <2>1 DEF Started, Backends, Running
  <2> QED
    BY <2>1, <2>2
<1>4. CASE UNCHANGED systemVars
  <2>1. UNCHANGED sessionVars /\ Started' = Started /\ Backends' = Backends
    BY <1>4 DEF systemVars, spawnerVars, Started, Backends, Running
  <2> QED
    BY <2>1
<1>5. ASSUME NEW m \in Msgs, DialPort(m) PROVE S!Dial(m)
  BY <1>5, DialRefines
<1>6. CASE ShutdownAnswered \/ ShutdownLost
  BY <1>6, ShutdownRefines DEF S!Next, S!Acts, S!Disconnect
<1>7. CASE BySpawner(SpawnerStep)
  BY <1>7, SpawnerStepRefines
<1> QED
  BY <1>1, <1>2, <1>3, <1>4, <1>5, <1>6, <1>7
     DEF SystemNext, S!Next, S!Acts, S!HandlerStep

\* A session on a real spawner behaves as Session says, whatever other sessions
\* ask of that spawner and however it ends: what TLC checks of Session alone
\* holds of the composition.
THEOREM SystemImplementsSession == SystemSpec => ImplementsSession
<1>1. SystemInit => S!Init
  BY DEF SystemInit
<1>2. SystemInv /\ SystemInv' /\ [SystemNext]_systemVars => [S!Next]_(S!vars)
  BY SystemStepRefines DEF SystemInv, IInv
<1> QED
  BY SystemInvariant, <1>1, <1>2, PTL DEF SystemSpec, ImplementsSession, S!Spec
-----------------------------------------------------------------------------
(* What the answer to the DELETE means. *)

\* The DELETE is asked once, and the answer 200 means that its process is over.
ServedInv ==
  /\ reading \in {"reading", "closing", "checking", "stopping", "asking"} => target = None
  /\ reading = "done" /\ target # None =>
       target \in Msgs /\ post[target] \in Stored /\ ~Running(target)

\* What ties the target to its worker is preserved by every step.
LEMMA ServedStep == SystemInv /\ ServedInv /\ TypeOK' /\ [SystemNext]_systemVars => ServedInv'
<1> SUFFICES ASSUME SystemInv, ServedInv, TypeOK', [SystemNext]_systemVars PROVE ServedInv'
  OBVIOUS
<1>k. IInv /\ TypeOK /\ LinkInv
  BY DEF SystemInv, IInv
<1>n. [Next]_vars
  BY <1>k, SpawnerSees
\* Where a worker once was listed its process does not begin again.
<1>s. ASSUME NEW p \in Posts
      PROVE  /\ post[p] \in Stored => post'[p] \in Stored
             /\ Running(p)' /\ ~Running(p) => post[p] = "idle"
  BY <1>k, <1>n, OneStep
<1>2. ASSUME reading = "done", target # None
      PROVE  target \in Msgs /\ post'[target] \in Stored /\ proc'[target] \notin {"booting", "listening"}
  <2>1. PICK w \in Msgs : w = target /\ post[w] \in Stored /\ ~Running(w)
    BY <1>2 DEF ServedInv
  <2>2. w \in Posts /\ post[w] # "idle"
    BY <2>1, NoneFacts DEF Stored
  <2>3. post'[w] \in Stored /\ ~Running(w)'
    BY <1>s, <2>1, <2>2
  <2> QED
    BY <2>1, <2>3 DEF Running
<1>3. ASSUME UNCHANGED <<reading, target>> PROVE ServedInv'
  BY <1>2, <1>3 DEF ServedInv, Running
<1>4. CASE SessionStep
  <2>1. S!Acts /\ UNCHANGED <<post, proc>>
    BY <1>4 DEF SessionStep, spawnerVars
  <2>2. reading = "deleting" => reading' = reading
    BY <1>4 DEF SessionStep
  <2>3. reading' \in {"reading", "closing", "checking", "stopping", "asking"} => target' = None
    BY <2>1, <1>k, SessionDials DEF ServedInv
  <2>4. ASSUME reading' = "done", target' # None PROVE target' = target /\ reading = "done"
    BY <2>1, <2>2, <2>4, <1>k, SessionDials DEF ServedInv
  <2> QED
    BY <1>2, <2>1, <2>3, <2>4 DEF ServedInv, Running
<1>5. ASSUME NEW m \in Msgs, StartWorker(m) \/ RejectStart(m) \/ DialPort(m) PROVE ServedInv'
  BY <1>3, <1>5 DEF StartWorker, RejectStart, DialPort, S!Connect, sessionVars, quietVars
<1>6. CASE RequestShutdown
  BY <1>3, <1>6 DEF RequestShutdown, sessionVars, quietVars
<1>7. CASE ShutdownAnswered \/ ShutdownLost
  <2>1. /\ UNCHANGED <<target, post, proc>> /\ reading = "deleting"
        /\ \/ reading' = "undeleted"
           \/ reading' = "done" /\ del[Leave].pc = "stopped"
    BY <1>7 DEF ShutdownAnswered, ShutdownLost, ShutdownReturns, quietVars, spawnerVars
  <2>2. ASSUME reading' = "done"
        PROVE  target' \in Msgs /\ post'[target'] \in Stored /\ ~Running(target)
    <3>1. PICK w \in Msgs : w = target /\ w = del[Leave].id
      BY <2>1, <2>2, <1>k DEF LinkInv
    <3>2. post[w] \in Stored /\ ~Running(w)
      BY <2>1, <2>2, <3>1, <1>k, NoneFacts DEF IInv, DelInv
    <3> QED
      BY <2>1, <3>1, <3>2
  <2> QED
    BY <2>1, <2>2 DEF ServedInv, Running
<1>8. CASE BySpawner(SpawnerStep)
  BY <1>3, <1>8 DEF BySpawner, quietVars
<1>9. CASE UNCHANGED systemVars
  BY <1>3, <1>9 DEF systemVars, sessionVars, quietVars
<1> QED
  BY <1>4, <1>5, <1>6, <1>7, <1>8, <1>9 DEF SystemNext

\* The same throughout.
THEOREM ServedInvariant == SystemSpec => []ServedInv
<1>1. SystemInit => ServedInv
  BY NoneFacts DEF SystemInit, S!Init, ServedInv
<1>2. SystemInv /\ SystemInv' /\ ServedInv /\ [SystemNext]_systemVars => ServedInv'
  BY ServedStep DEF SystemInv, IInv
<1> QED
  BY SystemInvariant, <1>1, <1>2, PTL DEF SystemSpec

\* Once HandleDisconnect has heard "Worker stopped" the process it asked for is
\* over for good, whoever else uses the spawner.
THEOREM DoneIsOverHolds == SystemSpec => []DoneIsOver
<1>1. ServedInv => DoneIsOver
  BY DEF ServedInv, DoneIsOver, Started
<1> QED
  BY ServedInvariant, <1>1, PTL

-----------------------------------------------------------------------------
(* What is proved of Session alone holds of the composition. *)

SK == INSTANCE SessionKeptProofs WITH
        running <- Started \intersect Msgs, alive <- Backends \intersect Msgs,
        Others <- Posts \ Msgs, writers <- fileWriters, Nil <- None

\* The session that the proofs are about is the one of the composition.
LEMMA SameSession ==
  /\ S!Init <=> SK!Init
  /\ [S!Next]_(S!vars) <=> [SK!Next]_(SK!vars)
<1>1. S!Init <=> SK!Init
  <2>1. /\ S!Goroutines = SK!Goroutines /\ S!Conns = SK!Conns /\ S!Chans = SK!Chans
        /\ S!Senders = SK!Senders
    BY DEF S!Goroutines, SK!Goroutines, S!Conns, SK!Conns, S!Chans, SK!Chans, S!Senders,
           SK!Senders
  <2> QED
    BY <2>1, Zenon DEF S!Init, SK!Init
<1>2. S!Next <=> SK!Next
  BY
     DEF S!Goroutines, SK!Goroutines, S!Conns, SK!Conns, S!Chans, SK!Chans, S!Senders,
         SK!Senders, S!Workers, SK!Workers, S!sessVars, SK!sessVars, S!chanVars,
         SK!chanVars, S!connVars, SK!connVars, S!lifeVars, SK!lifeVars, S!goVars, SK!goVars, S!vars, SK!vars,
         S!Step, SK!Step, S!Crash, SK!Crash, S!Listens, SK!Listens, S!Receive, SK!Receive,
         S!ClientLeaves, SK!ClientLeaves, S!Parse, SK!Parse, S!SpawnerStarts,
         SK!SpawnerStarts, S!StartFails, SK!StartFails, S!StartAnswered, SK!StartAnswered,
         S!DialFails, SK!DialFails, S!Reaches, SK!Reaches, S!Connect, SK!Connect, S!Dial,
         SK!Dial, S!Target, SK!Target, S!MakeChan, SK!MakeChan, S!Initialised,
         SK!Initialised, S!StartSender, SK!StartSender, S!MakeMap, SK!MakeMap, S!PutBegin,
         SK!PutBegin, S!PutEnd, SK!PutEnd, S!SendRegister, SK!SendRegister, S!Route,
         SK!Route, S!Proxy, SK!Proxy, S!QueryStatus, SK!QueryStatus, S!Reads, SK!Reads,
         S!WorkerSends, SK!WorkerSends, S!Answer, SK!Answer, S!HangUp, SK!HangUp,
         S!WorkerExits, SK!WorkerExits, S!WorkerOrphaned, SK!WorkerOrphaned, S!Send,
         SK!Send, S!Take, SK!Take, S!Write, SK!Write, S!PongBegin, SK!PongBegin, S!PongEnd,
         SK!PongEnd, S!SendPanics, SK!SendPanics, S!Writing, SK!Writing, S!Overlap,
         SK!Overlap, S!WritePanics, SK!WritePanics, S!ReadPanics, SK!ReadPanics,
         S!PongPanics, SK!PongPanics, S!MapRace, SK!MapRace, S!CloseClientChan,
         SK!CloseClientChan, S!Check, SK!Check, S!CloseShared, SK!CloseShared,
         S!AskShutdown, SK!AskShutdown, S!DeleteWorker, SK!DeleteWorker, S!HandlerStep,
         SK!HandlerStep, S!SendStep, SK!SendStep, S!Disconnect, SK!Disconnect, S!Acts,
         SK!Acts, S!Next, SK!Next
<1>3. S!vars = SK!vars /\ S!vars' = SK!vars'
  BY DEF S!vars, SK!vars, S!sessVars, SK!sessVars, S!chanVars, SK!chanVars, S!connVars,
         SK!connVars, S!goVars, SK!goVars, S!lifeVars, SK!lifeVars
<1> QED
  BY <1>1, <1>2, <1>3

\* And so is what its behaviours are.
LEMMA SameSpec == S!Spec <=> SK!Spec
  BY SameSession, PTL DEF S!Spec, SK!Spec

\* What the proofs about Session suppose of the constants.
LEMMA SameAssumption == SK!SessionAssumption
  BY SystemAssumption
     DEF S!SessionAssumption, SK!SessionAssumption, S!Goroutines, SK!Goroutines

\* A session on a real spawner, which other sessions use and which may end at any
\* time: no connected worker is without its id, what a send accepts is on its way
\* once or delivered, no worker gets a message of another file, and whoever is at
\* the other end of a connection is the worker that was started for it, or came to
\* its port when that one was over.
THEOREM SystemKeepsSession ==
  SystemSpec => [](S!ConnectedHasInfo /\ S!KeptOnce /\ S!WorkersGetTheirOwn)
<1>1. SK!Spec => []SK!ConnectedHasInfo
  BY SameAssumption, SK!ConnectedHasInfoHolds
<1>2. SK!Spec => []SK!KeptOnce
  BY SameAssumption, SK!KeptOnceHolds
<1>3. SK!Spec => []SK!WorkersGetTheirOwn
  BY SameAssumption, SK!WorkersGetTheirOwnHolds
<1>4. SK!ConnectedHasInfo => S!ConnectedHasInfo
  BY DEF S!ConnectedHasInfo, SK!ConnectedHasInfo
<1>5. SK!WorkersGetTheirOwn => S!WorkersGetTheirOwn
  BY DEF S!WorkersGetTheirOwn, SK!WorkersGetTheirOwn, S!Belongs, SK!Belongs, S!Conns, SK!Conns
<1>6. SK!KeptOnce => S!KeptOnce
  BY DEF S!KeptOnce, SK!KeptOnce, S!Accepted, SK!Accepted, S!Holds, SK!Holds, S!Owed, SK!Owed,
         S!Queued, SK!Queued, S!Goroutines, SK!Goroutines, S!Chans, SK!Chans, S!Conns, SK!Conns,
         S!Senders, SK!Senders
<1>7. SystemSpec => S!Spec
  BY SystemImplementsSession DEF ImplementsSession
<1> QED
  BY <1>1, <1>2, <1>3, <1>4, <1>5, <1>6, <1>7, SameSpec, PTL

\* And its channels deliver what they accept, once, as long as the connection at
\* their end lives.
THEOREM SystemDelivers == SystemSpec => S!ImplementsDelivery
<1>1. SK!Spec => SK!ImplementsDelivery
  BY SameAssumption, SK!SessionImplementsDelivery
<1>2. SystemSpec => S!Spec
  BY SystemImplementsSession DEF ImplementsSession
<1>3. SK!D!Init <=> S!D!Init
  BY DEF SK!D!Init, S!D!Init, SK!Accepted, S!Accepted, SK!Goroutines, S!Goroutines,
         SK!Chans, S!Chans, SK!Conns, S!Conns, SK!Senders, S!Senders
<1>4. [SK!D!Next]_(SK!D!vars) <=> [S!D!Next]_(S!D!vars)
  BY DEF SK!D!Next, S!D!Next, SK!D!vars, S!D!vars, SK!D!Open, S!D!Open, SK!D!Close, S!D!Close,
         SK!D!Attach, S!D!Attach, SK!D!Join, S!D!Join, SK!D!Accept, S!D!Accept, SK!D!Take,
         S!D!Take, SK!D!Deliver, S!D!Deliver, SK!D!Lose, S!D!Lose, SK!Accepted, S!Accepted,
         SK!Goroutines, S!Goroutines, SK!Chans, S!Chans, SK!Conns, S!Conns, SK!Senders, S!Senders
<1>5. SK!ImplementsDelivery <=> S!ImplementsDelivery
  BY <1>3, <1>4, PTL DEF SK!ImplementsDelivery, S!ImplementsDelivery, SK!D!Spec, S!D!Spec
<1> QED
  BY <1>1, <1>2, <1>5, SameSpec, PTL
-----------------------------------------------------------------------------
(* What is proved of Spawner alone holds of the composition. *)

\* Sharing the spawner with a session makes it do nothing that its model does not.
THEOREM SystemImplementsSpawner == SystemSpec => Spec
<1>1. SystemInit => Init
  BY DEF SystemInit
<1>2. SystemInv /\ [SystemNext]_systemVars => [Next]_vars
  BY SpawnerSees DEF SystemInv
<1> QED
  BY SystemInvariant, <1>1, <1>2, PTL DEF SystemSpec, Spec

\* So under a session of carta-ctl too the spawner is the service it promises to
\* be, leaves no worker behind, has ended whatever it says it has stopped, and
\* waits for no process that does not end.
THEOREM SystemKeepsSpawner ==
  SystemSpec => ImplementsService /\ [](NoStrayWorker /\ StoppedIsOver /\ WaitsEnd)
BY SystemImplementsSpawner, SpawnerImplementsService, NoStrayWorkerHolds, StoppedIsOverHolds,
   WaitsEndHolds, PTL

=============================================================================
