--------------------------- MODULE SpawnerProofs ---------------------------
(***************************************************************************)
(* Proofs about Spawner, for any number of requests, workers and ports.    *)
(***************************************************************************)
EXTENDS Spawner, TLAPS

Stored == {"storing", "ok"}

\* What ties a process to the POST that started it.
PostInv == \A p \in Posts :
  /\ post[p] \in {"idle", "rejected"} => proc[p] = "none"
  /\ p \in workerMap => post[p] \in Stored
  /\ p \in waited => ~Running(p) /\ post[p] # "idle"

\* A DELETE past its lookup deals with a worker that has been stored, and past
\* its kill with a process that is over.
DelInv == \A d \in Deletes :
  /\ del[d].pc \notin {"idle", "missing"} =>
       del[d].id \in Posts /\ post[del[d].id] \in Stored
  /\ del[d].pc \in {"killed", "stopping", "stopped"} => ~Running(del[d].id)

\* The same of the shutdown loop and the worker it is at.
LoopInv ==
  /\ main \in {"waiting", "reaped", "unlisting"} => cur \in Posts /\ post[cur] \in Stored
  /\ main \in {"reaped", "unlisting"} => ~Running(cur)

IInv == TypeOK /\ PostInv /\ DelInv /\ LoopInv /\ NoStrayWorker

\* The initial states satisfy the inductive invariant.
THEOREM InitIInv == Init => IInv
<1> SUFFICES ASSUME Init PROVE IInv
  OBVIOUS
<1>1. TypeOK
  BY DEF Init, TypeOK, ProcState, PostState, DelState, MainState
<1>2. PostInv /\ NoStrayWorker
  BY DEF Init, PostInv, NoStrayWorker, Running
<1>3. DelInv /\ LoopInv
  BY DEF Init, DelInv, LoopInv
<1> QED
  BY <1>1, <1>2, <1>3 DEF IInv

\* Killing is typed, and ends no process but the one it is aimed at.
LEMMA KilledProc ==
  ASSUME TypeOK, NEW p
  PROVE  /\ Killed(p) \in [Posts -> ProcState]
         /\ \A q \in Posts : q # p => Killed(p)[q] = proc[q]
         /\ p \in Posts => Killed(p)[p] \in {proc[p], "killed"}
         /\ p \in Posts /\ Killable(p) => Killed(p)[p] \notin {"booting", "listening"}
  BY DEF Killed, TypeOK, ProcState, Running

\* Typing is preserved by every step, given what the loop and the DELETEs are at.
LEMMA TypeStep == IInv /\ [Next]_vars => TypeOK'
<1> SUFFICES ASSUME IInv, [Next]_vars PROVE TypeOK'
  OBVIOUS
<1> USE DEF IInv, TypeOK, ProcState, PostState, DelState, MainState
<1>k. \A p \in Posts : Kill(p) => proc' \in [Posts -> ProcState] /\ orphans' \subseteq Posts
  BY KilledProc DEF Kill
<1>1. CASE UNCHANGED vars
  BY <1>1 DEF vars, procVars, mapVars, mainVars
<1>2. ASSUME NEW p \in Posts,
             \/ Boot(p) \/ ProcessExit(p) \/ OrphanExit(p) \/ ContextKill(p) \/ PostReject(p)
             \/ PostStart(p) \/ PostReady(p) \/ PostTimeout(p) \/ PostReap(p)
      PROVE  TypeOK'
  BY <1>2, <1>k DEF Boot, ProcessExit, OrphanExit, ContextKill, PostReject, PostStart, PostReady,
       PostTimeout, PostReap, procVars, mapVars, mainVars
<1>3. ASSUME NEW p \in Posts,
             \/ PostDial(p) \/ PostTestFails(p) \/ PostStore(p) \/ PostReply(p)
      PROVE  TypeOK'
  BY <1>3, <1>k DEF PostDial, PostTestFails, PostStore, PostReply, procVars, mapVars, mainVars
<1>4. ASSUME NEW d \in Deletes, (\E p \in Posts : DeleteLookup(d, p)) \/ DeleteNext(d)
      PROVE  TypeOK'
  <2>1. ASSUME NEW p \in Posts, DeleteLookup(d, p) PROVE TypeOK'
    BY <2>1 DEF DeleteLookup, procVars, mapVars, mainVars
  <2>2. CASE DeleteKill(d)
    BY <2>2, <1>k DEF DeleteKill, DelInv, procVars, mapVars, mainVars
  <2>3. CASE DeleteUnlist(d)
    BY <2>3 DEF DeleteUnlist, procVars, mapVars, mainVars
  <2>4. CASE DeleteReply(d)
    BY <2>4 DEF DeleteReply, procVars, mapVars, mainVars
  <2> QED
    BY <1>4, <2>1, <2>2, <2>3, <2>4 DEF DeleteNext
<1>6. CASE Signal \/ ListenError \/ MapRace
  BY <1>6 DEF Signal, ListenError, MapRace, procVars, mapVars, mainVars
<1>7. CASE LoopStep
  BY <1>7, <1>k DEF LoopStep, LoopStart, LoopForceKill, LoopReap, LoopUnlist, LoopNext, LoopEnd,
       StopListening, Exit, LoopSignal, LoopSkip, LoopInv, procVars, mapVars, mainVars
<1> QED
  BY <1>1, <1>2, <1>3, <1>4, <1>6, <1>7 DEF Next, PostNext
\* The conjuncts that speak of POSTs, processes and the map.
LEMMA PostStep == IInv /\ TypeOK' /\ [Next]_vars => PostInv' /\ NoStrayWorker'
<1> SUFFICES ASSUME IInv, TypeOK', [Next]_vars PROVE PostInv' /\ NoStrayWorker'
  OBVIOUS
<1> DEFINE Goal == PostInv' /\ NoStrayWorker'
<1> USE DEF IInv, PostInv, NoStrayWorker, Stored, Running, Up, InProgress
<1>k. TypeOK /\ PostInv
  OBVIOUS
<1>1. ASSUME NEW p \in Posts, Boot(p) PROVE Goal
  BY <1>1 DEF Boot, TypeOK, procVars, mapVars, mainVars
<1>2. ASSUME NEW p \in Posts, ProcessExit(p) \/ OrphanExit(p) PROVE Goal
  BY <1>2 DEF ProcessExit, OrphanExit, TypeOK, procVars, mapVars, mainVars
<1>3. ASSUME NEW p \in Posts, ContextKill(p) PROVE Goal
  BY <1>3, KilledProc, <1>k, SMTT(30) DEF ContextKill, Kill, TypeOK, procVars, mapVars, mainVars, Killable
<1>4. ASSUME NEW p \in Posts, PostReject(p) PROVE Goal
  BY <1>4 DEF PostReject, TypeOK, procVars, mapVars, mainVars
<1>5. ASSUME NEW p \in Posts, PostStart(p) PROVE Goal
  BY <1>5 DEF PostStart, TypeOK, procVars, mapVars, mainVars
<1>6. ASSUME NEW p \in Posts, PostReady(p) PROVE Goal
  BY <1>6 DEF PostReady, TypeOK, procVars, mapVars, mainVars
<1>7. ASSUME NEW p \in Posts, PostTimeout(p) PROVE Goal
  <2>1. /\ proc' = Killed(p) /\ post[p] = "waiting" /\ post'[p] = "reaping"
        /\ \A q \in Posts : q # p => post'[q] = post[q]
        /\ UNCHANGED <<port, immune, waited, workerMap, del, main, cur, todo>>
    BY <1>7 DEF PostTimeout, Kill, TypeOK, procVars, mapVars, mainVars
  <2>2. /\ \A q \in Posts : q # p => proc'[q] = proc[q]
        /\ proc'[p] \in {proc[p], "killed"}
    BY <2>1, KilledProc, <1>k
  <2>3. PostInv'
    BY <2>1, <2>2, <1>k DEF TypeOK
  <2>4. NoStrayWorker'
    BY <2>1, <2>2, <1>k DEF TypeOK, Killable
  <2> QED
    BY <2>3, <2>4
<1>8. ASSUME NEW p \in Posts, PostReap(p) PROVE Goal
  BY <1>8 DEF PostReap, TypeOK, procVars, mapVars, mainVars
<1>9. ASSUME NEW p \in Posts, PostDial(p) PROVE Goal
  BY <1>9 DEF PostDial, TypeOK, procVars, mapVars, mainVars
<1>10. ASSUME NEW p \in Posts, PostTestFails(p) PROVE Goal
  BY <1>10, KilledProc, <1>k, SMTT(30) DEF PostTestFails, Kill, TypeOK, procVars, mapVars, mainVars, Killable
<1>11. ASSUME NEW p \in Posts, PostStore(p) PROVE Goal
  BY <1>11 DEF PostStore, TypeOK, procVars, mapVars, mainVars
<1>12. ASSUME NEW p \in Posts, PostReply(p) PROVE Goal
  BY <1>12 DEF PostReply, TypeOK, procVars, mapVars, mainVars
<1>13. ASSUME NEW d \in Deletes, NEW p \in Posts, DeleteLookup(d, p) PROVE Goal
  BY <1>13 DEF DeleteLookup, TypeOK, procVars, mapVars, mainVars
<1>14. ASSUME NEW d \in Deletes, DeleteKill(d) PROVE Goal
  <2> DEFINE p == del[d].id
  <2>1. p \in Posts /\ post[p] \in Stored /\ proc' = Killed(p)
    BY <1>14 DEF DeleteKill, Kill, DelInv
  <2>2. \A q \in Posts : proc'[q] \in {proc[q], "killed"} /\ (q # p => proc'[q] = proc[q])
    BY <2>1, KilledProc, <1>k
  <2>3. UNCHANGED <<waited, immune, post, workerMap, main>>
    BY <1>14 DEF DeleteKill, procVars, mapVars, mainVars
  <2> HIDE DEF p
  <2> QED
    BY <2>1, <2>2, <2>3 DEF TypeOK
<1>15. ASSUME NEW d \in Deletes, DeleteUnlist(d) PROVE Goal
  BY <1>15 DEF DeleteUnlist, TypeOK, procVars, mapVars, mainVars, DelInv
<1>16. ASSUME NEW d \in Deletes, DeleteReply(d) PROVE Goal
  BY <1>16 DEF DeleteReply, TypeOK, procVars, mapVars, mainVars
<1>21. ASSUME NEW p \in Posts, LoopSignal(p) PROVE Goal
  BY <1>21 DEF LoopSignal, TypeOK, procVars, mapVars, mainVars, Killable
<1>22. ASSUME NEW p \in Posts, LoopSkip(p) PROVE Goal
  BY <1>22 DEF LoopSkip, TypeOK, procVars, mapVars, mainVars, Killable
<1>23. CASE LoopStart
  BY <1>23 DEF LoopStart, TypeOK, procVars, mapVars, mainVars
<1>24. CASE LoopForceKill
  BY <1>24, KilledProc, <1>k DEF LoopForceKill, Kill, TypeOK, procVars, mapVars, mainVars, Killable, LoopInv
<1>25. CASE LoopReap
  BY <1>25 DEF LoopReap, TypeOK, procVars, mapVars, mainVars, LoopInv
<1>26. CASE LoopUnlist
  BY <1>26 DEF LoopUnlist, TypeOK, procVars, mapVars, mainVars, LoopInv
<1>27. CASE LoopNext
  BY <1>27 DEF LoopNext, TypeOK, procVars, mapVars, mainVars
<1>28. CASE LoopEnd \/ StopListening
  BY <1>28 DEF LoopEnd, StopListening, TypeOK, procVars, mapVars, mainVars
<1>29. CASE Exit
  BY <1>29 DEF Exit, TypeOK, procVars, mapVars, mainVars
<1>30. CASE Signal
  BY <1>30 DEF Signal, TypeOK, procVars, mapVars, mainVars
<1>31. CASE ListenError
  BY <1>31 DEF ListenError, TypeOK, procVars, mapVars, mainVars
<1>32. CASE MapRace
  BY <1>32 DEF MapRace, TypeOK, procVars, mapVars, mainVars
<1>33. CASE UNCHANGED vars
  BY <1>33 DEF vars, procVars, mapVars, mainVars
<1> QED
  BY <1>1, <1>2, <1>3, <1>4, <1>5, <1>6, <1>7, <1>8, <1>9, <1>10, <1>11, <1>12,
     <1>13, <1>14, <1>15, <1>16, <1>21, <1>22,
     <1>23, <1>24, <1>25, <1>26, <1>27, <1>28, <1>29, <1>30, <1>31, <1>32, <1>33
     DEF Next, PostNext, DeleteNext, LoopStep

\* The conjuncts that speak of DELETEs and of the shutdown loop.
LEMMA StopStep == IInv /\ TypeOK' /\ [Next]_vars => DelInv' /\ LoopInv'
<1> SUFFICES ASSUME IInv, TypeOK', [Next]_vars PROVE DelInv' /\ LoopInv'
  OBVIOUS
<1> DEFINE Goal == DelInv' /\ LoopInv'
<1> USE DEF IInv, PostInv, DelInv, LoopInv, Stored, Running
<1>k. TypeOK /\ PostInv
  OBVIOUS
<1>1. ASSUME NEW p \in Posts, Boot(p) PROVE Goal
  BY <1>1 DEF Boot, TypeOK, procVars, mapVars, mainVars
<1>2. ASSUME NEW p \in Posts, ProcessExit(p) \/ OrphanExit(p) PROVE Goal
  BY <1>2 DEF ProcessExit, OrphanExit, TypeOK, procVars, mapVars, mainVars
<1>3. ASSUME NEW p \in Posts, ContextKill(p) PROVE Goal
  BY <1>3, KilledProc, <1>k, SMTT(30) DEF ContextKill, Kill, TypeOK, procVars, mapVars, mainVars, Killable
<1>4. ASSUME NEW p \in Posts, PostReject(p) PROVE Goal
  BY <1>4 DEF PostReject, TypeOK, procVars, mapVars, mainVars
<1>5. ASSUME NEW p \in Posts, PostStart(p) PROVE Goal
  BY <1>5 DEF PostStart, TypeOK, procVars, mapVars, mainVars
<1>6. ASSUME NEW p \in Posts, PostReady(p) PROVE Goal
  BY <1>6 DEF PostReady, TypeOK, procVars, mapVars, mainVars
<1>7. ASSUME NEW p \in Posts, PostTimeout(p) PROVE Goal
  <2>1. /\ proc' = Killed(p) /\ post[p] = "waiting" /\ post'[p] = "reaping"
        /\ \A q \in Posts : q # p => post'[q] = post[q]
        /\ UNCHANGED <<port, immune, waited, workerMap, del, main, cur, todo>>
    BY <1>7 DEF PostTimeout, Kill, TypeOK, procVars, mapVars, mainVars
  <2>2. /\ \A q \in Posts : q # p => proc'[q] = proc[q]
        /\ proc'[p] \in {proc[p], "killed"}
    BY <2>1, KilledProc, <1>k
  <2>3. DelInv'
    BY <2>1, <2>2, <1>k DEF TypeOK
  <2>4. LoopInv'
    BY <2>1, <2>2, <1>k DEF TypeOK, Killable
  <2> QED
    BY <2>3, <2>4
<1>8. ASSUME NEW p \in Posts, PostReap(p) PROVE Goal
  BY <1>8 DEF PostReap, TypeOK, procVars, mapVars, mainVars
<1>9. ASSUME NEW p \in Posts, PostDial(p) PROVE Goal
  BY <1>9 DEF PostDial, TypeOK, procVars, mapVars, mainVars
<1>10. ASSUME NEW p \in Posts, PostTestFails(p) PROVE Goal
  BY <1>10, KilledProc, <1>k, SMTT(30) DEF PostTestFails, Kill, TypeOK, procVars, mapVars, mainVars, Killable
<1>11. ASSUME NEW p \in Posts, PostStore(p) PROVE Goal
  BY <1>11 DEF PostStore, TypeOK, procVars, mapVars, mainVars
<1>12. ASSUME NEW p \in Posts, PostReply(p) PROVE Goal
  BY <1>12 DEF PostReply, TypeOK, procVars, mapVars, mainVars
<1>13. ASSUME NEW d \in Deletes, NEW p \in Posts, DeleteLookup(d, p) PROVE Goal
  BY <1>13 DEF DeleteLookup, TypeOK, procVars, mapVars, mainVars
<1>14. ASSUME NEW d \in Deletes, DeleteKill(d) PROVE Goal
  BY <1>14, KilledProc, <1>k DEF DeleteKill, Kill, TypeOK, procVars, mapVars, mainVars, Killable
<1>15. ASSUME NEW d \in Deletes, DeleteUnlist(d) PROVE Goal
  BY <1>15 DEF DeleteUnlist, TypeOK, procVars, mapVars, mainVars
<1>16. ASSUME NEW d \in Deletes, DeleteReply(d) PROVE Goal
  BY <1>16 DEF DeleteReply, TypeOK, procVars, mapVars, mainVars
<1>21. ASSUME NEW p \in Posts, LoopSignal(p) PROVE Goal
  BY <1>21 DEF LoopSignal, TypeOK, procVars, mapVars, mainVars, Killable
<1>22. ASSUME NEW p \in Posts, LoopSkip(p) PROVE Goal
  BY <1>22 DEF LoopSkip, TypeOK, procVars, mapVars, mainVars, Killable
<1>23. CASE LoopStart
  BY <1>23 DEF LoopStart, TypeOK, procVars, mapVars, mainVars
<1>24. CASE LoopForceKill
  BY <1>24, KilledProc, <1>k DEF LoopForceKill, Kill, TypeOK, procVars, mapVars, mainVars, Killable
<1>25. CASE LoopReap
  BY <1>25 DEF LoopReap, TypeOK, procVars, mapVars, mainVars
<1>26. CASE LoopUnlist
  BY <1>26 DEF LoopUnlist, TypeOK, procVars, mapVars, mainVars
<1>27. CASE LoopNext
  BY <1>27 DEF LoopNext, TypeOK, procVars, mapVars, mainVars
<1>28. CASE LoopEnd \/ StopListening
  BY <1>28 DEF LoopEnd, StopListening, TypeOK, procVars, mapVars, mainVars
<1>29. CASE Exit
  BY <1>29 DEF Exit, TypeOK, procVars, mapVars, mainVars
<1>30. CASE Signal
  BY <1>30 DEF Signal, TypeOK, procVars, mapVars, mainVars
<1>31. CASE ListenError
  BY <1>31 DEF ListenError, TypeOK, procVars, mapVars, mainVars
<1>32. CASE MapRace
  BY <1>32 DEF MapRace, TypeOK, procVars, mapVars, mainVars
<1>33. CASE UNCHANGED vars
  BY <1>33 DEF vars, procVars, mapVars, mainVars
<1> QED
  BY <1>1, <1>2, <1>3, <1>4, <1>5, <1>6, <1>7, <1>8, <1>9, <1>10, <1>11, <1>12,
     <1>13, <1>14, <1>15, <1>16, <1>21, <1>22,
     <1>23, <1>24, <1>25, <1>26, <1>27, <1>28, <1>29, <1>30, <1>31, <1>32, <1>33
     DEF Next, PostNext, DeleteNext, LoopStep

-----------------------------------------------------------------------------

\* The inductive invariant holds throughout.
THEOREM SpawnerInvariant == Spec => []IInv
<1>1. IInv /\ [Next]_vars => IInv'
  BY TypeStep, PostStep, StopStep DEF IInv
<1> QED
  BY InitIInv, <1>1, PTL DEF Spec

\* Every variable keeps its type, for any number of requests and ports.
THEOREM SpawnerTypeOK == Spec => []TypeOK
  BY SpawnerInvariant, PTL DEF IInv

\* No error path, DELETE or shutdown step of a running spawner loses track of a
\* worker that runs and that it may stop.
THEOREM NoStrayWorkerHolds == Spec => []NoStrayWorker
  BY SpawnerInvariant, PTL DEF IInv

\* "Worker stopped" is true whenever it is answered.
THEOREM StoppedIsOverHolds == Spec => []StoppedIsOver
<1>1. IInv => StoppedIsOver
  BY DEF IInv, DelInv, StoppedIsOver
<1> QED
  BY SpawnerInvariant, <1>1, PTL

-----------------------------------------------------------------------------
(* Nobody waits for a process that will not be killed. *)

\* Wait is called once, by the POST that gives up or by the shutdown loop.
WaitInv ==
  /\ \A p \in Posts :
       /\ post[p] \in {"waiting", "reaping"} => p \notin waited
       /\ post[p] = "reaping" /\ Running(p) => p \in immune
  /\ main = "waiting" => Killable(cur)

\* What a step may do to the process of a POST, and to who has waited for it.
LEMMA WaitMoves ==
  ASSUME IInv, WaitInv, TypeOK', [Next]_vars, NEW p \in Posts
  PROVE  /\ immune' = immune
         /\ p \in waited' => \/ p \in waited
                             \/ post[p] = "reaping" /\ post'[p] = "failed"
                             \/ p = cur /\ main = "waiting" /\ main' = "reaped"
         /\ Running(p)' => Running(p) \/ post[p] = "idle"
         /\ post'[p] = "waiting" => post[p] \in {"idle", "waiting"}
         /\ post'[p] = "reaping" => \/ post[p] = "reaping"
                                    \/ post[p] = "waiting" /\ proc' = Killed(p)
<1> DEFINE Goal ==
      /\ immune' = immune
      /\ p \in waited' => \/ p \in waited
                          \/ post[p] = "reaping" /\ post'[p] = "failed"
                          \/ p = cur /\ main = "waiting" /\ main' = "reaped"
      /\ Running(p)' => Running(p) \/ post[p] = "idle"
      /\ post'[p] = "waiting" => post[p] \in {"idle", "waiting"}
      /\ post'[p] = "reaping" => \/ post[p] = "reaping"
                                 \/ post[p] = "waiting" /\ proc' = Killed(p)
<1>k. TypeOK /\ DelInv /\ LoopInv
  BY DEF IInv
<1>kill. \A q : proc' = Killed(q) => (Running(p)' => Running(p))
  BY KilledProc, <1>k DEF Running, TypeOK
<1>1. ASSUME UNCHANGED <<waited, immune, post>>, Running(p)' => Running(p) PROVE Goal
  BY <1>1
<1>2. ASSUME NEW q \in Posts,
             Boot(q) \/ ProcessExit(q) \/ OrphanExit(q) \/ ContextKill(q)
      PROVE  Goal
  <2>1. Running(p)' => Running(p)
    BY <1>2, <1>kill, <1>k DEF Boot, ProcessExit, OrphanExit, ContextKill, Kill, Running, TypeOK
  <2> QED
    BY <1>1, <1>2, <2>1 DEF Boot, ProcessExit, OrphanExit, ContextKill
<1>3. ASSUME NEW q \in Posts,
             \/ PostReject(q) \/ PostReady(q) \/ PostDial(q) \/ PostStore(q) \/ PostReply(q)
      PROVE  Goal
  BY <1>3, <1>k DEF PostReject, PostReady, PostDial, PostStore, PostReply, Running, TypeOK, procVars
<1>4. ASSUME NEW q \in Posts, PostStart(q) PROVE Goal
  BY <1>4, <1>k DEF PostStart, Running, TypeOK
<1>5. ASSUME NEW q \in Posts, PostTimeout(q) \/ PostTestFails(q) PROVE Goal
  <2>1. Running(p)' => Running(p)
    BY <1>5, <1>kill DEF PostTimeout, PostTestFails, Kill
  <2> QED
    BY <1>5, <2>1, <1>k DEF PostTimeout, PostTestFails, Kill, TypeOK
<1>6. ASSUME NEW q \in Posts, PostReap(q) PROVE Goal
  BY <1>6, <1>k DEF PostReap, Running, TypeOK
<1>7. ASSUME NEW d \in Deletes, DeleteNext(d) \/ \E q \in Posts : DeleteLookup(d, q) PROVE Goal
  <2>1. UNCHANGED <<waited, immune, post>>
    BY <1>7 DEF DeleteNext, DeleteKill, DeleteUnlist, DeleteReply, DeleteLookup, procVars
  <2>2. Running(p)' => Running(p)
    BY <1>7, <1>kill DEF DeleteNext, DeleteKill, DeleteUnlist, DeleteReply, DeleteLookup, procVars,
       Kill, Running
  <2> QED
    BY <1>1, <2>1, <2>2
<1>8. CASE LoopForceKill
  BY <1>8, <1>1, <1>kill DEF LoopForceKill, Kill
<1>9. CASE LoopReap
  BY <1>9, <1>k DEF LoopReap, Running, TypeOK
<1>10. CASE \/ LoopStart \/ LoopUnlist \/ LoopNext \/ LoopEnd \/ StopListening \/ Exit
            \/ Signal \/ ListenError \/ MapRace \/ UNCHANGED vars
            \/ \E q \in Posts : LoopSignal(q) \/ LoopSkip(q)
  <2>1. UNCHANGED <<waited, immune, post, proc>>
    BY <1>10 DEF LoopStart, LoopUnlist, LoopNext, LoopEnd, StopListening, Exit, Signal, ListenError,
       MapRace, LoopSignal, LoopSkip, vars, procVars
  <2> QED
    BY <1>1, <2>1 DEF Running
<1> QED
  BY <1>2, <1>3, <1>4, <1>5, <1>6, <1>7, <1>8, <1>9, <1>10 DEF Next, PostNext, LoopStep

\* The loop begins to wait only for a worker that took its SIGTERM.
LEMMA LoopMoves ==
  ASSUME IInv, [Next]_vars, main' = "waiting"
  PROVE  \/ main = "waiting" /\ cur' = cur
         \/ Killable(cur') /\ cur' \in Posts /\ UNCHANGED <<waited, immune>>
<1>1. CASE UNCHANGED <<main, cur>>
  BY <1>1
<1>2. ASSUME NEW p \in Posts, PostNext(p) \/ PostReject(p) \/ PostStart(p) PROVE UNCHANGED <<main, cur>>
  BY <1>2 DEF PostNext, PostReject, PostStart, PostReady, PostTimeout, PostReap, PostDial,
     PostTestFails, PostStore, PostReply, mainVars
<1>3. ASSUME NEW p \in Posts,
             Boot(p) \/ ProcessExit(p) \/ OrphanExit(p) \/ ContextKill(p)
      PROVE  UNCHANGED <<main, cur>>
  BY <1>3 DEF Boot, ProcessExit, OrphanExit, ContextKill, mainVars
<1>4. ASSUME NEW d \in Deletes, DeleteNext(d) \/ \E q \in Posts : DeleteLookup(d, q)
      PROVE  UNCHANGED <<main, cur>>
  BY <1>4 DEF DeleteNext, DeleteKill, DeleteUnlist, DeleteReply, DeleteLookup, mainVars
<1>5. ASSUME NEW p \in Posts, LoopSignal(p) PROVE Killable(cur') /\ cur' \in Posts /\ UNCHANGED <<waited, immune>>
  BY <1>5 DEF LoopSignal, procVars
<1>6. ASSUME NEW p \in Posts, LoopSkip(p) PROVE UNCHANGED <<main, cur>>
  BY <1>6 DEF LoopSkip
<1>7. CASE \/ LoopStart \/ LoopForceKill \/ LoopReap \/ LoopUnlist \/ LoopNext \/ LoopEnd
           \/ StopListening \/ Exit \/ Signal \/ ListenError \/ MapRace \/ UNCHANGED vars
  BY <1>7 DEF LoopStart, LoopForceKill, LoopReap, LoopUnlist, LoopNext, LoopEnd, StopListening,
     Exit, Signal, ListenError, MapRace, vars, mainVars
<1> QED
  BY <1>1, <1>2, <1>3, <1>4, <1>5, <1>6, <1>7 DEF Next, LoopStep

LEMMA WaitStep == IInv /\ WaitInv /\ TypeOK' /\ [Next]_vars => WaitInv'
<1> SUFFICES ASSUME IInv, WaitInv, TypeOK', [Next]_vars PROVE WaitInv'
  OBVIOUS
<1>k. TypeOK /\ PostInv /\ LoopInv
  BY DEF IInv
<1>1. ASSUME NEW p \in Posts, post'[p] \in {"waiting", "reaping"} PROVE p \notin waited'
  <2>1. post[p] \in {"idle", "waiting", "reaping"}
    BY <1>1, WaitMoves
  <2>2. p \notin waited
    BY <2>1, <1>k DEF WaitInv, PostInv
  <2>3. ~(p = cur /\ main = "waiting")
    BY <2>1, <1>k DEF LoopInv, Stored
  <2> QED
    BY <1>1, <2>2, <2>3, WaitMoves
<1>2. ASSUME NEW p \in Posts, post'[p] = "reaping", Running(p)' PROVE p \in immune'
  <2>1. CASE post[p] = "reaping"
    BY <1>2, <2>1, WaitMoves DEF WaitInv
  <2>2. CASE post[p] = "waiting" /\ proc' = Killed(p)
    <3>1. p \notin waited
      BY <2>2 DEF WaitInv
    <3>2. ~Killable(p)
      BY <1>2, <2>2, KilledProc, <1>k DEF Running
    <3> QED
      BY <3>1, <3>2, WaitMoves DEF Killable
  <2> QED
    BY <1>2, <2>1, <2>2, WaitMoves
<1>3. ASSUME main' = "waiting" PROVE Killable(cur)'
  <2>1. CASE main = "waiting" /\ cur' = cur
    <3>1. cur \in Posts /\ Killable(cur) /\ post[cur] \in Stored
      BY <2>1, <1>k DEF LoopInv, WaitInv
    <3> QED
      BY <1>3, <2>1, <3>1, WaitMoves DEF Killable, Stored
  <2>2. CASE Killable(cur') /\ cur' \in Posts /\ UNCHANGED <<waited, immune>>
    BY <2>2 DEF Killable
  <2> QED
    BY <1>3, <2>1, <2>2, LoopMoves
<1> QED
  BY <1>1, <1>2, <1>3 DEF WaitInv

\* No handler and no shutdown waits for a worker that nobody will kill, for any
\* number of workers, requests and protected processes.
THEOREM WaitsEndHolds == Spec => []WaitsEnd
<1>1. Init => WaitInv
  BY DEF Init, WaitInv
<1>2. WaitInv /\ IInv /\ IInv' /\ [Next]_vars => WaitInv'
  BY WaitStep DEF IInv
<1>3. WaitInv => WaitsEnd
  BY DEF WaitInv, WaitsEnd
<1> QED
  BY SpawnerInvariant, <1>1, <1>2, <1>3, PTL DEF Spec

-----------------------------------------------------------------------------
(* Ports. *)

\* A port belongs to the backend that listens on it, and an answered POST has one.
PortInv ==
  /\ \A p \in Posts :
       /\ proc[p] \in {"none", "booting"} => port[p] = None
       /\ proc[p] = "listening" => port[p] # None
       /\ p \in orphans => proc[p] = "killed"
       /\ post[p] \in {"dialing", "probing"} \union Stored => port[p] # None
  /\ \A p, q \in Posts : Listening(p) /\ Listening(q) /\ port[p] = port[q] => p = q

\* A kill makes nobody listen.
LEMMA KillPorts ==
  ASSUME TypeOK, PortInv, NEW q \in Posts, Kill(q), port' = port, NEW p \in Posts
  PROVE  /\ Listening(p)' => Listening(p)
         /\ proc'[p] \in {proc[p], "killed"}
         /\ p \in orphans' => proc'[p] = "killed"
         /\ proc[p] = "none" => proc'[p] = "none"
<1>1. /\ proc'[p] \in {proc[p], "killed"} /\ (p # q => proc'[p] = proc[p])
      /\ p \in orphans' => p \in orphans \/ (p = q /\ Killable(q) /\ Running(q))
      /\ p \in orphans' \ orphans => proc'[p] = "killed"
      /\ p \notin orphans \/ proc[p] = "killed"
  BY DEF Kill, Killed, TypeOK, PortInv
<1>2. proc[p] = "none" => proc'[p] = "none"
  BY DEF Kill, Killed, TypeOK, Running
<1>3. p \in orphans' => proc'[p] = "killed"
  BY <1>1
<1>4. Listening(p)' => Listening(p)
  BY <1>1 DEF Listening, PortInv, Running
<1> QED
  BY <1>1, <1>2, <1>3, <1>4

LEMMA PortStep == IInv /\ PortInv /\ TypeOK' /\ [Next]_vars => PortInv'
<1> SUFFICES ASSUME IInv, PortInv, TypeOK', [Next]_vars PROVE PortInv'
  OBVIOUS
<1>k. TypeOK /\ PostInv /\ DelInv /\ LoopInv
  BY DEF IInv
<1> USE DEF procVars, Stored
<1>1. ASSUME UNCHANGED <<proc, orphans, port>>,
             \A p \in Posts : post'[p] \in {"dialing", "probing"} \union Stored =>
               port[p] # None
      PROVE  PortInv'
  BY <1>1 DEF PortInv, Listening
<1>2. ASSUME NEW q \in Posts, Kill(q), port' = port,
             \A p \in Posts : post'[p] \in {"dialing", "probing"} \union Stored =>
               post[p] \in {"dialing", "probing"} \union Stored
      PROVE  PortInv'
  BY <1>2, <1>k, KillPorts DEF PortInv
<1>3. ASSUME NEW p \in Posts, Boot(p) PROVE PortInv'
  <2>1. PICK n \in Ports : /\ \A q \in Posts : Listening(q) => port[q] # n
                           /\ port' = [port EXCEPT ![p] = n]
    BY <1>3 DEF Boot
  <2>2. /\ port'[p] = n /\ n # None /\ proc'[p] # "booting" /\ proc'[p] # "none"
        /\ \A q \in Posts \ {p} : port'[q] = port[q] /\ proc'[q] = proc[q]
        /\ proc'[p] \in {proc[p], "listening"} /\ (p \in orphans => proc'[p] = proc[p])
        /\ UNCHANGED <<orphans, post>>
    BY <1>3, <1>k, <2>1, SpawnerAssumption DEF Boot, PortInv, TypeOK
  <2>3. \A q \in Posts \ {p} : Listening(q)' <=> Listening(q)
    BY <2>2 DEF Listening
  <2>4. \A q \in Posts \ {p} : Listening(q)' => port'[q] # port'[p]
    BY <2>1, <2>2, <2>3
  <2>5. \A a, b \in Posts : Listening(a)' /\ Listening(b)' /\ port'[a] = port'[b] => a = b
    BY <2>2, <2>3, <2>4 DEF PortInv
  <2>6. \A q \in Posts :
          /\ proc'[q] \in {"none", "booting"} => port'[q] = None
          /\ proc'[q] = "listening" => port'[q] # None
          /\ q \in orphans' => proc'[q] = "killed"
          /\ post'[q] \in {"dialing", "probing"} \union Stored => port'[q] # None
    BY <2>2 DEF PortInv
  <2> QED
    BY <2>5, <2>6 DEF PortInv
<1>4. ASSUME NEW p \in Posts, ProcessExit(p) \/ OrphanExit(p) PROVE PortInv'
  BY <1>4, <1>k DEF ProcessExit, OrphanExit, PortInv, Listening, Running, TypeOK
<1>5. ASSUME NEW p \in Posts, PostStart(p) PROVE PortInv'
  BY <1>5, <1>k DEF PostStart, PortInv, PostInv, Listening, TypeOK
<1>6. ASSUME NEW p \in Posts,
             \/ PostReject(p) \/ PostReady(p) \/ PostReap(p) \/ PostDial(p) \/ PostStore(p)
             \/ PostReply(p)
      PROVE  PortInv'
  <2>1. /\ UNCHANGED <<proc, orphans, port>>
        /\ \A q \in Posts \ {p} : post'[q] = post[q]
        /\ post'[p] \in {"dialing", "probing"} \union Stored => port[p] # None
    BY <1>6, <1>k DEF PostReject, PostReady, PostReap, PostDial, PostStore, PostReply, PortInv, TypeOK
  <2> QED
    BY <1>1, <2>1 DEF PortInv
<1>7. ASSUME NEW p \in Posts, ContextKill(p) \/ PostTimeout(p) \/ PostTestFails(p) PROVE PortInv'
  BY <1>7, <1>2, <1>k DEF ContextKill, PostTimeout, PostTestFails, TypeOK
<1>8. ASSUME NEW d \in Deletes, DeleteNext(d) \/ \E q \in Posts : DeleteLookup(d, q) PROVE PortInv'
  <2>1. CASE DeleteKill(d)
    BY <2>1, <1>2, <1>k DEF DeleteKill, DelInv
  <2>2. CASE DeleteUnlist(d) \/ DeleteReply(d) \/ \E q \in Posts : DeleteLookup(d, q)
    BY <2>2, <1>1 DEF DeleteUnlist, DeleteReply, DeleteLookup, PortInv
  <2> QED
    BY <1>8, <2>1, <2>2 DEF DeleteNext
<1>9. CASE LoopForceKill
  BY <1>9, <1>2, <1>k DEF LoopForceKill, LoopInv
<1>10. CASE \/ LoopStart \/ LoopReap \/ LoopUnlist \/ LoopNext \/ LoopEnd \/ StopListening \/ Exit
            \/ Signal \/ ListenError \/ MapRace \/ UNCHANGED vars
            \/ \E q \in Posts : LoopSignal(q) \/ LoopSkip(q)
  <2>1. UNCHANGED <<proc, orphans, port, post>>
    BY <1>10 DEF LoopStart, LoopReap, LoopUnlist, LoopNext, LoopEnd, StopListening, Exit, Signal,
       ListenError, MapRace, LoopSignal, LoopSkip, vars
  <2> QED
    BY <1>1, <2>1 DEF PortInv
<1> QED
  BY <1>3, <1>4, <1>5, <1>6, <1>7, <1>8, <1>9, <1>10 DEF Next, PostNext, LoopStep

\* A port that a POST has learnt is the port of its own backend for as long as
\* that backend lives; whoever else listens there does so after its end.
THEOREM PortsAreOwn == Spec => []PortInv
<1>1. Init => PortInv
  BY DEF Init, PortInv, Listening, Stored
<1>2. IInv /\ IInv' /\ PortInv /\ [Next]_vars => PortInv'
  BY PortStep DEF IInv
<1> QED
  BY SpawnerInvariant, <1>1, <1>2, PTL DEF Spec

-----------------------------------------------------------------------------
(* Spawner implements WorkerService. *)

StatusMap == [p \in Posts |-> ServiceStatus(p)]

\* What the status of a worker depends on.
LEMMA StatusCases ==
  ASSUME NEW p \in Posts, post[p] \in PostState
  PROVE  /\ post[p] = "idle" => ServiceStatus(p) = "unknown"
         /\ InProgress(p) => ServiceStatus(p) = "requested"
         /\ post[p] \in {"failed", "rejected"} => ServiceStatus(p) = "refused"
         /\ post[p] \in Stored /\ p \in workerMap => ServiceStatus(p) = "serving"
         /\ post[p] \in Stored /\ p \notin workerMap => ServiceStatus(p) = "retired"
  BY DEF ServiceStatus, InProgress, Stored, PostState

\* A worker's status changes with its POST and its entry only.
LEMMA StatusSame ==
  ASSUME NEW p \in Posts, post'[p] = post[p], p \in workerMap' <=> p \in workerMap
  PROVE  ServiceStatus(p)' = ServiceStatus(p)
  BY DEF ServiceStatus, InProgress

\* A step that shows nothing is a stuttering step of the service.
LEMMA StutterStep ==
  ASSUME \A p \in Posts : Running(p)' <=> Running(p),
         \A p \in Posts : ServiceStatus(p)' = ServiceStatus(p),
         Up' <=> Up, immune' = immune
  PROVE  UNCHANGED Service!vars
<1>1. {p \in Posts : Running(p)}' = {p \in Posts : Running(p)}
  OBVIOUS
<1>2. StatusMap' = StatusMap
  BY DEF StatusMap
<1>3. Up' = Up
  BY DEF Up
<1> QED
  BY <1>1, <1>2, <1>3 DEF Service!vars, StatusMap

\* The end of one process is the service's End.
LEMMA EndStep ==
  ASSUME NEW w \in Posts, Running(w), ~Running(w)',
         \A p \in Posts \ {w} : Running(p)' <=> Running(p),
         \A p \in Posts : ServiceStatus(p)' = ServiceStatus(p),
         Up' <=> Up, immune' = immune
  PROVE  Service!Next
<1>1. {p \in Posts : Running(p)}' = {p \in Posts : Running(p)} \ {w}
  OBVIOUS
<1>2. StatusMap' = StatusMap
  BY DEF StatusMap
<1>3. Up' = Up
  BY DEF Up
<1>4. Service!End(w)
  BY <1>1, <1>2, <1>3 DEF Service!End, StatusMap
<1> QED
  BY <1>4 DEF Service!Next

\* A step that moves one worker from one status to another.
LEMMA StatusStep ==
  ASSUME NEW w \in Posts, NEW from, NEW to, Up, Up',
         ServiceStatus(w) = from, ServiceStatus(w)' = to,
         \A p \in Posts \ {w} : ServiceStatus(p)' = ServiceStatus(p),
         immune' = immune
  PROVE  Service!SetStatus(w, from, to)
<1>1. StatusMap[w] = from /\ StatusMap' = [StatusMap EXCEPT ![w] = to]
  BY DEF StatusMap
<1>2. Up' = Up
  BY DEF Up
<1> QED
  BY <1>1, <1>2 DEF Service!SetStatus, StatusMap

\* So do steps that leave processes, POSTs and entries alone.
LEMMA QuietStep ==
  ASSUME UNCHANGED <<proc, post, workerMap, immune>>, Up' <=> Up
  PROVE  UNCHANGED Service!vars
<1>1. \A p \in Posts : Running(p)' <=> Running(p)
  BY DEF Running
<1>2. \A p \in Posts : ServiceStatus(p)' = ServiceStatus(p)
  BY StatusSame
<1> QED
  BY <1>1, <1>2, StutterStep

\* A step that changes at most whether one process runs.
LEMMA ProcStep ==
  ASSUME NEW w \in Posts, TypeOK, TypeOK',
         \A p \in Posts \ {w} : proc'[p] = proc[p],
         Running(w)' => Running(w),
         \A p \in Posts : ServiceStatus(p)' = ServiceStatus(p),
         Up' <=> Up, immune' = immune
  PROVE  [Service!Next]_(Service!vars)
<1>1. \A p \in Posts \ {w} : Running(p)' <=> Running(p)
  BY DEF Running
<1>2. CASE Running(w) /\ ~Running(w)'
  BY <1>1, <1>2, EndStep
<1>3. CASE Running(w)' <=> Running(w)
  BY <1>1, <1>3, StutterStep
<1> QED
  BY <1>2, <1>3

\* A kill that is aimed at one worker shows as its End, or not at all.
LEMMA KillStep ==
  ASSUME NEW w \in Posts, TypeOK, TypeOK', proc' = Killed(w),
         \A p \in Posts : ServiceStatus(p)' = ServiceStatus(p),
         Up' <=> Up, immune' = immune
  PROVE  [Service!Next]_(Service!vars)
<1>1. \A p \in Posts \ {w} : proc'[p] = proc[p]
  BY KilledProc
<1>2. proc'[w] \in {proc[w], "killed"}
  BY KilledProc
<1>3. Running(w)' => Running(w)
  BY <1>2 DEF Running
<1> QED
  BY <1>1, <1>3, ProcStep

\* A step of one POST leaves the status of the other workers alone.
LEMMA OthersSame ==
  ASSUME NEW w \in Posts, NEW pc, TypeOK, post' = [post EXCEPT ![w] = pc],
         \A p \in Posts \ {w} : p \in workerMap' <=> p \in workerMap
  PROVE  \A p \in Posts \ {w} : ServiceStatus(p)' = ServiceStatus(p)
<1>1. \A p \in Posts \ {w} : post'[p] = post[p]
  BY DEF TypeOK
<1> QED
  BY <1>1, StatusSame

\* The initial states are initial states of the service.
LEMMA InitService == Init => Service!Init
<1> SUFFICES ASSUME Init PROVE Service!Init
  OBVIOUS
<1>1. Up
  BY DEF Init, Up
<1>2. {p \in Posts : Running(p)} = {}
  BY DEF Init, Running
<1>3. \A p \in Posts : ServiceStatus(p) = "unknown"
  BY StatusCases DEF Init, PostState
<1>4. StatusMap = [p \in Posts |-> "unknown"]
  BY <1>3 DEF StatusMap
<1>5. immune \in SUBSET Posts
  BY DEF Init
<1>6. Up = TRUE
  BY <1>1 DEF Up
<1> QED
  BY <1>2, <1>4, <1>5, <1>6 DEF Service!Init, StatusMap

\* Every step is a step of the service, or none of its business.
LEMMA ServiceStep ==
  IInv /\ TypeOK' /\ [Next]_vars => [Service!Next]_(Service!vars)
<1> SUFFICES ASSUME IInv, TypeOK', [Next]_vars PROVE [Service!Next]_(Service!vars)
  OBVIOUS
<1> DEFINE Goal == [Service!Next]_(Service!vars)
           Shape == post' = post /\ workerMap' = workerMap /\ immune' = immune
<1>k. TypeOK /\ PostInv /\ DelInv /\ LoopInv
  BY DEF IInv
<1> USE DEF procVars, mapVars, mainVars, Up
<1>q. UNCHANGED <<proc, post, workerMap, immune>> /\ (Up' <=> Up) => Goal
  BY QuietStep
<1>s. UNCHANGED <<post, workerMap>> => \A p \in Posts : ServiceStatus(p)' = ServiceStatus(p)
  BY StatusSame
<1>1. ASSUME NEW p \in Posts, Boot(p) PROVE Goal
  <2>1. \A q \in Posts \ {p} : proc'[q] = proc[q]
    BY <1>1, <1>k DEF Boot, TypeOK
  <2> QED
    BY <1>1, <1>k, <1>s, <2>1, ProcStep DEF Boot, Running
<1>o. ASSUME NEW p \in Posts, OrphanExit(p) PROVE Goal
  BY <1>o, <1>q DEF OrphanExit
<1>2. ASSUME NEW p \in Posts, ProcessExit(p) PROVE Goal
  <2>1. \A q \in Posts \ {p} : proc'[q] = proc[q]
    BY <1>2, <1>k DEF ProcessExit, TypeOK
  <2> QED
    BY <1>2, <1>k, <1>s, <2>1, ProcStep DEF ProcessExit
<1>3. ASSUME NEW p \in Posts, ContextKill(p) PROVE Goal
  BY <1>3, <1>k, <1>s, KillStep DEF ContextKill, Kill
<1>4. ASSUME NEW p \in Posts, PostReject(p) PROVE Goal
  <2>1. ServiceStatus(p) = "unknown"
    BY <1>4, <1>k, StatusCases DEF PostReject, TypeOK
  <2>2. ServiceStatus(p)' = "refused"
    BY <1>4, <1>k, StatusCases DEF PostReject, TypeOK, ServiceStatus, InProgress
  <2>3. \A q \in Posts \ {p} : ServiceStatus(q)' = ServiceStatus(q)
    BY <1>4, <1>k, OthersSame DEF PostReject
  <2>4. Service!SetStatus(p, "unknown", "refused")
    BY <1>4, <2>1, <2>2, <2>3, StatusStep DEF PostReject, Accepting
  <2>5. {q \in Posts : Running(q)}' = {q \in Posts : Running(q)}
    BY <1>4 DEF PostReject, Running
  <2> QED
    BY <2>4, <2>5 DEF Service!Reject, Service!Next
<1>5. ASSUME NEW p \in Posts, PostStart(p) PROVE Goal
  <2>1. ServiceStatus(p) = "unknown"
    BY <1>5, <1>k, StatusCases DEF PostStart, TypeOK
  <2>2. ServiceStatus(p)' = "requested"
    BY <1>5, <1>k DEF PostStart, TypeOK, ServiceStatus, InProgress
  <2>3. \A q \in Posts \ {p} : ServiceStatus(q)' = ServiceStatus(q)
    BY <1>5, <1>k, OthersSame DEF PostStart
  <2>4. Service!SetStatus(p, "unknown", "requested")
    BY <1>5, <2>1, <2>2, <2>3, StatusStep DEF PostStart, Accepting
  <2>5. {q \in Posts : Running(q)}' = {q \in Posts : Running(q)} \union {p}
    BY <1>5, <1>k DEF PostStart, Running, TypeOK
  <2> QED
    BY <2>4, <2>5 DEF Service!Request, Service!Next
<1>6. ASSUME NEW p \in Posts, PostReady(p) PROVE Goal
  <2>1. ServiceStatus(p)' = ServiceStatus(p)
    BY <1>6, <1>k DEF PostReady, TypeOK, ServiceStatus, InProgress
  <2>2. \A q \in Posts \ {p} : ServiceStatus(q)' = ServiceStatus(q)
    BY <1>6, <1>k, OthersSame DEF PostReady
  <2>3. \A q \in Posts : Running(q)' <=> Running(q)
    BY <1>6 DEF PostReady, Running
  <2> QED
    BY <1>6, <2>1, <2>2, <2>3, StutterStep DEF PostReady
<1>7. ASSUME NEW p \in Posts, PostTimeout(p) PROVE Goal
  <2>1. ServiceStatus(p)' = ServiceStatus(p)
    BY <1>7, <1>k DEF PostTimeout, TypeOK, ServiceStatus, InProgress
  <2>2. \A q \in Posts \ {p} : ServiceStatus(q)' = ServiceStatus(q)
    BY <1>7, <1>k, OthersSame DEF PostTimeout
  <2> QED
    BY <1>7, <1>k, <2>1, <2>2, KillStep DEF PostTimeout, Kill
<1>8. ASSUME NEW p \in Posts, PostReap(p) PROVE Goal
  <2>1. ServiceStatus(p) = "requested"
    BY <1>8, <1>k, StatusCases DEF PostReap, TypeOK, InProgress
  <2>2. ServiceStatus(p)' = "refused"
    BY <1>8, <1>k DEF PostReap, TypeOK, ServiceStatus, InProgress
  <2>3. \A q \in Posts \ {p} : ServiceStatus(q)' = ServiceStatus(q)
    BY <1>8, <1>k, OthersSame DEF PostReap
  <2>4. Service!SetStatus(p, "requested", "refused")
    BY <1>8, <2>1, <2>2, <2>3, StatusStep DEF PostReap
  <2>5. {q \in Posts : Running(q)}' = {q \in Posts : Running(q)} /\ p \notin {q \in Posts : Running(q)}'
    BY <1>8 DEF PostReap, Running
  <2> QED
    BY <2>4, <2>5 DEF Service!Refuse, Service!MayForget, Service!Next
<1>9. ASSUME NEW p \in Posts, PostDial(p) PROVE Goal
  <2>1. ServiceStatus(p)' = ServiceStatus(p)
    BY <1>9, <1>k DEF PostDial, TypeOK, ServiceStatus, InProgress
  <2>2. \A q \in Posts \ {p} : ServiceStatus(q)' = ServiceStatus(q)
    BY <1>9, <1>k, OthersSame DEF PostDial
  <2>3. \A q \in Posts : Running(q)' <=> Running(q)
    BY <1>9 DEF PostDial, Running
  <2> QED
    BY <1>9, <2>1, <2>2, <2>3, StutterStep DEF PostDial
<1>10. ASSUME NEW p \in Posts, PostTestFails(p) PROVE Goal
  <2>1. ServiceStatus(p) = "requested"
    BY <1>10, <1>k, StatusCases DEF PostTestFails, TypeOK, InProgress
  <2>2. ServiceStatus(p)' = "refused"
    BY <1>10, <1>k DEF PostTestFails, TypeOK, ServiceStatus, InProgress
  <2>3. \A q \in Posts \ {p} : ServiceStatus(q)' = ServiceStatus(q)
    BY <1>10, <1>k, OthersSame DEF PostTestFails
  <2>4. Service!SetStatus(p, "requested", "refused")
    BY <1>10, <2>1, <2>2, <2>3, StatusStep DEF PostTestFails
  <2>5. \A q \in Posts \ {p} : Running(q)' <=> Running(q)
    BY <1>10, <1>k, KilledProc DEF PostTestFails, Kill, Running
  <2>6. proc'[p] \in {proc[p], "killed"} /\ (Killable(p) => ~Running(p)')
    BY <1>10, <1>k, KilledProc DEF PostTestFails, Kill, Running
  <2>7. p \in immune' \/ ~Running(p)'
    BY <1>10, <1>k, <2>6 DEF PostTestFails, Killable, PostInv, Running
  <2>8. {q \in Posts : Running(q)}' \in
          {{q \in Posts : Running(q)}, {q \in Posts : Running(q)} \ {p}}
    BY <2>5, <2>6 DEF Running
  <2> QED
    BY <2>4, <2>7, <2>8 DEF Service!Refuse, Service!MayForget, Service!Next
<1>11. ASSUME NEW p \in Posts, PostStore(p) PROVE Goal
  <2>1. ServiceStatus(p) = "requested"
    BY <1>11, <1>k, StatusCases DEF PostStore, TypeOK, InProgress
  <2>2. ServiceStatus(p)' = "serving"
    BY <1>11, <1>k DEF PostStore, TypeOK, ServiceStatus, InProgress
  <2>3. \A q \in Posts \ {p} : ServiceStatus(q)' = ServiceStatus(q)
    BY <1>11, <1>k, OthersSame DEF PostStore
  <2>4. Service!SetStatus(p, "requested", "serving")
    BY <1>11, <2>1, <2>2, <2>3, StatusStep DEF PostStore
  <2>5. {q \in Posts : Running(q)}' = {q \in Posts : Running(q)}
    BY <1>11 DEF PostStore, Running
  <2> QED
    BY <2>4, <2>5 DEF Service!Serve, Service!Next
<1>12. ASSUME NEW p \in Posts, PostReply(p) PROVE Goal
  <2>1. ServiceStatus(p)' = ServiceStatus(p)
    BY <1>12, <1>k DEF PostReply, TypeOK, ServiceStatus, InProgress
  <2>2. \A q \in Posts \ {p} : ServiceStatus(q)' = ServiceStatus(q)
    BY <1>12, <1>k, OthersSame DEF PostReply
  <2>3. \A q \in Posts : Running(q)' <=> Running(q)
    BY <1>12 DEF PostReply, Running
  <2> QED
    BY <1>12, <2>1, <2>2, <2>3, StutterStep DEF PostReply
<1>u. ASSUME NEW w \in Posts, post[w] \in Stored, ~Running(w), Up, Up',
             UNCHANGED <<proc, post, immune>>, workerMap' = workerMap \ {w}
      PROVE  Goal
  <2>1. CASE w \notin workerMap
    BY <1>u, <1>q, <2>1
  <2>2. CASE w \in workerMap
    <3>1. ServiceStatus(w) = "serving" /\ ServiceStatus(w)' = "retired"
      BY <1>u, <2>2, <1>k DEF TypeOK, Stored, ServiceStatus, InProgress
    <3>2. \A q \in Posts \ {w} : ServiceStatus(q)' = ServiceStatus(q)
      BY <1>u, StatusSame
    <3>3. Service!SetStatus(w, "serving", "retired")
      BY <1>u, <3>1, <3>2, StatusStep
    <3>4. {q \in Posts : Running(q)}' = {q \in Posts : Running(q)} /\ w \notin {q \in Posts : Running(q)}
      BY <1>u DEF Running
    <3> QED
      BY <3>3, <3>4 DEF Service!Retire, Service!MayForget, Service!Next
  <2> QED
    BY <2>1, <2>2
<1>13. ASSUME NEW d \in Deletes, NEW p \in Posts, DeleteLookup(d, p) PROVE Goal
  BY <1>13, <1>q DEF DeleteLookup
<1>14. ASSUME NEW d \in Deletes, DeleteKill(d) PROVE Goal
  BY <1>14, <1>k, <1>s, KillStep DEF DeleteKill, Kill, DelInv
<1>15. ASSUME NEW d \in Deletes, DeleteUnlist(d) PROVE Goal
  BY <1>15, <1>k, <1>u DEF DeleteUnlist, DelInv
<1>16. ASSUME NEW d \in Deletes, DeleteReply(d) PROVE Goal
  BY <1>16, <1>q DEF DeleteReply
<1>18. ASSUME NEW p \in Posts, LoopSignal(p) \/ LoopSkip(p) PROVE Goal
  BY <1>18, <1>q DEF LoopSignal, LoopSkip
<1>19. CASE LoopStart \/ LoopReap \/ LoopNext \/ LoopEnd \/ StopListening \/ Signal
  BY <1>19, <1>q DEF LoopStart, LoopReap, LoopNext, LoopEnd, StopListening, Signal
<1>20. CASE LoopForceKill
  BY <1>20, <1>k, <1>s, KillStep DEF LoopForceKill, Kill, LoopInv
<1>21. CASE LoopUnlist
  BY <1>21, <1>k, <1>u DEF LoopUnlist, LoopInv
<1>22. CASE Exit \/ ListenError \/ MapRace
  <2>1. Up /\ ~Up' /\ UNCHANGED <<proc, post, workerMap, immune>>
    BY <1>22 DEF Exit, ListenError, MapRace, Accepting
  <2>2. {q \in Posts : Running(q)}' = {q \in Posts : Running(q)}
    BY <2>1 DEF Running
  <2>3. StatusMap' = StatusMap
    BY <2>1, <1>s DEF StatusMap
  <2>4. Up = TRUE /\ Up' = FALSE /\ immune' = immune
    BY <2>1
  <2> QED
    BY <2>2, <2>3, <2>4 DEF Service!Stop, Service!Next, StatusMap
<1>23. CASE UNCHANGED vars
  BY <1>23, <1>q DEF vars
<1> QED
  BY <1>o, <1>1, <1>2, <1>3, <1>4, <1>5, <1>6, <1>7, <1>8, <1>9, <1>10, <1>11, <1>12,
     <1>13, <1>14, <1>15, <1>16, <1>18, <1>19, <1>20, <1>21, <1>22, <1>23
     DEF Next, PostNext, DeleteNext, LoopStep

\* The handlers and the shutdown loop keep the promises of WorkerService, for
\* any number of workers and requests.
THEOREM SpawnerImplementsService == Spec => ImplementsService
<1>1. IInv /\ IInv' /\ [Next]_vars => [Service!Next]_(Service!vars)
  BY ServiceStep DEF IInv
<1> QED
  BY InitService, SpawnerInvariant, <1>1, PTL DEF Spec, ImplementsService, Service!Spec

=============================================================================
