--------------------------- MODULE SessionProofs ---------------------------
(***************************************************************************)
(* Proofs about Session, for any number of messages, replies and files and *)
(* any capacity of the channels.                                           *)
(***************************************************************************)
EXTENDS Session, TLAPS

\* Where a handler that starts a worker can be until it sends.
Busy == {"starting", "started", "dialing", "ready", "made", "making", "putting", "storing", "running"}

\* How far the handlers have come, and what the session knows by then.
LinkInv ==
  /\ shared # Nil => info # Nil
  /\ \A f \in Files : fileMap[f] # Nil => shared # Nil
  /\ \A m \in Msgs :
       /\ pc[m] \in Busy => Kind[m] \in {"register", "open"}
       /\ pc[m] \in {"making", "putting", "storing"} => Kind[m] = "open"
       /\ Kind[m] = "register" /\ pc[m] = "dialing" => info # Nil
       /\ Kind[m] = "register" /\ pc[m] \in {"ready", "made", "running"} => shared # Nil
       /\ Kind[m] = "open" /\ pc[m] \in Busy => shared # Nil
       /\ pc[m] = "made" => sink[m] \in Msgs
  /\ \A r \in Replies : pc[r] # "idle" => from[r] \in Msgs

\* Nil is none of the things it stands for the absence of.
LEMMA NilFacts ==
  /\ Nil \notin Msgs /\ Nil \notin Replies /\ Nil \notin Goroutines
  /\ Nil \notin Files /\ Nil \notin Conns /\ Nil \notin Chans
  /\ Nil \notin Senders /\ Nil \notin Workers
  /\ Client \notin Msgs /\ Client \notin Replies
  BY SessionAssumption DEF Goroutines, Conns, Chans, Senders, Workers

\* The initial states are typed, and no handler has got anywhere.
THEOREM InitLinks == Init => TypeOK /\ LinkInv
<1> SUFFICES ASSUME Init PROVE TypeOK /\ LinkInv
  OBVIOUS
<1>1. \A c \in Chans : buf[c] \in Seq(Goroutines) /\ Len(buf[c]) <= Cap
  BY SessionAssumption DEF Init
<1>2. TypeOK
  BY <1>1 DEF Init, TypeOK, Reading, Pc, Conns, Chans, Senders
<1>3. LinkInv
  BY DEF Init, LinkInv, Busy, Goroutines
<1> QED
  BY <1>2, <1>3

\* A channel keeps its type and its bound.
LEMMA ChannelStep ==
  ASSUME TypeOK, NEW c \in Chans
  PROVE  /\ \A a \in Goroutines : Len(buf[c]) < Cap =>
              LET new == [buf EXCEPT ![c] = Append(@, a)] IN
              /\ new \in [Chans -> Seq(Goroutines)]
              /\ \A d \in Chans : Len(new[d]) <= Cap
         /\ buf[c] # <<>> =>
              LET new == [buf EXCEPT ![c] = Tail(@)] IN
              /\ Head(buf[c]) \in Goroutines
              /\ new \in [Chans -> Seq(Goroutines)]
              /\ \A d \in Chans : Len(new[d]) <= Cap
<1>1. buf[c] \in Seq(Goroutines) /\ Len(buf[c]) \in Nat /\ Cap \in Nat
  BY SessionAssumption DEF TypeOK
<1>2. ASSUME NEW s \in Seq(Goroutines), Len(s) <= Cap
      PROVE  /\ [buf EXCEPT ![c] = s] \in [Chans -> Seq(Goroutines)]
             /\ \A d \in Chans : Len([buf EXCEPT ![c] = s][d]) <= Cap
  BY <1>2 DEF TypeOK
<1>3. ASSUME NEW a \in Goroutines, Len(buf[c]) < Cap
      PROVE  Append(buf[c], a) \in Seq(Goroutines) /\ Len(Append(buf[c], a)) <= Cap
  BY <1>1, <1>3
<1>4. ASSUME buf[c] # <<>>
      PROVE  /\ Head(buf[c]) \in Goroutines
             /\ Tail(buf[c]) \in Seq(Goroutines) /\ Len(Tail(buf[c])) <= Cap
  BY <1>1, <1>4 DEF TypeOK
<1> QED
  BY <1>2, <1>3, <1>4

\* Every step preserves the types.
LEMMA TypeStep == TypeOK /\ LinkInv /\ [Next]_vars => TypeOK'
<1> SUFFICES ASSUME TypeOK, LinkInv, [Next]_vars PROVE TypeOK'
  OBVIOUS
<1> USE NilFacts DEF TypeOK, Reading, Pc, Step, Crash, sessVars, chanVars, connVars, goVars, lifeVars
<1>1. CASE UNCHANGED vars
  BY <1>1 DEF vars
<1>2. ASSUME NEW m \in Msgs,
             \/ Receive(m) \/ Parse(m) \/ SpawnerStarts(m) \/ StartFails(m) \/ StartAnswered(m)
             \/ DialFails(m) \/ MakeMap(m) \/ PutBegin(m) \/ PutEnd(m) \/ QueryStatus(m)
             \/ MapRace(m)
      PROVE  TypeOK'
  <2>1. CASE Receive(m)
    BY <2>1 DEF Receive
  <2>2. CASE Parse(m)
    <3>1. \/ pc' = [pc EXCEPT ![m] = "failed"]
          \/ pc' = [pc EXCEPT ![m] = "starting"]
      BY <2>2 DEF Parse
    <3>2. pc' \in [Goroutines -> Pc]
      BY <3>1
    <3> QED
      BY <2>2, <3>2 DEF Parse
  <2>3. CASE SpawnerStarts(m)
    BY <2>3 DEF SpawnerStarts
  <2>4. CASE StartFails(m)
    BY <2>4 DEF StartFails
  <2>5. CASE StartAnswered(m)
    BY <2>5 DEF StartAnswered
  <2>6. CASE DialFails(m)
    BY <2>6 DEF DialFails
  <2>7. CASE MakeMap(m)
    BY <2>7 DEF MakeMap
  <2>8. CASE PutBegin(m)
    BY <2>8 DEF PutBegin
  <2>9. CASE PutEnd(m)
    BY <2>9 DEF PutEnd
  <2>10. CASE QueryStatus(m)
    BY <2>10 DEF QueryStatus
  <2>11. CASE MapRace(m)
    BY <2>11 DEF MapRace
  <2> QED
    BY <1>2, <2>1, <2>2, <2>3, <2>4, <2>5, <2>6, <2>7, <2>8, <2>9, <2>10, <2>11
<1>3. ASSUME NEW m \in Msgs, Dial(m) PROVE TypeOK'
  <2>1. Reaches(m) \subseteq Workers
    BY DEF Reaches, Workers
  <2>2. PICK w \in Reaches(m) : remote' = [remote EXCEPT ![m] = w]
    BY <1>3 DEF Dial, Connect
  <2>3. w \in Workers \union {Nil}
    BY <2>1
  <2>4. remote' \in [Conns -> Workers \union {Nil}]
    BY <2>2, <2>3
  <2> QED
    BY <1>3, <2>4 DEF Dial, Connect
<1>4. ASSUME NEW m \in Msgs, MakeChan(m) PROVE TypeOK'
  <2>1. Target(m) \in Msgs \union {Nil}
    BY DEF Target
  <2> QED
    BY <1>4, <2>1 DEF MakeChan, Conns
<1>4a. ASSUME NEW m \in Msgs, StartSender(m) PROVE TypeOK'
  <2>1. sink[m] \in Msgs /\ sendChan[sink[m]] \in Chans \union {Nil}
    BY <1>4a DEF StartSender, LinkInv, Chans, Conns
  <2>2. Initialised(m) \in Pc
    BY DEF Initialised
  <2> QED
    BY <1>4a, <2>1, <2>2 DEF StartSender, Senders, Conns
<1>5. ASSUME NEW m \in Msgs, SendRegister(m) PROVE TypeOK'
  <2>1. Target(m) \in Msgs
    BY <1>5 DEF SendRegister, Target, LinkInv, Busy
  <2> QED
    BY <1>5, <2>1 DEF SendRegister, Chans, Conns
<1>6. ASSUME NEW m \in Msgs, Proxy(m) PROVE TypeOK'
  <2>1. Route(m) \in Msgs \union {Nil}
    BY SessionAssumption DEF Route
  <2> QED
    <3>1. CASE Route(m) = Nil
      BY <1>6, <3>1 DEF Proxy
    <3>2. CASE Route(m) # Nil
      <4>1. sendChan[Route(m)] \in Chans \union {Nil}
        BY <2>1, <3>2 DEF Chans, Conns
      <4>2. /\ pc' = [pc EXCEPT ![m] = "sending"]
            /\ dest' = [dest EXCEPT ![m] = sendChan[Route(m)]]
            /\ UNCHANGED <<up, reading, from, ack, sessVars, chanVars, connVars, lifeVars>>
        BY <1>6, <3>2 DEF Proxy
      <4>3. dest' \in [Goroutines -> Chans \union {Nil}]
        BY <4>1, <4>2
      <4> QED
        BY <4>2, <4>3
    <3> QED
      BY <3>1, <3>2
<1>7. ASSUME NEW r \in Replies, NEW w \in Msgs, WorkerSends(r, w) PROVE TypeOK'
  BY <1>7 DEF WorkerSends
<1>8. ASSUME NEW r \in Replies, Answer(r) PROVE TypeOK'
  <2>1. from[r] \in Msgs
    BY <1>8 DEF Answer, LinkInv
  <2> QED
    BY <1>8, <2>1 DEF Answer, Chans, Conns
<1>9. ASSUME NEW a \in Goroutines, SendStep(a) PROVE TypeOK'
  <2>1. CASE SendPanics(a)
    BY <2>1 DEF SendPanics
  <2>2. CASE Send(a)
    <3>1. dest[a] \in Chans
      BY <2>2 DEF Send
    <3> HIDE DEF TypeOK
    <3>2. buf' \in [Chans -> Seq(Goroutines)] /\ \A d \in Chans : Len(buf'[d]) <= Cap
      BY <2>2, <3>1, ChannelStep DEF Send
    <3> QED
      BY <2>2, <3>2 DEF Send, TypeOK
  <2> QED
    BY <1>9, <2>1, <2>2 DEF SendStep
<1>10. ASSUME NEW s \in Senders, Take(s) PROVE TypeOK'
  <2> DEFINE c == drains[s]
  <2>0. c \in Chans /\ buf[c] # <<>>
    BY <1>10 DEF Take
  <2> HIDE DEF TypeOK
  <2>1. /\ Head(buf[c]) \in Goroutines
        /\ buf' \in [Chans -> Seq(Goroutines)] /\ \A d \in Chans : Len(buf'[d]) <= Cap
    BY <1>10, <2>0, ChannelStep DEF Take
  <2> QED
    BY <1>10, <2>0, <2>1 DEF Take, TypeOK
<1>11. ASSUME NEW s \in Senders, Write(s) PROVE TypeOK'
  <2>1. hand[s] \in Goroutines /\ got' \in [Conns -> SUBSET Goroutines]
    <3>1. hand[s] \in Goroutines
      BY <1>11 DEF Write
    <3>2. \A k \in Conns : got[k] \union {hand[s]} \in SUBSET Goroutines
      BY <3>1
    <3> QED
      BY <1>11, <3>1, <3>2 DEF Write
  <2>2. hand' \in [Senders -> Goroutines \union {Nil}]
    BY <1>11 DEF Write
  <2> QED
    BY <1>11, <2>1, <2>2 DEF Write
<1>12. ASSUME NEW k \in Conns, PongBegin(k) \/ PongEnd(k) \/ WritePanics(k) \/ ReadPanics(k)
       PROVE  TypeOK'
  <2>1. CASE PongBegin(k)
    BY <2>1 DEF PongBegin
  <2>2. CASE PongEnd(k)
    BY <2>2 DEF PongEnd
  <2>3. CASE WritePanics(k)
    BY <2>3 DEF WritePanics
  <2>4. CASE ReadPanics(k)
    BY <2>4 DEF ReadPanics
  <2> QED
    BY <1>12, <2>1, <2>2, <2>3, <2>4
<1>13. ASSUME NEW w \in Workers, WorkerExits(w) \/ WorkerOrphaned(w) PROVE TypeOK'
  BY <1>13 DEF WorkerExits, WorkerOrphaned, HangUp
<1>14. CASE ClientLeaves \/ PongPanics \/ CloseClientChan \/ Check
  BY <1>14 DEF ClientLeaves, PongPanics, CloseClientChan, Check, Conns, Chans
<1>15. CASE CloseShared
  <2>1. shared = Nil \/ sendChan[shared] \in Msgs \union {Nil}
    OBVIOUS
  <2> QED
    <3>1. CASE shared = Nil
      BY <1>15, <3>1 DEF CloseShared
    <3>2. CASE shared # Nil
      <4>1. sendChan[shared] \in Chans \union {Nil}
        BY <2>1, <3>2 DEF Chans, Conns
      <4>2. closed' \subseteq Chans /\ conn' \in [Conns -> {"none", "open", "closed"}]
        BY <1>15, <3>2, <4>1 DEF CloseShared
      <4> QED
        BY <1>15, <4>2 DEF CloseShared
    <3> QED
      BY <3>1, <3>2
<1>16. CASE AskShutdown \/ DeleteWorker
  BY <1>16 DEF AskShutdown, DeleteWorker
<1> QED
  BY <1>1, <1>2, <1>3, <1>4, <1>4a, <1>5, <1>6, <1>7, <1>8, <1>9, <1>10, <1>11, <1>12, <1>13,
     <1>14, <1>15, <1>16 DEF Next, Acts, HandlerStep, Disconnect, Senders

\* Every step keeps what the session knows in line with its handlers.
LEMMA LinkStep == TypeOK /\ TypeOK' /\ LinkInv /\ [Next]_vars => LinkInv'
<1> SUFFICES ASSUME TypeOK, TypeOK', LinkInv, [Next]_vars PROVE LinkInv'
  OBVIOUS
<1> USE NilFacts, SessionAssumption
    DEF LinkInv, Busy, Goroutines, Step, sessVars, chanVars, connVars, goVars, lifeVars
<1>0. CASE UNCHANGED <<pc, from, info, shared, fileMap, sink>>
  BY <1>0
<1>1. ASSUME NEW m \in Msgs, Receive(m) PROVE LinkInv'
  BY <1>1 DEF Receive, TypeOK
<1>2. ASSUME NEW m \in Msgs, Parse(m) PROVE LinkInv'
  BY <1>2 DEF Parse, TypeOK
<1>3. ASSUME NEW m \in Msgs, SpawnerStarts(m) PROVE LinkInv'
  BY <1>3 DEF SpawnerStarts, TypeOK
<1>4. ASSUME NEW m \in Msgs, StartFails(m) PROVE LinkInv'
  BY <1>4 DEF StartFails, TypeOK
<1>5. ASSUME NEW m \in Msgs, StartAnswered(m) PROVE LinkInv'
  BY <1>5 DEF StartAnswered, TypeOK
<1>6. ASSUME NEW m \in Msgs, DialFails(m) PROVE LinkInv'
  BY <1>6 DEF DialFails, TypeOK
<1>7. ASSUME NEW m \in Msgs, Dial(m) PROVE LinkInv'
  BY <1>7 DEF Dial, Connect, TypeOK
<1>8. ASSUME NEW m \in Msgs, MakeChan(m) PROVE LinkInv'
  <2>1. Target(m) \in Msgs
    BY <1>8 DEF MakeChan, Target, TypeOK
  <2> QED
    BY <1>8, <2>1 DEF MakeChan, TypeOK, Chans, Conns
<1>8a. ASSUME NEW m \in Msgs, StartSender(m) PROVE LinkInv'
  BY <1>8a DEF StartSender, Initialised, TypeOK
<1>9. ASSUME NEW m \in Msgs, MakeMap(m) PROVE LinkInv'
  BY <1>9 DEF MakeMap, TypeOK
<1>10. ASSUME NEW m \in Msgs, PutBegin(m) PROVE LinkInv'
  BY <1>10 DEF PutBegin, TypeOK
<1>11. ASSUME NEW m \in Msgs, PutEnd(m) PROVE LinkInv'
  BY <1>11 DEF PutEnd, TypeOK
<1>12. ASSUME NEW m \in Msgs, SendRegister(m) PROVE LinkInv'
  BY <1>12 DEF SendRegister, TypeOK
<1>13. ASSUME NEW m \in Msgs, Proxy(m) PROVE LinkInv'
  BY <1>13 DEF Proxy, TypeOK
<1>14. ASSUME NEW m \in Msgs, QueryStatus(m) PROVE LinkInv'
  BY <1>14 DEF QueryStatus, TypeOK
<1>15. ASSUME NEW r \in Replies, NEW w \in Msgs, WorkerSends(r, w) PROVE LinkInv'
  BY <1>15 DEF WorkerSends, TypeOK
<1>16. ASSUME NEW r \in Replies, Answer(r) PROVE LinkInv'
  BY <1>16 DEF Answer, TypeOK
<1>17. ASSUME NEW a \in Goroutines, Send(a) PROVE LinkInv'
  BY <1>17 DEF Send, TypeOK
<1> QED
  BY <1>0, <1>1, <1>2, <1>3, <1>4, <1>5, <1>6, <1>7, <1>8, <1>8a, <1>9, <1>10, <1>11, <1>12, <1>13, <1>14, <1>15, <1>16, <1>17
     DEF Next, Acts, HandlerStep, SendStep, Disconnect, MapRace, SendPanics, WritePanics, ReadPanics, PongPanics,
         Crash, Take, Write, PongBegin, PongEnd, WorkerExits, WorkerOrphaned, ClientLeaves, CloseClientChan,
         Check, CloseShared, AskShutdown, DeleteWorker, vars

\* The types and the links are an invariant by themselves.
THEOREM LinksInvariant == Spec => [](TypeOK /\ LinkInv)
<1>1. TypeOK /\ LinkInv /\ [Next]_vars => (TypeOK /\ LinkInv)'
  BY TypeStep, LinkStep
<1> QED
  BY InitLinks, <1>1, PTL DEF Spec

\* Every variable keeps its type; no channel holds more than its capacity.
THEOREM SessionTypeOK == Spec => []TypeOK
  BY LinksInvariant, PTL

\* No worker is connected while the session has no id to stop.
THEOREM ConnectedHasInfoHolds == Spec => []ConnectedHasInfo
<1>1. LinkInv => ConnectedHasInfo
  BY DEF LinkInv, ConnectedHasInfo
<1> QED
  BY LinksInvariant, <1>1, PTL

-----------------------------------------------------------------------------
(* WorkersGetTheirOwn. *)

\* Where a handler can be before it has made its channel.
Early == {"idle", "received", "starting", "started", "dialing", "ready"}

\* Which worker a channel, a field of the session and an ack are of.
WireInv ==
  /\ \A m \in Msgs : /\ pc[m] \in Early => sink[m] = Nil
                     /\ pc[m] \in Early \union {"made"} => drains[m] = Nil
  /\ \A w \in Msgs : sendChan[w] # Nil => sink[sendChan[w]] = w
  /\ sink[Client] = Client /\ drains[Client] = Client
  /\ \A s \in Senders : drains[s] # Nil => sink[s] # Nil /\ sink[drains[s]] = sink[s]
  /\ \A m \in Msgs : sink[m] # Nil => sink[m] \in Msgs /\ sendChan[sink[m]] # Nil
  /\ shared # Nil => Kind[shared] = "register"
  /\ \A f \in Files : fileMap[f] # Nil => Kind[fileMap[f]] = "open" /\ File[fileMap[f]] = f
  /\ \A r \in ack : pc[r] # "idle" /\ (Kind[from[r]] = "open" => from[r] \in got[from[r]])

\* What is sent, queued, being written and delivered.
RouteInv ==
  /\ \A a \in Goroutines : dest[a] # Nil =>
       pc[a] \in {"sending", "sent"} /\ sink[dest[a]] # Nil /\ Belongs(a, sink[dest[a]])
  /\ \A c \in Chans : \A i \in DOMAIN buf[c] : dest[buf[c][i]] = c
  /\ \A s \in Senders : hand[s] # Nil => dest[hand[s]] = drains[s] /\ drains[s] # Nil
  /\ \A k \in Conns : \A a \in got[k] : pc[a] # "idle" /\ Belongs(a, k)

\* Where a handler is before it has connected to its worker.
PreDial == {"idle", "received", "starting", "started", "dialing"}

\* Who is at the other end of a worker connection.
RemoteInv ==
  \A m \in Msgs :
    /\ pc[m] \in PreDial => remote[m] = Nil
    /\ conn[m] = "open" \/ got[m] # {} => remote[m] # Nil
    /\ remote[m] \in {Nil, m} \/ m \notin alive

IInv == TypeOK /\ LinkInv /\ WireInv /\ RouteInv

\* At first only the client's sender is wired, and nothing has been sent.
LEMMA InitRoutes == Init => WireInv /\ RouteInv
<1> SUFFICES ASSUME Init PROVE WireInv /\ RouteInv
  OBVIOUS
<1>1. WireInv
  BY NilFacts DEF Init, WireInv, Early, Goroutines, Chans, Conns, Senders
<1>2. RouteInv
  BY DEF Init, RouteInv
<1> QED
  BY <1>1, <1>2

\* The wiring only grows: a channel is made once, and never changes hands.
LEMMA WireStep == IInv /\ TypeOK' /\ LinkInv' /\ [Next]_vars => WireInv'
<1> SUFFICES ASSUME IInv, TypeOK', LinkInv', [Next]_vars PROVE WireInv'
  OBVIOUS
<1> USE NilFacts, SessionAssumption
    DEF WireInv, Early, Goroutines, Chans, Conns, Step, sessVars, chanVars, connVars, goVars, lifeVars
<1>k. TypeOK /\ LinkInv /\ WireInv /\ RouteInv
  BY DEF IInv
<1>0. CASE UNCHANGED <<pc, from, ack, shared, fileMap, sendChan, sink, drains, got>>
  BY <1>0, <1>k
<1>1. ASSUME NEW m \in Msgs, Receive(m) PROVE WireInv'
  BY <1>1, <1>k DEF Receive, TypeOK
<1>2. ASSUME NEW m \in Msgs, Parse(m) PROVE WireInv'
  BY <1>2, <1>k DEF Parse, TypeOK
<1>3. ASSUME NEW m \in Msgs, SpawnerStarts(m) PROVE WireInv'
  BY <1>3, <1>k DEF SpawnerStarts, TypeOK
<1>4. ASSUME NEW m \in Msgs, StartFails(m) PROVE WireInv'
  BY <1>4, <1>k DEF StartFails, TypeOK
<1>5. ASSUME NEW m \in Msgs, StartAnswered(m) PROVE WireInv'
  BY <1>5, <1>k DEF StartAnswered, TypeOK
<1>6. ASSUME NEW m \in Msgs, DialFails(m) PROVE WireInv'
  BY <1>6, <1>k DEF DialFails, TypeOK
<1>7. ASSUME NEW m \in Msgs, Dial(m) PROVE WireInv'
  BY <1>7, <1>k DEF Dial, Connect, TypeOK
<1>8. ASSUME NEW m \in Msgs, MakeChan(m) PROVE WireInv'
  <2>1. Target(m) \in Msgs /\ pc[m] = "ready" /\ sink[m] = Nil
    BY <1>8, <1>k DEF MakeChan, Target, TypeOK, LinkInv, Busy
  <2>2. /\ sink' = [sink EXCEPT ![m] = Target(m)]
        /\ sendChan' = [sendChan EXCEPT ![Target(m)] = m]
        /\ UNCHANGED <<drains, from, ack, shared, fileMap, got>>
    BY <1>8 DEF MakeChan
  <2>3. \A b \in Goroutines : b # m => pc'[b] = pc[b]
    BY <1>8, <1>k DEF MakeChan, TypeOK
  <2>4. pc'[m] = "made"
    BY <1>8, <1>k DEF MakeChan, TypeOK
  <2>5. \A c \in Chans : c # m => sink'[c] = sink[c]
    BY <2>2, <1>k DEF TypeOK
  <2>6. sink'[m] = Target(m)
    BY <2>2, <1>k DEF TypeOK
  <2>7. \A w \in Msgs : sendChan'[w] = IF w = Target(m) THEN m ELSE sendChan[w]
    BY <2>2, <1>k DEF TypeOK
  <2>8. \A s \in Senders : drains[s] # Nil => s # m /\ drains[s] # m /\ drains[s] \in Chans
    <3> SUFFICES ASSUME NEW s \in Senders, drains[s] # Nil
                 PROVE  s # m /\ drains[s] # m /\ drains[s] \in Chans
      OBVIOUS
    <3>1. drains[s] \in Chans
      BY <1>k DEF TypeOK
    <3>2. sink[s] # Nil /\ sink[drains[s]] = sink[s]
      BY <1>k
    <3> QED
      BY <2>1, <3>1, <3>2
  <2>9. \A w \in Msgs : sendChan'[w] # Nil => sink'[sendChan'[w]] = w
    <3> SUFFICES ASSUME NEW w \in Msgs, sendChan'[w] # Nil PROVE sink'[sendChan'[w]] = w
      OBVIOUS
    <3>1. CASE w = Target(m)
      BY <3>1, <2>6, <2>7
    <3>2. CASE w # Target(m)
      <4>1. sendChan'[w] = sendChan[w] /\ sendChan[w] \in Msgs /\ sink[sendChan[w]] = w
        BY <3>2, <2>7, <1>k DEF TypeOK
      <4>2. sendChan[w] # m
        BY <4>1, <2>1
      <4> QED
        BY <4>1, <4>2, <2>5
    <3> QED
      BY <3>1, <3>2
  <2>10. \A s \in Senders : drains'[s] # Nil => sink'[s] # Nil /\ sink'[drains'[s]] = sink'[s]
    BY <2>2, <2>5, <2>8, <1>k DEF Senders
  <2>11. \A b \in Msgs : sink'[b] # Nil => sink'[b] \in Msgs /\ sendChan'[sink'[b]] # Nil
    BY <2>1, <2>5, <2>6, <2>7, <1>k
  <2>12. \A b \in Msgs : /\ pc'[b] \in Early => sink'[b] = Nil
                         /\ pc'[b] \in Early \union {"made"} => drains'[b] = Nil
    BY <2>1, <2>2, <2>3, <2>4, <2>5, <1>k
  <2>13. sink'[Client] = Client /\ drains'[Client] = Client
    BY <2>2, <2>5, <1>k
  <2>14. \A r \in ack' : pc'[r] # "idle" /\ (Kind[from'[r]] = "open" => from'[r] \in got'[from'[r]])
    BY <2>2, <2>3, <1>k DEF TypeOK
  <2> QED
    BY <2>2, <2>9, <2>10, <2>11, <2>12, <2>13, <2>14, <1>k
<1>8a. ASSUME NEW m \in Msgs, StartSender(m) PROVE WireInv'
  <2>1. /\ sink[m] \in Msgs /\ sendChan[sink[m]] # Nil /\ sink[sendChan[sink[m]]] = sink[m]
        /\ sendChan[sink[m]] \in Msgs
    BY <1>8a, <1>k DEF StartSender, LinkInv, TypeOK
  <2>2. /\ drains' = [drains EXCEPT ![m] = sendChan[sink[m]]]
        /\ UNCHANGED <<sink, sendChan, from, ack, shared, fileMap, got>>
    BY <1>8a DEF StartSender
  <2>3. \A s \in Senders : drains'[s] = IF s = m THEN sendChan[sink[m]] ELSE drains[s]
    BY <2>2, <1>k DEF TypeOK, Senders
  <2>4. /\ \A b \in Goroutines : b # m => pc'[b] = pc[b]
        /\ pc'[m] \in {"running", "putting", "making"}
    BY <1>8a, <1>k DEF StartSender, Initialised, TypeOK
  <2>5. \A t \in Senders : drains'[t] # Nil => sink'[t] # Nil /\ sink'[drains'[t]] = sink'[t]
    BY <2>1, <2>2, <2>3, <1>k
  <2>6. \A b \in Msgs : /\ pc'[b] \in Early => sink'[b] = Nil
                        /\ pc'[b] \in Early \union {"made"} => drains'[b] = Nil
    BY <2>2, <2>3, <2>4, <1>k DEF Senders
  <2>7. \A r \in ack' : pc'[r] # "idle" /\ (Kind[from'[r]] = "open" => from'[r] \in got'[from'[r]])
    BY <2>2, <2>4, <1>k DEF TypeOK
  <2>8. drains'[Client] = Client
    BY <2>3, <1>k DEF Senders
  <2> QED
    BY <2>2, <2>5, <2>6, <2>7, <2>8, <1>k
<1>9. ASSUME NEW m \in Msgs, MakeMap(m) PROVE WireInv'
  BY <1>9, <1>k DEF MakeMap, TypeOK
<1>10. ASSUME NEW m \in Msgs, PutBegin(m) PROVE WireInv'
  <2>1. Kind[m] = "open"
    BY <1>10, <1>k DEF PutBegin, LinkInv
  <2>2. \A f \in Files : fileMap'[f] = IF f = File[m] THEN m ELSE fileMap[f]
    BY <1>10, <1>k DEF PutBegin, TypeOK
  <2>3. \A f \in Files : fileMap'[f] # Nil => Kind[fileMap'[f]] = "open" /\ File[fileMap'[f]] = f
    BY <2>1, <2>2, <1>k
  <2> QED
    BY <1>10, <2>3, <1>k DEF PutBegin, TypeOK
<1>11. ASSUME NEW m \in Msgs, PutEnd(m) PROVE WireInv'
  BY <1>11, <1>k DEF PutEnd, TypeOK
<1>12. ASSUME NEW m \in Msgs, SendRegister(m) PROVE WireInv'
  BY <1>12, <1>k DEF SendRegister, TypeOK
<1>13. ASSUME NEW m \in Msgs, Proxy(m) PROVE WireInv'
  BY <1>13, <1>k DEF Proxy, TypeOK
<1>14. ASSUME NEW m \in Msgs, QueryStatus(m) PROVE WireInv'
  BY <1>14, <1>k DEF QueryStatus, TypeOK
<1>15. ASSUME NEW r \in Replies, NEW w \in Msgs, WorkerSends(r, w) PROVE WireInv'
  <2>1. /\ UNCHANGED <<sink, drains, sendChan, shared, fileMap, got>>
        /\ pc' = [pc EXCEPT ![r] = "received"] /\ from' = [from EXCEPT ![r] = w]
    BY <1>15 DEF WorkerSends
  <2>2. ack' # ack => (Kind[w] = "open" => w \in got[w])
    <3> SUFFICES ASSUME Kind[w] = "open", ack' # ack PROVE w \in got[w]
      OBVIOUS
    <3>1. PICK m \in got[w] \intersect Msgs : Kind[m] # "proxied"
      BY <1>15 DEF WorkerSends
    <3>2. Belongs(m, w)
      BY <3>1, <1>k DEF RouteInv
    <3>3. m \notin ack
      BY <3>1, <1>k DEF TypeOK
    <3> QED
      BY <3>1, <3>2, <3>3 DEF Belongs
  <2>3. \A m \in Msgs : pc'[m] = pc[m]
    BY <2>1, <1>k DEF TypeOK
  <2>4. \A q \in ack' : pc'[q] # "idle" /\ (Kind[from'[q]] = "open" => from'[q] \in got[from'[q]])
    <3>1. pc'[r] # "idle" /\ from'[r] = w /\ r \notin ack
      BY <1>15, <2>1, <1>k DEF WorkerSends, TypeOK
    <3>2. \A q \in ack : q \in Replies /\ q # r /\ pc'[q] = pc[q] /\ from'[q] = from[q]
      BY <2>1, <3>1, <1>k DEF TypeOK
    <3>3. ack' = ack \/ ack' = ack \union {r}
      BY <1>15 DEF WorkerSends
    <3> QED
      BY <2>2, <3>1, <3>2, <3>3, <1>k
  <2> QED
    BY <2>1, <2>3, <2>4, <1>k
<1>16. ASSUME NEW r \in Replies, Answer(r) PROVE WireInv'
  BY <1>16, <1>k DEF Answer, TypeOK
<1>17. ASSUME NEW a \in Goroutines, Send(a) PROVE WireInv'
  BY <1>17, <1>k DEF Send, TypeOK
<1>18. ASSUME NEW c \in Senders, Write(c) PROVE WireInv'
  BY <1>18, <1>k DEF Write, TypeOK
<1> QED
  BY <1>0, <1>1, <1>2, <1>3, <1>4, <1>5, <1>6, <1>7, <1>8, <1>8a, <1>9, <1>10, <1>11, <1>12, <1>13, <1>14, <1>15, <1>16, <1>17, <1>18
     DEF Next, Acts, HandlerStep, SendStep, Disconnect, MapRace, SendPanics, WritePanics, ReadPanics, PongPanics,
         Crash, Take, PongBegin, PongEnd, WorkerExits, WorkerOrphaned, ClientLeaves, CloseClientChan,
         Check, CloseShared, AskShutdown, DeleteWorker, vars

\* What belongs somewhere goes on to.
LEMMA BelongsStays ==
  ASSUME NEW a, NEW k, TypeOK, Belongs(a, k),
         ack \subseteq ack', a \notin ack' \ ack,
         a \in Replies => from'[a] = from[a], k \in Conns => got[k] \subseteq got'[k],
         k \in Conns
  PROVE  Belongs(a, k)'
  BY DEF Belongs, TypeOK

\* What a queue holds when one more joins it, and when its first leaves.
LEMMA AppendElements ==
  ASSUME NEW S, NEW q \in Seq(S), NEW a \in S, NEW i \in DOMAIN Append(q, a)
  PROVE  Append(q, a)[i] = a \/ (i \in DOMAIN q /\ Append(q, a)[i] = q[i])
<1>1. Len(q) \in Nat /\ DOMAIN q = 1 .. Len(q)
  OBVIOUS
<1>2. DOMAIN Append(q, a) = 1 .. (Len(q) + 1)
  <2>1. Append(q, a) \in Seq(S) /\ Len(Append(q, a)) = Len(q) + 1
    OBVIOUS
  <2> QED
    BY <2>1
<1>3. CASE i = Len(q) + 1
  BY <1>1, <1>3
<1>4. CASE i # Len(q) + 1
  <2>1. i \in 1 .. Len(q)
    BY <1>1, <1>2, <1>4
  <2>2. Append(q, a)[i] = q[i]
    BY <2>1
  <2> QED
    BY <1>1, <2>1, <2>2
<1> QED
  BY <1>3, <1>4

LEMMA TailElements ==
  ASSUME NEW S, NEW q \in Seq(S), q # <<>>
  PROVE  /\ Head(q) = q[1] /\ 1 \in DOMAIN q
         /\ \A i \in DOMAIN Tail(q) : i + 1 \in DOMAIN q /\ Tail(q)[i] = q[i + 1]
  OBVIOUS

\* Every message is sent where it belongs, and stays on its way there.
LEMMA RouteStep == IInv /\ TypeOK' /\ [Next]_vars => RouteInv'
<1> SUFFICES ASSUME IInv, TypeOK', [Next]_vars PROVE RouteInv'
  OBVIOUS
<1> USE NilFacts, SessionAssumption
    DEF Goroutines, Chans, Conns, Senders, Step, sessVars, chanVars, connVars, goVars, lifeVars
<1>k. TypeOK /\ LinkInv /\ WireInv /\ RouteInv
  BY DEF IInv
<1>0. CASE UNCHANGED <<pc, dest, from, ack, sink, drains, buf, hand, got>>
  BY <1>0, <1>k DEF RouteInv, Belongs
<1>pc. ASSUME NEW m \in Msgs, NEW here, NEW there, Step(m, here, there),
              here \in {"idle"} \union Early \union Busy,
              there # "idle",
              UNCHANGED <<dest, from, ack, sink, drains, buf, hand, got>>
       PROVE  RouteInv'
  BY <1>pc, <1>k DEF RouteInv, Belongs, TypeOK, Early, Busy
<1>1. ASSUME NEW m \in Msgs, Receive(m) PROVE RouteInv'
  BY <1>1, <1>pc DEF Receive, Early, Busy
<1>2. ASSUME NEW m \in Msgs, Parse(m) PROVE RouteInv'
  BY <1>2, <1>pc DEF Parse, Early, Busy
<1>3. ASSUME NEW m \in Msgs, SpawnerStarts(m) PROVE RouteInv'
  BY <1>3, <1>pc DEF SpawnerStarts, Early, Busy
<1>4. ASSUME NEW m \in Msgs, StartFails(m) PROVE RouteInv'
  BY <1>4, <1>pc DEF StartFails, Early, Busy
<1>5. ASSUME NEW m \in Msgs, StartAnswered(m) PROVE RouteInv'
  BY <1>5, <1>pc DEF StartAnswered, Early, Busy
<1>6. ASSUME NEW m \in Msgs, DialFails(m) PROVE RouteInv'
  BY <1>6, <1>pc DEF DialFails, Early, Busy
<1>7. ASSUME NEW m \in Msgs, Dial(m) PROVE RouteInv'
  BY <1>7, <1>pc DEF Dial, Connect, Early, Busy
<1>8. ASSUME NEW m \in Msgs, MakeMap(m) PROVE RouteInv'
  BY <1>8, <1>pc DEF MakeMap, Early, Busy
<1>9. ASSUME NEW m \in Msgs, PutBegin(m) PROVE RouteInv'
  BY <1>9, <1>pc DEF PutBegin, Early, Busy
<1>10. ASSUME NEW m \in Msgs, PutEnd(m) PROVE RouteInv'
  BY <1>10, <1>pc DEF PutEnd, Early, Busy
<1>11. ASSUME NEW m \in Msgs, QueryStatus(m) PROVE RouteInv'
  BY <1>11, <1>pc DEF QueryStatus, Early, Busy
<1>12. ASSUME NEW m \in Msgs, MakeChan(m) PROVE RouteInv'
  <2>1. sink[m] = Nil /\ pc[m] = "ready"
    BY <1>12, <1>k DEF MakeChan, WireInv, Early
  <2>2. \A c \in Chans \ {m} : sink'[c] = sink[c]
    BY <1>12, <1>k DEF MakeChan, TypeOK
  <2>3. UNCHANGED <<dest, from, ack, buf, drains, hand, got>>
    BY <1>12 DEF MakeChan
  <2>4. \A a \in Goroutines : /\ pc[a] \in {"sending", "sent"} => pc'[a] = pc[a]
                              /\ pc[a] # "idle" => pc'[a] # "idle"
    BY <1>12, <2>1, <1>k DEF MakeChan, TypeOK
  <2>5. \A a \in Goroutines : dest[a] # Nil => dest[a] \in Chans \ {m}
    <3> SUFFICES ASSUME NEW a \in Goroutines, dest[a] # Nil PROVE dest[a] \in Chans \ {m}
      OBVIOUS
    <3>1. dest[a] \in Chans
      BY <1>k DEF TypeOK
    <3>2. sink[dest[a]] # Nil
      BY <1>k DEF RouteInv
    <3> QED
      BY <2>1, <3>1, <3>2
  <2>6. \A a, k : Belongs(a, k)' <=> Belongs(a, k)
    BY <2>3 DEF Belongs
  <2> QED
    BY <2>2, <2>3, <2>4, <2>5, <2>6, <1>k DEF RouteInv, TypeOK
<1>12a. ASSUME NEW m \in Msgs, StartSender(m) PROVE RouteInv'
  <2>1. sink[m] # Nil /\ pc[m] = "made" /\ drains[m] = Nil
    BY <1>12a, <1>k DEF StartSender, LinkInv, WireInv
  <2>2. \A s \in Senders \ {m} : drains'[s] = drains[s]
    BY <1>12a, <1>k DEF StartSender, TypeOK
  <2>3. UNCHANGED <<dest, from, ack, sink, buf, hand, got>>
    BY <1>12a DEF StartSender
  <2>4. \A a \in Goroutines : /\ pc[a] \in {"sending", "sent"} => pc'[a] = pc[a]
                              /\ pc[a] # "idle" => pc'[a] # "idle"
    BY <1>12a, <2>1, <1>k DEF StartSender, Initialised, TypeOK
  <2>5. \A s \in Senders : hand[s] # Nil => s # m
    BY <2>1, <1>k DEF RouteInv
  <2>6. \A a, k : Belongs(a, k)' <=> Belongs(a, k)
    BY <2>3 DEF Belongs
  <2> QED
    BY <2>2, <2>3, <2>4, <2>5, <2>6, <1>k DEF RouteInv, TypeOK
<1>send. ASSUME NEW a \in Goroutines, NEW c \in Chans \union {Nil},
                pc[a] \in {"received", "running"}, Step(a, pc[a], "sending"),
                dest' = [dest EXCEPT ![a] = c],
                c # Nil => sink[c] # Nil /\ Belongs(a, sink[c]),
                UNCHANGED <<from, ack, sink, drains, buf, hand, got>>
         PROVE  RouteInv'
  <2>1. dest[a] = Nil
    BY <1>send, <1>k DEF RouteInv
  <2>2. \A b \in Goroutines \ {a} : dest'[b] = dest[b] /\ pc'[b] = pc[b]
    BY <1>send, <1>k DEF TypeOK
  <2>3. dest'[a] = c /\ pc'[a] = "sending"
    BY <1>send, <1>k DEF TypeOK
  <2>4. \A b, k : Belongs(b, k)' <=> Belongs(b, k)
    BY <1>send DEF Belongs
  <2>5. \A d \in Chans : \A i \in DOMAIN buf[d] : buf[d][i] \in Goroutines \ {a}
    <3> SUFFICES ASSUME NEW d \in Chans, NEW i \in DOMAIN buf[d]
                 PROVE  buf[d][i] \in Goroutines \ {a}
      OBVIOUS
    <3> DEFINE b == buf[d][i]
    <3>1. buf[d] \in Seq(Goroutines)
      BY <1>k DEF TypeOK
    <3>2. b \in Goroutines
      BY <3>1
    <3>3. dest[b] = d /\ d # Nil
      BY NilFacts, <1>k DEF RouteInv
    <3> HIDE DEF b
    <3>4. b # a
      BY <2>1, <3>3
    <3>5. b \in Goroutines \ {a}
      BY <3>2, <3>4
    <3> QED
      BY <3>5 DEF b
  <2>5a. \A s \in Senders : hand[s] # Nil => hand[s] \in Goroutines \ {a}
    <3> SUFFICES ASSUME NEW s \in Senders, hand[s] # Nil
                 PROVE  hand[s] \in Goroutines \ {a}
      OBVIOUS
    <3>1. hand[s] \in Goroutines
      BY <1>k DEF TypeOK
    <3>2. dest[hand[s]] = drains[s] /\ drains[s] # Nil
      BY <1>k DEF RouteInv
    <3> QED
      BY <2>1, <3>1, <3>2
  <2>6. /\ \A d \in Chans : \A i \in DOMAIN buf'[d] : dest'[buf'[d][i]] = d
        /\ \A s \in Senders : hand'[s] # Nil => dest'[hand'[s]] = drains'[s] /\ drains'[s] # Nil
    BY <1>send, <2>2, <2>5, <2>5a, <1>k DEF RouteInv
  <2>7. \A b \in Goroutines : dest'[b] # Nil =>
          pc'[b] \in {"sending", "sent"} /\ sink'[dest'[b]] # Nil /\ Belongs(b, sink[dest[b]])'
    BY <1>send, <2>2, <2>3, <2>4, <1>k DEF RouteInv
  <2>8. \A k \in Conns : \A b \in got'[k] : pc'[b] # "idle" /\ Belongs(b, k)'
    BY <1>send, <2>2, <2>3, <2>4, <1>k DEF RouteInv, TypeOK
  <2> QED
    BY <2>6, <2>7, <2>8 DEF RouteInv
<1>13. ASSUME NEW m \in Msgs, SendRegister(m) PROVE RouteInv'
  <2>1. /\ Kind[m] \in {"register", "open"}
        /\ Target(m) \in Msgs
        /\ Kind[m] = "register" => Kind[Target(m)] = "register"
        /\ Kind[m] = "open" => Target(m) = m
    BY <1>13, <1>k DEF SendRegister, Target, LinkInv, WireInv, Busy, TypeOK
  <2>2. sendChan[Target(m)] \in Chans \union {Nil}
    BY <2>1, <1>k DEF TypeOK
  <2>3. sendChan[Target(m)] # Nil => sink[sendChan[Target(m)]] = Target(m)
    BY <2>1, <1>k DEF WireInv
  <2>4. Belongs(m, Target(m))
    BY <2>1 DEF Belongs
  <2> QED
    BY <1>13, <2>1, <2>2, <2>3, <2>4, <1>send DEF SendRegister
<1>14. ASSUME NEW m \in Msgs, Proxy(m) PROVE RouteInv'
  <2>1. CASE Route(m) = Nil
    BY <1>14, <2>1, <1>pc DEF Proxy, Early
  <2>2. CASE Route(m) # Nil
    <3>1. /\ Route(m) \in Msgs
          /\ \/ Kind[Route(m)] = "register"
             \/ Kind[Route(m)] = "open" /\ File[Route(m)] = File[m]
      BY <2>2, <1>k DEF Route, WireInv, TypeOK
    <3>2. Belongs(m, Route(m))
      BY <1>14, <3>1 DEF Belongs, Proxy
    <3>3. sendChan[Route(m)] \in Chans \union {Nil}
      BY <3>1, <1>k DEF TypeOK
    <3>4. sendChan[Route(m)] # Nil => sink[sendChan[Route(m)]] = Route(m)
      BY <3>1, <1>k DEF WireInv
    <3> QED
      BY <1>14, <2>2, <3>1, <3>2, <3>3, <3>4, <1>send DEF Proxy
  <2> QED
    BY <2>1, <2>2
<1>15. ASSUME NEW r \in Replies, NEW w \in Msgs, WorkerSends(r, w) PROVE RouteInv'
  <2>1. /\ pc[r] = "idle" /\ ack \subseteq ack' /\ ack' \ ack \subseteq {r}
        /\ UNCHANGED <<dest, sink, drains, buf, hand, got>>
    BY <1>15 DEF WorkerSends
  <2>2. \A b \in Goroutines \ {r} : pc'[b] = pc[b]
    BY <1>15, <1>k DEF WorkerSends, TypeOK
  <2>3. \A b \in Replies \ {r} : from'[b] = from[b]
    BY <1>15, <1>k DEF WorkerSends, TypeOK
  <2>4. \A b \in Goroutines \ {r}, k \in Conns : Belongs(b, k) => Belongs(b, k)'
    BY <2>1, <2>3, <1>k, BelongsStays
  <2>5. dest[r] = Nil /\ \A k \in Conns : r \notin got[k]
    BY <2>1, <1>k DEF RouteInv
  <2>6. \A b \in Goroutines : dest'[b] # Nil =>
          pc'[b] \in {"sending", "sent"} /\ sink'[dest'[b]] # Nil /\ Belongs(b, sink[dest[b]])'
    <3> SUFFICES ASSUME NEW b \in Goroutines, dest[b] # Nil
                 PROVE  pc'[b] \in {"sending", "sent"} /\ sink[dest[b]] # Nil /\ Belongs(b, sink[dest[b]])'
      BY <2>1
    <3>1. b # r /\ sink[dest[b]] \in Conns /\ Belongs(b, sink[dest[b]])
      <4>1. dest[b] \in Chans
        BY <1>k DEF TypeOK
      <4>2. sink[dest[b]] # Nil /\ Belongs(b, sink[dest[b]])
        BY <1>k DEF RouteInv
      <4>3. sink[dest[b]] \in Conns
        BY <4>1, <4>2, <1>k DEF TypeOK
      <4> QED
        BY <2>5, <4>2, <4>3
    <3>2. Belongs(b, sink[dest[b]])'
      <4> DEFINE k == sink[dest[b]]
      <4>1. k' = k
        BY <2>1
      <4>2. Belongs(b, k)
        BY <3>1
      <4> QED
        BY <3>1, <2>4, <4>1, <4>2
    <3> QED
      BY <2>2, <3>1, <3>2, <1>k DEF RouteInv
  <2>7. \A k \in Conns : \A b \in got'[k] : pc'[b] # "idle" /\ Belongs(b, k)'
    <3> SUFFICES ASSUME NEW k \in Conns, NEW b \in got[k]
                 PROVE  pc'[b] # "idle" /\ Belongs(b, k)'
      BY <2>1
    <3>1. b \in Goroutines \ {r}
      <4>1. got[k] \in SUBSET Goroutines
        BY <1>k DEF TypeOK
      <4> QED
        BY <2>5, <4>1
    <3>2. pc[b] # "idle" /\ Belongs(b, k)
      BY <1>k DEF RouteInv
    <3> QED
      BY <2>2, <2>4, <3>1, <3>2
  <2> QED
    BY <2>1, <2>6, <2>7, <1>k DEF RouteInv
<1>16. ASSUME NEW r \in Replies, Answer(r) PROVE RouteInv'
  <2> DEFINE c == IF r \in ack /\ Kind[from[r]] = "open" THEN sendChan[from[r]] ELSE Client
  <2>1. c \in Chans \union {Nil}
    BY <1>16, <1>k DEF Answer, TypeOK, LinkInv
  <2>2. c # Nil => sink[c] # Nil /\ Belongs(r, sink[c])
    <3>1. CASE r \in ack /\ Kind[from[r]] = "open"
      <4>1. from[r] \in Msgs /\ from[r] \in got[from[r]]
        BY <1>16, <3>1, <1>k DEF Answer, LinkInv, WireInv
      <4>2. c # Nil => sink[c] = from[r]
        BY <3>1, <4>1, <1>k DEF WireInv
      <4>3. Belongs(r, from[r])
        BY <3>1, <4>1 DEF Belongs
      <4> QED
        BY <4>1, <4>2, <4>3
    <3>2. CASE ~(r \in ack /\ Kind[from[r]] = "open")
      BY <3>2, <1>k DEF WireInv, Belongs
    <3> QED
      BY <3>1, <3>2
  <2>3. dest' = [dest EXCEPT ![r] = c]
    BY <1>16 DEF Answer
  <2> HIDE DEF c
  <2> QED
    BY <1>16, <2>1, <2>2, <2>3, <1>send DEF Answer
<1>17. ASSUME NEW a \in Goroutines, Send(a) PROVE RouteInv'
  <2> DEFINE c == dest[a]
  <2>1. c \in Chans /\ UNCHANGED <<dest, from, ack, sink, drains, hand, got>>
    BY <1>17, <1>k DEF Send, TypeOK
  <2>2. /\ pc'[a] = "sent" /\ \A b \in Goroutines \ {a} : pc'[b] = pc[b]
        /\ \A d \in Chans \ {c} : buf'[d] = buf[d]
        /\ buf'[c] = Append(buf[c], a)
    BY <1>17, <2>1, <1>k DEF Send, TypeOK
  <2>3. ASSUME NEW i \in DOMAIN buf'[c] PROVE dest[buf'[c][i]] = c
    <3>1. buf[c] \in Seq(Goroutines)
      BY <2>1, <1>k DEF TypeOK
    <3>2. buf'[c][i] = a \/ (i \in DOMAIN buf[c] /\ buf'[c][i] = buf[c][i])
      <4> DEFINE q == buf[c]
      <4>1. q \in Seq(Goroutines) /\ buf'[c] = Append(q, a) /\ i \in DOMAIN Append(q, a)
        BY <2>2, <3>1
      <4> HIDE DEF q
      <4>2. Append(q, a)[i] = a \/ (i \in DOMAIN q /\ Append(q, a)[i] = q[i])
        BY <4>1, AppendElements
      <4> QED
        BY <4>1, <4>2 DEF q
    <3> QED
      BY <2>1, <3>2, <1>k DEF RouteInv
  <2>4. \A b, k : Belongs(b, k)' <=> Belongs(b, k)
    BY <2>1 DEF Belongs
  <2>5. \A d \in Chans : \A i \in DOMAIN buf'[d] : dest'[buf'[d][i]] = d
    <3>1. ASSUME NEW d \in Chans \ {c}, NEW i \in DOMAIN buf'[d]
          PROVE  dest'[buf'[d][i]] = d
      <4>1. buf'[d] = buf[d]
        BY <2>2
      <4> QED
        BY <4>1, <2>1, <1>k DEF RouteInv
    <3>2. ASSUME NEW i \in DOMAIN buf'[c] PROVE dest'[buf'[c][i]] = c
      BY <2>1, <2>3
    <3> QED
      BY <3>1, <3>2
  <2> HIDE DEF c
  <2>6. \A b \in Goroutines : dest'[b] # Nil =>
          pc'[b] \in {"sending", "sent"} /\ sink'[dest'[b]] # Nil /\ Belongs(b, sink[dest[b]])'
    BY <2>1, <2>2, <2>4, <1>k DEF RouteInv
  <2>7. \A k \in Conns : \A b \in got'[k] : pc'[b] # "idle" /\ Belongs(b, k)'
    BY <2>1, <2>2, <2>4, <1>k DEF RouteInv, TypeOK
  <2> QED
    BY <2>1, <2>5, <2>6, <2>7, <1>k DEF RouteInv
<1>18. ASSUME NEW s \in Senders, Take(s) PROVE RouteInv'
  <2> DEFINE c == drains[s]
  <2>1. UNCHANGED <<pc, dest, from, ack, sink, drains, got>>
    BY <1>18 DEF Take
  <2>0. c \in Chans /\ c # Nil
    BY <1>18, <1>k DEF Take, TypeOK
  <2>2. /\ buf[c] \in Seq(Goroutines) /\ buf[c] # <<>>
        /\ buf'[c] = Tail(buf[c]) /\ hand'[s] = Head(buf[c])
        /\ \A d \in Chans \ {c} : buf'[d] = buf[d]
        /\ \A t \in Senders \ {s} : hand'[t] = hand[t]
    BY <1>18, <2>0, <1>k DEF Take, TypeOK
  <2> HIDE DEF c
  <2>3. hand'[s] = buf[c][1] /\ 1 \in DOMAIN buf[c]
    BY <2>2, TailElements
  <2>4. \A i \in DOMAIN buf'[c] : i + 1 \in DOMAIN buf[c] /\ buf'[c][i] = buf[c][i + 1]
    BY <2>2, TailElements
  <2>5. \A d \in Chans : \A i \in DOMAIN buf'[d] : dest'[buf'[d][i]] = d
    <3>1. ASSUME NEW i \in DOMAIN buf'[c] PROVE dest[buf'[c][i]] = c
      BY <2>0, <2>4, <1>k DEF RouteInv
    <3>3. \A d \in Chans \ {c} : \A i \in DOMAIN buf'[d] : dest[buf'[d][i]] = d
      BY <2>2, <1>k DEF RouteInv
    <3> QED
      BY <2>1, <3>1, <3>3
  <2>5a. \A t \in Senders : hand'[t] # Nil => dest'[hand'[t]] = drains'[t] /\ drains'[t] # Nil
    <3>1. dest[hand'[s]] = c
      BY <2>0, <2>3, <1>k DEF RouteInv
    <3> QED
      BY <2>0, <2>1, <2>2, <3>1, <1>k DEF RouteInv, c
  <2>6. \A b, k : Belongs(b, k)' <=> Belongs(b, k)
    BY <2>1 DEF Belongs
  <2> QED
    BY <2>1, <2>5, <2>5a, <2>6, <1>k DEF RouteInv
<1>19. ASSUME NEW s \in Senders, Write(s) PROVE RouteInv'
  <2>1. UNCHANGED <<pc, dest, from, ack, sink, drains, buf>>
    BY <1>19 DEF Write
  <2>2. hand[s] \in Goroutines /\ dest[hand[s]] = drains[s] /\ drains[s] # Nil
    BY <1>19, <1>k DEF Write, RouteInv, TypeOK
  <2>3. sink[s] \in Conns /\ Belongs(hand[s], sink[s]) /\ pc[hand[s]] # "idle"
    <3>1. sink[s] # Nil /\ sink[drains[s]] = sink[s]
      BY <2>2, <1>k DEF WireInv
    <3>2. Belongs(hand[s], sink[drains[s]]) /\ pc[hand[s]] # "idle"
      BY <2>2, <1>k DEF RouteInv
    <3> QED
      BY <3>1, <3>2, <1>k DEF TypeOK
  <2>4. \A k \in Conns : /\ got[k] \subseteq got'[k]
                         /\ got'[k] \subseteq got[k] \union (IF k = sink[s] THEN {hand[s]} ELSE {})
    BY <1>19, <1>k DEF Write, TypeOK
  <2>5. \A b \in Goroutines, k \in Conns : Belongs(b, k) => Belongs(b, k)'
    BY <2>1, <2>4, <1>k, BelongsStays
  <2>6. \A k \in Conns : \A b \in got'[k] : pc'[b] # "idle" /\ Belongs(b, k)'
    BY <2>1, <2>2, <2>3, <2>4, <2>5, <1>k DEF RouteInv, TypeOK
  <2>7. \A b \in Goroutines : dest'[b] # Nil =>
          pc'[b] \in {"sending", "sent"} /\ sink'[dest'[b]] # Nil /\ Belongs(b, sink[dest[b]])'
    BY <2>1, <2>5, <1>k DEF RouteInv, TypeOK
  <2>8. \A t \in Senders : hand'[t] # Nil => dest'[hand'[t]] = drains'[t] /\ drains'[t] # Nil
    BY <1>19, <2>1, <1>k DEF Write, RouteInv, TypeOK
  <2> QED
    BY <2>1, <2>6, <2>7, <2>8, <1>k DEF RouteInv
<1> QED
  BY <1>0, <1>1, <1>2, <1>3, <1>4, <1>5, <1>6, <1>7, <1>8, <1>9, <1>10, <1>11, <1>12, <1>12a, <1>13, <1>14, <1>15, <1>16, <1>17, <1>18, <1>19
     DEF Next, Acts, HandlerStep, SendStep, Disconnect, MapRace, SendPanics, WritePanics, ReadPanics, PongPanics,
         Crash, PongBegin, PongEnd, WorkerExits, WorkerOrphaned, ClientLeaves, CloseClientChan,
         Check, CloseShared, AskShutdown, DeleteWorker, vars

\* A dial that reaches another worker than its own has been late, and no worker
\* comes back.
LEMMA RemoteStep == IInv /\ RemoteInv /\ TypeOK' /\ [Next]_vars => RemoteInv'
<1> SUFFICES ASSUME IInv, RemoteInv, TypeOK', [Next]_vars PROVE RemoteInv'
  OBVIOUS
<1> USE NilFacts, SessionAssumption
    DEF RemoteInv, PreDial, Goroutines, Chans, Conns, Senders, Step, sessVars, chanVars,
        connVars, goVars, lifeVars
<1>k. TypeOK /\ RouteInv /\ WireInv
  BY DEF IInv
<1>0. CASE UNCHANGED <<pc, conn, remote, got, alive>>
  BY <1>0
<1>1. ASSUME NEW m \in Msgs, Receive(m) PROVE RemoteInv'
  BY <1>1, <1>k DEF Receive, TypeOK
<1>2. ASSUME NEW m \in Msgs, Parse(m) PROVE RemoteInv'
  BY <1>2, <1>k DEF Parse, TypeOK
<1>3. ASSUME NEW m \in Msgs, SpawnerStarts(m) PROVE RemoteInv'
  BY <1>3, <1>k DEF SpawnerStarts, TypeOK
<1>4. ASSUME NEW m \in Msgs, StartFails(m) PROVE RemoteInv'
  BY <1>4, <1>k DEF StartFails, TypeOK
<1>5. ASSUME NEW m \in Msgs, StartAnswered(m) \/ DialFails(m) PROVE RemoteInv'
  BY <1>5, <1>k DEF StartAnswered, DialFails, TypeOK
<1>6. ASSUME NEW m \in Msgs, Dial(m) PROVE RemoteInv'
  <2>1. PICK w \in Reaches(m) : remote' = [remote EXCEPT ![m] = w]
    BY <1>6 DEF Dial, Connect
  <2>2. w # Nil /\ (w = m \/ m \notin alive)
    BY <1>k DEF Reaches, TypeOK, Workers
  <2>3. /\ \A b \in Msgs : b # m => remote'[b] = remote[b] /\ pc'[b] = pc[b] /\ conn'[b] = conn[b]
        /\ remote'[m] = w /\ pc'[m] = "ready"
        /\ UNCHANGED <<got, alive>>
    BY <1>6, <2>1, <1>k DEF Dial, Connect, TypeOK
  <2> QED
    BY <2>2, <2>3
<1>7. ASSUME NEW m \in Msgs, MakeChan(m) \/ MakeMap(m) \/ PutBegin(m) \/ PutEnd(m) \/ SendRegister(m)
      PROVE  RemoteInv'
  BY <1>7, <1>k DEF MakeChan, MakeMap, PutBegin, PutEnd, SendRegister, TypeOK
<1>8. ASSUME NEW m \in Msgs, StartSender(m) PROVE RemoteInv'
  BY <1>8, <1>k DEF StartSender, Initialised, TypeOK
<1>9. ASSUME NEW m \in Msgs, Proxy(m) \/ QueryStatus(m) PROVE RemoteInv'
  BY <1>9, <1>k DEF Proxy, QueryStatus, TypeOK
<1>10. ASSUME NEW r \in Replies, Answer(r) \/ \E k \in Msgs : WorkerSends(r, k) PROVE RemoteInv'
  <2>1. \A b \in Msgs : pc'[b] = pc[b]
    BY <1>10, <1>k DEF Answer, WorkerSends, TypeOK
  <2> QED
    BY <1>10, <2>1 DEF Answer, WorkerSends
<1>11. ASSUME NEW a \in Goroutines, Send(a) PROVE RemoteInv'
  BY <1>11, <1>k DEF Send, TypeOK
<1>12. ASSUME NEW s \in Senders, Write(s) PROVE RemoteInv'
  <2>1. UNCHANGED <<pc, conn, remote, alive>>
    BY <1>12 DEF Write
  <2>2. \A m \in Msgs : got'[m] = got[m] \/ conn[m] = "open"
    BY <1>12, <1>k DEF Write, TypeOK
  <2> QED
    BY <2>1, <2>2
<1>13. ASSUME NEW w \in Workers, WorkerExits(w) PROVE RemoteInv'
  BY <1>13, <1>k DEF WorkerExits, HangUp, TypeOK
<1>14. ASSUME ClientLeaves \/ Check \/ CloseShared PROVE RemoteInv'
  <2>1. \A k \in Conns : conn'[k] = conn[k] \/ conn'[k] = "closed"
    BY <1>14, <1>k DEF ClientLeaves, Check, CloseShared, TypeOK
  <2> QED
    BY <1>14, <2>1 DEF ClientLeaves, Check, CloseShared
<1>15. CASE DeleteWorker
  BY <1>15, <1>k DEF DeleteWorker
<1>16. ASSUME NEW k \in Conns, PongBegin(k) \/ PongEnd(k) PROVE RemoteInv'
  BY <1>16 DEF PongBegin, PongEnd
<1> QED
  BY <1>0, <1>1, <1>2, <1>3, <1>4, <1>5, <1>6, <1>7, <1>8, <1>9, <1>10, <1>11, <1>12, <1>13,
     <1>14, <1>15, <1>16
     DEF Next, Acts, HandlerStep, SendStep, Disconnect, MapRace, SendPanics, WritePanics, ReadPanics,
         PongPanics, Crash, Take, WorkerOrphaned, CloseClientChan, AskShutdown, vars

\* The inductive invariant holds throughout.
THEOREM SessionInvariant == Spec => []IInv
<1>1. Init => IInv
  BY InitLinks, InitRoutes DEF IInv
<1>2. IInv /\ [Next]_vars => IInv'
  BY TypeStep, LinkStep, WireStep, RouteStep DEF IInv
<1> QED
  BY <1>1, <1>2, PTL DEF Spec

\* No message crosses over to a worker of another file, for any number of
\* files, handlers and messages and any capacity of the channels; and a connection
\* that leads to another worker than the one started was dialed too late.
THEOREM WorkersGetTheirOwnHolds == Spec => []WorkersGetTheirOwn
<1>1. Init => RemoteInv
  BY NilFacts DEF Init, RemoteInv, Conns
<1>2. IInv /\ IInv' /\ RemoteInv /\ [Next]_vars => RemoteInv'
  BY RemoteStep DEF IInv
<1>3. IInv /\ RemoteInv => WorkersGetTheirOwn
  <2> SUFFICES ASSUME IInv, RemoteInv, NEW k \in Conns, NEW a \in got[k]
               PROVE  Belongs(a, k) /\ (k = Client \/ remote[k] = k \/ k \notin alive)
    BY DEF WorkersGetTheirOwn
  <2>1. Belongs(a, k)
    BY DEF IInv, RouteInv
  <2>2. ASSUME k # Client PROVE remote[k] = k \/ k \notin alive
    BY <2>2 DEF RemoteInv, Conns
  <2> QED
    BY <2>1, <2>2
<1> QED
  BY SessionInvariant, <1>1, <1>2, <1>3, PTL DEF Spec

=============================================================================
