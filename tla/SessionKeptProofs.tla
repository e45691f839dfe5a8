------------------------- MODULE SessionKeptProofs -------------------------
(***************************************************************************)
(* KeptOnce: what a send has accepted is on its way exactly once, or        *)
(* delivered, for any number of messages and any capacity of the channels.  *)
(***************************************************************************)
EXTENDS SessionProofs

\* Nothing is wired to a worker that is not connected yet, so that a connection
\* that opens owes nothing.
DialInv ==
  /\ shared # Nil => pc[shared] \notin PreDial
  /\ \A c \in Chans : sink[c] \in Msgs => pc[sink[c]] \notin PreDial

\* What waits in a channel or is being written has been sent, is not delivered,
\* and is there once.
HeldInv ==
  /\ \A c \in Chans : \A i \in DOMAIN buf[c] :
       /\ pc[buf[c][i]] = "sent" /\ buf[c][i] \notin got[sink[c]]
       /\ \A j \in DOMAIN buf[c] : buf[c][i] = buf[c][j] => i = j
  /\ \A s \in Senders : hand[s] # Nil =>
       /\ pc[hand[s]] = "sent" /\ hand[s] \notin got[sink[s]]
       /\ \A i \in DOMAIN buf[drains[s]] : buf[drains[s]][i] # hand[s]
       /\ \A t \in Senders : hand[t] = hand[s] => t = s

\* What was sent on a connection that is open is held or delivered.
OwedInv ==
  /\ \A k \in Conns : \A a \in got[k] : pc[a] = "sent"
  /\ \A a \in Goroutines :
       pc[a] = "sent" /\ dest[a] # Nil /\ conn[sink[dest[a]]] = "open" =>
         Holds(dest[a], a) \/ a \in got[sink[dest[a]]]

KInv == IInv /\ DialInv /\ HeldInv /\ OwedInv

\* At first nothing is wired to a worker, held or owed.
LEMMA InitKept == Init => DialInv /\ HeldInv /\ OwedInv
<1> SUFFICES ASSUME Init PROVE DialInv /\ HeldInv /\ OwedInv
  OBVIOUS
<1>1. DialInv
  BY NilFacts DEF Init, DialInv, Chans, Conns
<1>2. HeldInv
  BY DEF Init, HeldInv
<1>3. OwedInv
  BY DEF Init, OwedInv, Goroutines
<1> QED
  BY <1>1, <1>2, <1>3

\* A handler never goes back to where it was before it connected.
LEMMA DialStep == IInv /\ DialInv /\ TypeOK' /\ [Next]_vars => DialInv'
<1> SUFFICES ASSUME IInv, DialInv, TypeOK', [Next]_vars PROVE DialInv'
  OBVIOUS
<1> USE NilFacts DEF DialInv, PreDial, Goroutines, Step, sessVars, chanVars, connVars, goVars, lifeVars
<1>k. TypeOK /\ LinkInv /\ WireInv /\ RouteInv
  BY DEF IInv
<1>0. CASE UNCHANGED <<pc, shared, sink>>
  BY <1>0
<1>pc. ASSUME NEW a \in Goroutines, NEW here, NEW there, Step(a, here, there),
              here \in PreDial \/ there \notin PreDial, UNCHANGED <<shared, sink>>
       PROVE  DialInv'
  <2>1. \A b \in Goroutines : pc'[b] \in PreDial => pc[b] \in PreDial
    BY <1>pc, <1>k DEF TypeOK
  <2>2. shared \in Msgs \union {Nil}
    BY <1>k DEF TypeOK
  <2> QED
    BY <1>pc, <2>1, <2>2
<1>1. ASSUME NEW m \in Msgs,
             \/ Receive(m) \/ Parse(m) \/ SpawnerStarts(m) \/ StartFails(m) \/ StartAnswered(m)
             \/ DialFails(m) \/ MakeMap(m) \/ PutBegin(m) \/ PutEnd(m) \/ SendRegister(m)
             \/ Proxy(m) \/ QueryStatus(m)
      PROVE  DialInv'
  <2>1. UNCHANGED <<shared, sink>>
    BY <1>1 DEF Receive, Parse, SpawnerStarts, StartFails, StartAnswered, DialFails, MakeMap,
                PutBegin, PutEnd, SendRegister, Proxy, QueryStatus
  <2>2. \E here, there : Step(m, here, there) /\ (here \in PreDial \/ there \notin PreDial)
    <3> HIDE DEF Step
    <3>1. CASE Receive(m)
      BY <3>1 DEF Receive
    <3>2. CASE Parse(m)
      BY <3>2 DEF Parse
    <3>3. CASE SpawnerStarts(m)
      BY <3>3 DEF SpawnerStarts
    <3>4. CASE StartFails(m)
      BY <3>4 DEF StartFails
    <3>5. CASE StartAnswered(m) \/ DialFails(m)
      BY <3>5 DEF StartAnswered, DialFails
    <3>6. CASE MakeMap(m) \/ PutBegin(m) \/ PutEnd(m) \/ SendRegister(m)
      BY <3>6 DEF MakeMap, PutBegin, PutEnd, SendRegister
    <3>7. CASE Proxy(m) \/ QueryStatus(m)
      BY <3>7 DEF Proxy, QueryStatus
    <3> QED
      BY <1>1, <3>1, <3>2, <3>3, <3>4, <3>5, <3>6, <3>7
  <2> HIDE DEF Step, PreDial, DialInv
  <2> QED
    BY <1>pc, <2>1, <2>2
<1>2. ASSUME NEW m \in Msgs, Dial(m) PROVE DialInv'
  <2>1. \A b \in Goroutines : pc'[b] \in PreDial => pc[b] \in PreDial /\ b # m
    BY <1>2, <1>k DEF Dial, Connect, TypeOK
  <2>2. shared \in Msgs \union {Nil} /\ shared' \in {shared, m} /\ UNCHANGED sink
    BY <1>2, <1>k DEF Dial, Connect, TypeOK
  <2> QED
    BY <2>1, <2>2
<1>3. ASSUME NEW m \in Msgs, MakeChan(m) PROVE DialInv'
  <2>1. \A b \in Goroutines : pc'[b] \in PreDial => pc[b] \in PreDial /\ b # m
    BY <1>3, <1>k DEF MakeChan, TypeOK
  <2>2. shared \in Msgs \union {Nil} /\ UNCHANGED shared
    BY <1>3, <1>k DEF MakeChan, TypeOK
  <2>3. Target(m) = m \/ Target(m) = shared
    BY DEF Target
  <2>4. \A c \in Chans : sink'[c] = sink[c] \/ sink'[c] = Target(m)
    BY <1>3, <1>k DEF MakeChan, TypeOK
  <2> QED
    BY <2>1, <2>2, <2>3, <2>4
<1>3a. ASSUME NEW m \in Msgs, StartSender(m) PROVE DialInv'
  <2>1. \A b \in Goroutines : pc'[b] \in PreDial => pc[b] \in PreDial
    BY <1>3a, <1>k DEF StartSender, Initialised, TypeOK
  <2>2. shared \in Msgs \union {Nil} /\ UNCHANGED <<shared, sink>>
    BY <1>3a, <1>k DEF StartSender, TypeOK
  <2> QED
    BY <2>1, <2>2
<1>4. ASSUME NEW r \in Replies, Answer(r) \/ \E w \in Msgs : WorkerSends(r, w) PROVE DialInv'
  <2>1. \A b \in Msgs : pc'[b] = pc[b]
    BY <1>4, <1>k, SessionAssumption DEF Answer, WorkerSends, TypeOK
  <2>2. shared \in Msgs \union {Nil} /\ UNCHANGED <<shared, sink>>
    BY <1>4, <1>k DEF Answer, WorkerSends, TypeOK
  <2> QED
    BY <2>1, <2>2
<1>5. ASSUME NEW a \in Goroutines, Send(a) PROVE DialInv'
  BY <1>5, <1>pc DEF Send
<1> QED
  BY <1>0, <1>1, <1>2, <1>3, <1>3a, <1>4, <1>5
     DEF Next, Acts, HandlerStep, SendStep, Disconnect, MapRace, SendPanics, WritePanics, ReadPanics, PongPanics,
         Crash, Take, Write, PongBegin, PongEnd, WorkerExits, WorkerOrphaned, ClientLeaves, CloseClientChan,
         Check, CloseShared, AskShutdown, DeleteWorker, vars

\* Steps that neither queue nor write: whatever they send next, what has been
\* sent is not touched, and no connection opens.
Untouched ==
  /\ UNCHANGED <<buf, drains, hand, sink, got>>
  /\ \A a \in Goroutines : pc[a] = "sent" => pc'[a] = "sent" /\ dest'[a] = dest[a]
  /\ \A a \in Goroutines : pc'[a] = "sent" => pc[a] = "sent" \/ dest'[a] = Nil
  /\ \A k \in Conns : conn'[k] = "open" => conn[k] = "open"

\* Most steps are of that kind.
LEMMA UntouchedSteps ==
  ASSUME IInv, TypeOK', [Next]_vars
  PROVE  \/ Untouched
         \/ \E m \in Msgs : Dial(m) \/ MakeChan(m) \/ StartSender(m)
         \/ \E a \in Goroutines : Send(a)
         \/ \E s \in Senders : Take(s) \/ Write(s)
<1> USE NilFacts DEF Goroutines, Step, sessVars, chanVars, connVars, goVars, lifeVars
<1>k. TypeOK /\ LinkInv /\ WireInv /\ RouteInv
  BY DEF IInv
<1>0. ASSUME UNCHANGED <<pc, dest, buf, drains, hand, sink, got>>,
             \A k \in Conns : conn'[k] = "open" => conn[k] = "open"
      PROVE  Untouched
  BY <1>0 DEF Untouched
<1>pc. ASSUME NEW a \in Goroutines, NEW here, NEW there, Step(a, here, there),
              here # "sent", there = "sent" => here = "received" /\ dest'[a] = dest[a],
              \A b \in Goroutines \ {a} : dest'[b] = dest[b],
              UNCHANGED <<buf, drains, hand, sink, got, conn>>
       PROVE  Untouched
  <2>1. \A b \in Goroutines \ {a} : pc'[b] = pc[b]
    BY <1>pc, <1>k DEF TypeOK
  <2>2. pc[a] = here /\ pc'[a] = there
    BY <1>pc, <1>k DEF TypeOK
  <2>3. here = "received" => dest[a] = Nil
    BY <2>2, <1>k DEF RouteInv
  <2> QED
    BY <1>pc, <2>1, <2>2, <2>3 DEF Untouched
<1>1. ASSUME NEW m \in Msgs,
             \/ Receive(m) \/ Parse(m) \/ SpawnerStarts(m) \/ StartFails(m) \/ StartAnswered(m)
             \/ DialFails(m) \/ MakeMap(m) \/ PutBegin(m) \/ PutEnd(m) \/ QueryStatus(m)
      PROVE  Untouched
  <2>1. UNCHANGED <<dest, buf, drains, hand, sink, got, conn>>
    BY <1>1 DEF Receive, Parse, SpawnerStarts, StartFails, StartAnswered, DialFails, MakeMap,
                PutBegin, PutEnd, QueryStatus
  <2>2. \E here, there : Step(m, here, there) /\ here # "sent" /\ (there = "sent" => here = "received")
    <3> HIDE DEF Step
    <3>1. CASE Receive(m)
      BY <3>1 DEF Receive
    <3>2. CASE Parse(m)
      BY <3>2 DEF Parse
    <3>3. CASE SpawnerStarts(m)
      BY <3>3 DEF SpawnerStarts
    <3>4. CASE StartFails(m)
      BY <3>4 DEF StartFails
    <3>5. CASE StartAnswered(m) \/ DialFails(m)
      BY <3>5 DEF StartAnswered, DialFails
    <3>6. CASE MakeMap(m) \/ PutBegin(m) \/ PutEnd(m)
      BY <3>6 DEF MakeMap, PutBegin, PutEnd
    <3>7. CASE QueryStatus(m)
      BY <3>7 DEF QueryStatus
    <3> QED
      BY <1>1, <3>1, <3>2, <3>3, <3>4, <3>5, <3>6, <3>7
  <2> HIDE DEF Step, Untouched
  <2> QED
    BY <1>pc, <2>1, <2>2
<1>2. ASSUME NEW m \in Msgs, SendRegister(m) PROVE Untouched
  BY <1>2, <1>pc, <1>k DEF SendRegister, TypeOK
<1>3. ASSUME NEW m \in Msgs, Proxy(m) PROVE Untouched
  <2>1. CASE Route(m) = Nil
    BY <1>3, <2>1, <1>pc DEF Proxy
  <2>2. CASE Route(m) # Nil
    <3>1. /\ Step(m, "received", "sending")
          /\ dest' = [dest EXCEPT ![m] = sendChan[Route(m)]]
          /\ UNCHANGED <<buf, drains, hand, sink, got, conn>>
      BY <1>3, <2>2 DEF Proxy
    <3>2. \A b \in Goroutines \ {m} : dest'[b] = dest[b]
      BY <3>1, <1>k DEF TypeOK
    <3> HIDE DEF Step
    <3> QED
      BY <3>1, <3>2, <1>pc
  <2> QED
    BY <2>1, <2>2
<1>4. ASSUME NEW r \in Replies, Answer(r) PROVE Untouched
  <2>1. \A b \in Goroutines \ {r} : dest'[b] = dest[b]
    BY <1>4, <1>k DEF Answer, TypeOK
  <2> QED
    BY <1>4, <2>1, <1>pc DEF Answer
<1>5. ASSUME NEW r \in Replies, NEW w \in Msgs, WorkerSends(r, w) PROVE Untouched
  <2>1. /\ pc[r] = "idle" /\ pc' = [pc EXCEPT ![r] = "received"]
        /\ UNCHANGED <<dest, buf, drains, hand, sink, got, conn>>
    BY <1>5 DEF WorkerSends
  <2> QED
    BY <2>1, <1>k DEF Untouched, TypeOK
<1>6. ASSUME \/ ClientLeaves \/ Check \/ CloseShared \/ AskShutdown \/ DeleteWorker
             \/ \E w \in Workers : WorkerExits(w) \/ WorkerOrphaned(w)
      PROVE  Untouched
  <2>1. UNCHANGED <<pc, dest, buf, drains, hand, sink, got>>
    BY <1>6 DEF ClientLeaves, Check, CloseShared, AskShutdown, DeleteWorker, WorkerExits, WorkerOrphaned
  <2>2. \A k \in Conns : conn'[k] = "open" => conn[k] = "open"
    BY <1>6, <1>k DEF ClientLeaves, Check, CloseShared, AskShutdown, DeleteWorker, WorkerExits,
                    WorkerOrphaned, HangUp, TypeOK
  <2> QED
    BY <2>1, <2>2, <1>0
<1>7. CASE UNCHANGED <<pc, dest, buf, drains, hand, sink, got, conn>>
  BY <1>7, <1>0
<1> HIDE DEF Untouched
<1> QED
  BY <1>1, <1>2, <1>3, <1>4, <1>5, <1>6, <1>7
     DEF Next, Acts, HandlerStep, SendStep, Disconnect, MapRace, SendPanics, WritePanics, ReadPanics, PongPanics,
         Crash, PongBegin, PongEnd, CloseClientChan, vars

\* What is held was sent where it is held, and a channel with no connection holds
\* nothing.
LEMMA HeldFacts ==
  ASSUME IInv
  PROVE  /\ \A c \in Chans :
              /\ buf[c] \in Seq(Goroutines)
              /\ \A i \in DOMAIN buf[c] : buf[c][i] \in Goroutines /\ dest[buf[c][i]] = c
              /\ sink[c] = Nil => DOMAIN buf[c] = {}
         /\ \A s \in Senders : hand[s] # Nil =>
              /\ hand[s] \in Goroutines /\ dest[hand[s]] = drains[s] /\ drains[s] \in Chans
              /\ sink[s] \in Conns /\ sink[drains[s]] = sink[s]
<1> USE NilFacts DEF IInv
<1>1. ASSUME NEW c \in Chans
      PROVE  /\ buf[c] \in Seq(Goroutines)
             /\ \A i \in DOMAIN buf[c] : buf[c][i] \in Goroutines /\ dest[buf[c][i]] = c
             /\ sink[c] = Nil => DOMAIN buf[c] = {}
  <2>1. buf[c] \in Seq(Goroutines)
    BY DEF TypeOK
  <2>2. \A i \in DOMAIN buf[c] : buf[c][i] \in Goroutines
    BY <2>1
  <2>3. \A i \in DOMAIN buf[c] : dest[buf[c][i]] = c
    BY DEF RouteInv
  <2>4. \A a \in Goroutines : dest[a] = c => sink[c] # Nil
    BY DEF RouteInv
  <2> QED
    BY <2>1, <2>2, <2>3, <2>4
<1>2. ASSUME NEW s \in Senders, hand[s] # Nil
      PROVE  /\ hand[s] \in Goroutines /\ dest[hand[s]] = drains[s] /\ drains[s] \in Chans
             /\ sink[s] \in Conns /\ sink[drains[s]] = sink[s]
  <2>1. hand[s] \in Goroutines /\ dest[hand[s]] = drains[s] /\ drains[s] # Nil
    BY <1>2 DEF TypeOK, RouteInv
  <2>2. drains[s] \in Chans
    BY <2>1 DEF TypeOK
  <2>3. sink[s] # Nil /\ sink[drains[s]] = sink[s]
    BY <2>1 DEF WireInv
  <2>4. sink[drains[s]] \in Conns
    BY <2>2, <2>3 DEF TypeOK
  <2> QED
    BY <2>1, <2>2, <2>3, <2>4
<1> QED
  BY <1>1, <1>2

\* A new sender has nothing in its hand, and a new channel is empty.
LEMMA NewIsEmpty ==
  ASSUME IInv, NEW m \in Msgs
  PROVE  /\ pc[m] = "ready" => sink[m] = Nil /\ DOMAIN buf[m] = {}
         /\ pc[m] = "made" => drains[m] = Nil /\ hand[m] = Nil
<1>1. m \in Chans /\ m \in Senders
  BY DEF Chans, Conns, Senders
<1>2. pc[m] = "ready" => sink[m] = Nil
  BY DEF IInv, WireInv, Early
<1>3. pc[m] = "made" => drains[m] = Nil
  BY DEF IInv, WireInv
<1>4. drains[m] = Nil => hand[m] = Nil
  BY <1>1 DEF IInv, RouteInv
<1> QED
  BY <1>1, <1>2, <1>3, <1>4, HeldFacts

\* What a send adds to its channel.
LEMMA SendEffect ==
  ASSUME IInv, NEW a \in Goroutines, Send(a)
  PROVE  \E c \in Chans :
           /\ c = dest[a] /\ c # Nil /\ sink[c] \in Conns
           /\ UNCHANGED <<dest, drains, hand, sink, got, conn>>
           /\ pc[a] = "sending" /\ pc' = [pc EXCEPT ![a] = "sent"]
           /\ \A b \in Goroutines : pc'[b] = IF b = a THEN "sent" ELSE pc[b]
           /\ buf' = [buf EXCEPT ![c] = Append(buf[c], a)] /\ Len(buf[c]) < Cap
           /\ \A d \in Chans : d # c => buf'[d] = buf[d]
           /\ \A i \in DOMAIN buf'[c] : \/ i = Len(buf[c]) + 1 /\ buf'[c][i] = a
                                        \/ i \in DOMAIN buf[c] /\ buf'[c][i] = buf[c][i]
           /\ Len(buf[c]) + 1 \in DOMAIN buf'[c] /\ buf'[c][Len(buf[c]) + 1] = a
           /\ \A i \in DOMAIN buf[c] : i \in DOMAIN buf'[c] /\ buf'[c][i] = buf[c][i]
<1> USE NilFacts DEF IInv, Step
<1>1. PICK c \in Chans : c = dest[a]
  BY DEF Send, TypeOK
<1>2. c # Nil /\ sink[c] # Nil /\ sink[c] \in Conns
  BY <1>1 DEF Send, RouteInv, TypeOK
<1>3. /\ UNCHANGED <<dest, drains, hand, sink, got, conn>>
      /\ pc[a] = "sending" /\ pc' = [pc EXCEPT ![a] = "sent"]
      /\ buf' = [buf EXCEPT ![c] = Append(buf[c], a)] /\ Len(buf[c]) < Cap
  BY <1>1 DEF Send, connVars
<1>4. \A b \in Goroutines : pc'[b] = IF b = a THEN "sent" ELSE pc[b]
  BY <1>3 DEF TypeOK
<1>5. buf'[c] = Append(buf[c], a) /\ \A d \in Chans : d # c => buf'[d] = buf[d]
  BY <1>3 DEF TypeOK
<1>6. /\ DOMAIN buf'[c] = 1 .. Len(buf[c]) + 1
      /\ buf'[c][Len(buf[c]) + 1] = a
      /\ \A i \in DOMAIN buf[c] : buf'[c][i] = buf[c][i]
      /\ DOMAIN buf[c] = 1 .. Len(buf[c]) /\ Len(buf[c]) \in Nat
  <2> DEFINE q == buf[c]
  <2>1. q \in Seq(Goroutines) /\ buf'[c] = Append(q, a)
    BY <1>5, HeldFacts
  <2> HIDE DEF q
  <2> QED
    BY <2>1 DEF q
<1>7. \A i \in DOMAIN buf'[c] : \/ i = Len(buf[c]) + 1 /\ buf'[c][i] = a
                                \/ i \in DOMAIN buf[c] /\ buf'[c][i] = buf[c][i]
  BY <1>6
<1>8. /\ Len(buf[c]) + 1 \in DOMAIN buf'[c]
      /\ \A i \in DOMAIN buf[c] : i \in DOMAIN buf'[c]
  BY <1>6
<1> QED
  BY <1>1, <1>2, <1>3, <1>4, <1>5, <1>6, <1>7, <1>8

\* What a sender takes out of its channel.
LEMMA TakeEffect ==
  ASSUME IInv, NEW s \in Senders, Take(s)
  PROVE  \E c \in Chans :
           /\ c = drains[s] /\ c # Nil /\ hand[s] = Nil /\ buf[c] # <<>>
           /\ UNCHANGED <<pc, dest, drains, sink, got, conn>>
           /\ hand' = [hand EXCEPT ![s] = Head(buf[c])] /\ buf' = [buf EXCEPT ![c] = Tail(buf[c])]
           /\ hand'[s] = buf[c][1] /\ 1 \in DOMAIN buf[c]
           /\ \A t \in Senders : t # s => hand'[t] = hand[t]
           /\ \A d \in Chans : d # c => buf'[d] = buf[d]
           /\ \A i \in DOMAIN buf'[c] : /\ i \in Nat /\ i # 0
                                        /\ i + 1 \in DOMAIN buf[c] /\ buf'[c][i] = buf[c][i + 1]
           /\ \A i \in DOMAIN buf[c] : \/ buf[c][i] = hand'[s]
                                       \/ \E j \in DOMAIN buf'[c] : buf'[c][j] = buf[c][i]
<1> USE NilFacts DEF IInv
<1>1. PICK c \in Chans : c = drains[s]
  BY DEF Take, TypeOK
<1>2. /\ c # Nil /\ hand[s] = Nil /\ buf[c] # <<>>
      /\ UNCHANGED <<pc, dest, drains, sink, got, conn>>
      /\ hand' = [hand EXCEPT ![s] = Head(buf[c])] /\ buf' = [buf EXCEPT ![c] = Tail(buf[c])]
  BY <1>1 DEF Take, goVars, connVars
<1>3. /\ hand'[s] = Head(buf[c]) /\ buf'[c] = Tail(buf[c])
      /\ \A t \in Senders : t # s => hand'[t] = hand[t]
      /\ \A d \in Chans : d # c => buf'[d] = buf[d]
  BY <1>2 DEF TypeOK
<1>4. buf[c] \in Seq(Goroutines)
  BY HeldFacts
<1>5. /\ hand'[s] = buf[c][1] /\ 1 \in DOMAIN buf[c]
      /\ \A i \in DOMAIN buf'[c] : i + 1 \in DOMAIN buf[c] /\ buf'[c][i] = buf[c][i + 1]
  <2> DEFINE q == buf[c]
  <2>1. q \in Seq(Goroutines) /\ q # <<>> /\ hand'[s] = Head(q) /\ buf'[c] = Tail(q)
    BY <1>2, <1>3, <1>4
  <2> HIDE DEF q
  <2>2. Head(q) = q[1] /\ 1 \in DOMAIN q
    BY <2>1
  <2>3. \A i \in DOMAIN Tail(q) : i + 1 \in DOMAIN q /\ Tail(q)[i] = q[i + 1]
    BY <2>1
  <2> QED
    BY <2>1, <2>2, <2>3 DEF q
<1>6. \A i \in DOMAIN buf'[c] : i \in Nat /\ i # 0
  BY <1>2, <1>3, <1>4
<1>7. \A i \in DOMAIN buf[c] : buf[c][i] = hand'[s] \/ \E j \in DOMAIN buf'[c] : buf'[c][j] = buf[c][i]
  <2> DEFINE q == buf[c]
  <2>1. q \in Seq(Goroutines) /\ q # <<>> /\ hand'[s] = Head(q) /\ buf'[c] = Tail(q)
    BY <1>2, <1>3, <1>4
  <2> HIDE DEF q
  <2>2. ASSUME NEW i \in DOMAIN q PROVE q[i] = Head(q) \/ \E j \in DOMAIN Tail(q) : Tail(q)[j] = q[i]
    <3>1. CASE i = 1
      BY <2>1, <3>1
    <3>2. CASE i # 1
      <4>1. i - 1 \in DOMAIN Tail(q) /\ Tail(q)[i - 1] = q[i]
        BY <2>1, <2>2, <3>2
      <4> QED
        BY <4>1
    <3> QED
      BY <3>1, <3>2
  <2> QED
    BY <2>1, <2>2 DEF q
<1> QED
  BY <1>1, <1>2, <1>3, <1>5, <1>6, <1>7

\* What a write does.
LEMMA WriteEffect ==
  ASSUME IInv, NEW s \in Senders, Write(s)
  PROVE  /\ UNCHANGED <<pc, dest, drains, sink, buf, conn>>
         /\ hand[s] # Nil /\ hand' = [hand EXCEPT ![s] = Nil]
         /\ hand'[s] = Nil /\ \A t \in Senders : t # s => hand'[t] = hand[t]
         /\ \A k \in Conns : got'[k] = IF k = sink[s] /\ conn[k] = "open"
                                       THEN got[k] \union {hand[s]} ELSE got[k]
<1>1. hand[s] # Nil /\ sink[s] \in Conns
  BY HeldFacts DEF Write
<1> QED
  BY <1>1 DEF Write, IInv, TypeOK, goVars

\* What is held is held once, kept by every step.
LEMMA HeldStep ==
  IInv /\ HeldInv /\ OwedInv /\ TypeOK' /\ [Next]_vars => HeldInv'
<1> SUFFICES ASSUME IInv, HeldInv, OwedInv, TypeOK', [Next]_vars PROVE HeldInv'
  OBVIOUS
<1> USE NilFacts DEF Step, sessVars, chanVars, connVars, goVars, lifeVars
<1>k. TypeOK /\ LinkInv /\ WireInv /\ RouteInv
  BY DEF IInv
<1>f. /\ \A c \in Chans :
           /\ buf[c] \in Seq(Goroutines)
           /\ \A i \in DOMAIN buf[c] : buf[c][i] \in Goroutines /\ dest[buf[c][i]] = c
           /\ sink[c] = Nil => DOMAIN buf[c] = {}
      /\ \A s \in Senders : hand[s] # Nil =>
           /\ hand[s] \in Goroutines /\ dest[hand[s]] = drains[s] /\ drains[s] \in Chans
           /\ sink[s] \in Conns /\ sink[drains[s]] = sink[s]
  BY HeldFacts
<1>1. ASSUME UNCHANGED <<buf, hand, got>>,
             \A a \in Goroutines : pc[a] = "sent" => pc'[a] = "sent",
             \A c \in Chans : DOMAIN buf[c] # {} => sink'[c] = sink[c],
             \A s \in Senders : hand[s] # Nil => sink'[s] = sink[s] /\ drains'[s] = drains[s]
      PROVE  HeldInv'
  <2>1. \A c \in Chans : \A i \in DOMAIN buf'[c] :
          /\ pc'[buf'[c][i]] = "sent" /\ buf'[c][i] \notin got'[sink'[c]]
          /\ \A j \in DOMAIN buf'[c] : buf'[c][i] = buf'[c][j] => i = j
    BY <1>1, <1>f DEF HeldInv
  <2>2. \A s \in Senders : hand'[s] # Nil =>
          /\ pc'[hand'[s]] = "sent" /\ hand'[s] \notin got'[sink'[s]]
          /\ \A i \in DOMAIN buf'[drains'[s]] : buf'[drains'[s]][i] # hand'[s]
          /\ \A t \in Senders : hand'[t] = hand'[s] => t = s
    <3> SUFFICES ASSUME NEW s \in Senders, hand[s] # Nil
                 PROVE  /\ pc'[hand[s]] = "sent" /\ hand[s] \notin got[sink'[s]]
                        /\ \A i \in DOMAIN buf[drains'[s]] : buf[drains'[s]][i] # hand[s]
                        /\ \A t \in Senders : hand[t] = hand[s] => t = s
      BY <1>1
    <3>1. sink'[s] = sink[s] /\ drains'[s] = drains[s] /\ hand[s] \in Goroutines
      BY <1>1, <1>f
    <3>2. /\ pc[hand[s]] = "sent" /\ hand[s] \notin got[sink[s]]
          /\ \A i \in DOMAIN buf[drains[s]] : buf[drains[s]][i] # hand[s]
          /\ \A t \in Senders : hand[t] = hand[s] => t = s
      BY DEF HeldInv
    <3> QED
      BY <1>1, <3>1, <3>2
  <2> QED
    BY <2>1, <2>2 DEF HeldInv
<1>2. CASE Untouched
  BY <1>1, <1>2 DEF Untouched
<1>3. ASSUME NEW m \in Msgs, Dial(m) PROVE HeldInv'
  BY <1>1, <1>3, <1>k DEF Dial, Connect, TypeOK
<1>4. ASSUME NEW m \in Msgs, MakeChan(m) PROVE HeldInv'
  <2>1. /\ UNCHANGED <<buf, drains, hand, got>>
        /\ \A a \in Goroutines : pc[a] = "sent" => pc'[a] = "sent"
        /\ \A c \in Chans : c # m => sink'[c] = sink[c]
    BY <1>4, <1>k DEF MakeChan, TypeOK
  <2>2. sink[m] = Nil /\ DOMAIN buf[m] = {}
    BY <1>4, NewIsEmpty DEF MakeChan
  <2>3. \A s \in Senders : hand[s] # Nil => s # m
    BY <2>2, <1>f
  <2> QED
    BY <1>1, <2>1, <2>2, <2>3 DEF Senders, Chans
<1>5. ASSUME NEW m \in Msgs, StartSender(m) PROVE HeldInv'
  <2>1. /\ UNCHANGED <<buf, sink, hand, got>>
        /\ \A a \in Goroutines : pc[a] = "sent" => pc'[a] = "sent"
        /\ \A s \in Senders : s # m => drains'[s] = drains[s]
    BY <1>5, <1>k DEF StartSender, TypeOK
  <2>2. hand[m] = Nil
    BY <1>5, NewIsEmpty DEF StartSender
  <2> QED
    BY <1>1, <2>1, <2>2
<1>6. ASSUME NEW a \in Goroutines, Send(a) PROVE HeldInv'
  <2>1. PICK c \in Chans :
           /\ c = dest[a] /\ sink[c] \in Conns
           /\ UNCHANGED <<dest, drains, hand, sink, got>>
           /\ pc[a] = "sending"
           /\ \A b \in Goroutines : pc'[b] = IF b = a THEN "sent" ELSE pc[b]
           /\ \A d \in Chans : d # c => buf'[d] = buf[d]
           /\ \A i \in DOMAIN buf'[c] : \/ i = Len(buf[c]) + 1 /\ buf'[c][i] = a
                                        \/ i \in DOMAIN buf[c] /\ buf'[c][i] = buf[c][i]
    BY <1>6, SendEffect
  <2>2. a \notin got[sink[c]]
    BY <2>1 DEF OwedInv
  <2>3. \A d \in Chans : \A i \in DOMAIN buf[d] : buf[d][i] # a
    BY <2>1 DEF HeldInv
  <2>4. \A s \in Senders : hand[s] # a
    BY <2>1 DEF HeldInv
  <2>5. \A i \in DOMAIN buf'[c] : pc'[buf'[c][i]] = "sent" /\ buf'[c][i] \notin got'[sink'[c]]
    BY <2>1, <2>2, <1>f DEF HeldInv
  <2>6. \A i \in DOMAIN buf'[c] : \A j \in DOMAIN buf'[c] : buf'[c][i] = buf'[c][j] => i = j
    <3> SUFFICES ASSUME NEW i \in DOMAIN buf'[c], NEW j \in DOMAIN buf'[c],
                        buf'[c][i] = buf'[c][j]
                 PROVE  i = j
      OBVIOUS
    <3>1. i \in DOMAIN buf[c] /\ j \in DOMAIN buf[c] /\ buf[c][i] = buf[c][j] => i = j
      BY DEF HeldInv
    <3> QED
      BY <2>1, <2>3, <3>1
  <2>7. \A d \in Chans : d # c => \A i \in DOMAIN buf'[d] :
          /\ pc'[buf'[d][i]] = "sent" /\ buf'[d][i] \notin got'[sink'[d]]
          /\ \A j \in DOMAIN buf'[d] : buf'[d][i] = buf'[d][j] => i = j
    BY <2>1, <1>f DEF HeldInv
  <2>8. \A s \in Senders : hand'[s] # Nil =>
          /\ pc'[hand'[s]] = "sent" /\ hand'[s] \notin got'[sink'[s]]
          /\ \A t \in Senders : hand'[t] = hand'[s] => t = s
    BY <2>1, <1>f DEF HeldInv
  <2>9. ASSUME NEW s \in Senders, hand[s] # Nil, NEW i \in DOMAIN buf'[drains[s]]
        PROVE  buf'[drains[s]][i] # hand[s]
    <3>0. drains[s] \in Chans /\ \A j \in DOMAIN buf[drains[s]] : buf[drains[s]][j] # hand[s]
      BY <2>9, <1>f DEF HeldInv
    <3>1. CASE drains[s] # c
      <4>1. buf'[drains[s]] = buf[drains[s]]
        BY <2>1, <3>0, <3>1
      <4> QED
        BY <3>0, <4>1
    <3>2. CASE drains[s] = c
      <4>1. buf'[c][i] = a \/ (i \in DOMAIN buf[c] /\ buf'[c][i] = buf[c][i])
        BY <2>1, <3>2
      <4>2. hand[s] # a
        BY <2>4
      <4>3. \A j \in DOMAIN buf[c] : buf[c][j] # hand[s]
        BY <3>0, <3>2
      <4> QED
        BY <3>2, <4>1, <4>2, <4>3
    <3> QED
      BY <3>1, <3>2
  <2>10. \A s \in Senders : hand'[s] # Nil =>
           \A i \in DOMAIN buf'[drains'[s]] : buf'[drains'[s]][i] # hand'[s]
    BY <2>1, <2>9
  <2> QED
    BY <2>5, <2>6, <2>7, <2>8, <2>10 DEF HeldInv
<1>7. ASSUME NEW s \in Senders, Take(s) PROVE HeldInv'
  <2>1. PICK c \in Chans :
           /\ c = drains[s] /\ c # Nil /\ hand[s] = Nil
           /\ UNCHANGED <<pc, dest, drains, sink, got>>
           /\ hand'[s] = buf[c][1] /\ 1 \in DOMAIN buf[c]
           /\ \A t \in Senders : t # s => hand'[t] = hand[t]
           /\ \A d \in Chans : d # c => buf'[d] = buf[d]
           /\ \A i \in DOMAIN buf'[c] : /\ i \in Nat /\ i # 0
                                        /\ i + 1 \in DOMAIN buf[c] /\ buf'[c][i] = buf[c][i + 1]
    BY <1>7, TakeEffect
  <2>2. \A i \in DOMAIN buf'[c] : pc'[buf'[c][i]] = "sent" /\ buf'[c][i] \notin got'[sink'[c]]
    BY <2>1 DEF HeldInv
  <2>3. \A i \in DOMAIN buf'[c] : \A j \in DOMAIN buf'[c] : buf'[c][i] = buf'[c][j] => i = j
    <3> SUFFICES ASSUME NEW i \in DOMAIN buf'[c], NEW j \in DOMAIN buf'[c],
                        buf'[c][i] = buf'[c][j]
                 PROVE  i = j
      OBVIOUS
    <3>1. i + 1 = j + 1
      BY <2>1 DEF HeldInv
    <3> QED
      BY <2>1, <3>1
  <2>4. \A d \in Chans : d # c => \A i \in DOMAIN buf'[d] :
          /\ pc'[buf'[d][i]] = "sent" /\ buf'[d][i] \notin got'[sink'[d]]
          /\ \A j \in DOMAIN buf'[d] : buf'[d][i] = buf'[d][j] => i = j
    BY <2>1 DEF HeldInv
  <2>5. sink[s] = sink[c]
    BY <2>1, <1>k DEF WireInv
  <2>6. /\ pc'[hand'[s]] = "sent" /\ hand'[s] \notin got'[sink'[s]]
    BY <2>1, <2>5 DEF HeldInv
  <2>7. \A i \in DOMAIN buf'[c] : buf'[c][i] # hand'[s]
    <3> SUFFICES ASSUME NEW i \in DOMAIN buf'[c], buf'[c][i] = hand'[s] PROVE FALSE
      OBVIOUS
    <3>1. i + 1 = 1
      BY <2>1 DEF HeldInv
    <3> QED
      BY <2>1, <3>1
  <2>8. \A t \in Senders : t # s /\ hand[t] # Nil => hand[t] # hand'[s]
    <3> SUFFICES ASSUME NEW t \in Senders, hand[t] # Nil, hand[t] = buf[c][1] PROVE FALSE
      BY <2>1
    <3>1. drains[t] = c
      BY <2>1, <1>f
    <3> QED
      BY <2>1, <3>1 DEF HeldInv
  <2>9. ASSUME NEW t \in Senders, t # s, hand[t] # Nil, NEW i \in DOMAIN buf'[drains[t]]
        PROVE  buf'[drains[t]][i] # hand[t]
    <3>0. drains[t] \in Chans /\ \A j \in DOMAIN buf[drains[t]] : buf[drains[t]][j] # hand[t]
      BY <2>9, <1>f DEF HeldInv
    <3>1. CASE drains[t] # c
      <4>1. buf'[drains[t]] = buf[drains[t]]
        BY <2>1, <3>0, <3>1
      <4> QED
        BY <3>0, <4>1
    <3>2. CASE drains[t] = c
      <4>1. i + 1 \in DOMAIN buf[c] /\ buf'[c][i] = buf[c][i + 1]
        BY <2>1, <2>9, <3>2
      <4> QED
        BY <2>9, <3>2, <4>1 DEF HeldInv
    <3> QED
      BY <3>1, <3>2
  <2>10. \A t \in Senders : t # s /\ hand'[t] # Nil =>
           /\ pc'[hand'[t]] = "sent" /\ hand'[t] \notin got'[sink'[t]]
           /\ \A i \in DOMAIN buf'[drains'[t]] : buf'[drains'[t]][i] # hand'[t]
           /\ \A u \in Senders : hand'[u] = hand'[t] => u = t
    <3>1. \A t \in Senders : t # s /\ hand[t] # Nil =>
            \A u \in Senders : u # s /\ hand[u] = hand[t] => u = t
      BY DEF HeldInv
    <3>2. \A t \in Senders : t # s /\ hand[t] # Nil =>
            pc[hand[t]] = "sent" /\ hand[t] \notin got[sink[t]]
      BY DEF HeldInv
    <3> QED
      BY <2>1, <2>8, <2>9, <3>1, <3>2
  <2>11. \A u \in Senders : hand'[u] = hand'[s] => u = s
    <3>1. hand'[s] # Nil
      BY <2>1, <1>f
    <3> QED
      BY <2>1, <2>8, <3>1
  <2>12. hand'[s] # Nil =>
           /\ pc'[hand'[s]] = "sent" /\ hand'[s] \notin got'[sink'[s]]
           /\ \A i \in DOMAIN buf'[drains'[s]] : buf'[drains'[s]][i] # hand'[s]
           /\ \A u \in Senders : hand'[u] = hand'[s] => u = s
    BY <2>1, <2>6, <2>7, <2>11
  <2> QED
    BY <2>2, <2>3, <2>4, <2>10, <2>12 DEF HeldInv
<1>8. ASSUME NEW s \in Senders, Write(s) PROVE HeldInv'
  <2>1. /\ UNCHANGED <<pc, dest, drains, sink, buf>> /\ hand[s] # Nil /\ hand'[s] = Nil
        /\ \A t \in Senders : t # s => hand'[t] = hand[t]
        /\ \A k \in Conns : got'[k] \subseteq got[k] \union {hand[s]}
    BY <1>8, WriteEffect
  <2>2. \A d \in Chans : \A i \in DOMAIN buf[d] : buf[d][i] # hand[s] /\ sink[d] \in Conns
    <3> SUFFICES ASSUME NEW d \in Chans, NEW i \in DOMAIN buf[d]
                 PROVE  buf[d][i] # hand[s] /\ sink[d] \in Conns
      OBVIOUS
    <3>1. sink[d] \in Conns
      BY <1>f, <1>k DEF TypeOK
    <3>2. ASSUME buf[d][i] = hand[s] PROVE FALSE
      <4>1. d = drains[s]
        BY <2>1, <3>2, <1>f
      <4> QED
        BY <2>1, <3>2, <4>1 DEF HeldInv
    <3> QED
      BY <3>1, <3>2
  <2>3. \A d \in Chans : \A i \in DOMAIN buf'[d] :
          /\ pc'[buf'[d][i]] = "sent" /\ buf'[d][i] \notin got'[sink'[d]]
          /\ \A j \in DOMAIN buf'[d] : buf'[d][i] = buf'[d][j] => i = j
    BY <2>1, <2>2 DEF HeldInv
  <2>4. \A t \in Senders : t # s /\ hand[t] # Nil => hand[t] # hand[s]
    BY <2>1 DEF HeldInv
  <2>5. \A t \in Senders : hand'[t] # Nil =>
          /\ pc'[hand'[t]] = "sent" /\ hand'[t] \notin got'[sink'[t]]
          /\ \A i \in DOMAIN buf'[drains'[t]] : buf'[drains'[t]][i] # hand'[t]
    BY <2>1, <2>4, <1>f DEF HeldInv
  <2>6. \A t \in Senders : hand'[t] # Nil => \A u \in Senders : hand'[u] = hand'[t] => u = t
    BY <2>1 DEF HeldInv
  <2> QED
    BY <2>3, <2>5, <2>6 DEF HeldInv
<1> QED
  BY <1>2, <1>3, <1>4, <1>5, <1>6, <1>7, <1>8, UntouchedSteps

\* What an open connection owes is held or delivered, kept by every step.
LEMMA OwedStep ==
  IInv /\ DialInv /\ HeldInv /\ OwedInv /\ TypeOK' /\ [Next]_vars => OwedInv'
<1> SUFFICES ASSUME IInv, DialInv, HeldInv, OwedInv, TypeOK', [Next]_vars PROVE OwedInv'
  OBVIOUS
<1> USE NilFacts DEF Step, sessVars, chanVars, connVars, goVars, lifeVars
<1>k. TypeOK /\ LinkInv /\ WireInv /\ RouteInv
  BY DEF IInv
<1>g. \A k \in Conns : \A a \in got[k] : a \in Goroutines
  BY <1>k DEF TypeOK
<1>s. \A a \in Goroutines : dest[a] # Nil => dest[a] \in Chans /\ sink[dest[a]] \in Conns
  BY <1>k DEF RouteInv, TypeOK
\* It is enough that what was owed is owed where it was, and that nothing new is.
<1>1. ASSUME \A k \in Conns : \A a \in got'[k] : pc'[a] = "sent",
             \A a \in Goroutines :
               pc'[a] = "sent" /\ dest'[a] # Nil /\ conn'[sink'[dest'[a]]] = "open" =>
                 \/ \E c \in Chans : c = dest'[a] /\ Holds(c, a)'
                 \/ a \in got'[sink'[dest'[a]]]
      PROVE  OwedInv'
  BY <1>1 DEF OwedInv, Holds, Queued
<1>2. ASSUME \A k \in Conns : got'[k] = got[k],
             \A a \in Goroutines : pc[a] = "sent" => pc'[a] = "sent",
             \A a \in Goroutines : pc'[a] = "sent" /\ dest'[a] # Nil =>
               /\ pc[a] = "sent" /\ dest'[a] = dest[a] /\ sink'[dest[a]] = sink[dest[a]]
               /\ conn'[sink[dest[a]]] = "open" => conn[sink[dest[a]]] = "open",
             \A c \in Chans, a \in Goroutines : Holds(c, a) => Holds(c, a)'
      PROVE  OwedInv'
  <2>1. \A k \in Conns : \A a \in got'[k] : pc'[a] = "sent"
    BY <1>2, <1>g DEF OwedInv
  <2>2. ASSUME NEW a \in Goroutines, pc'[a] = "sent", dest'[a] # Nil,
               conn'[sink'[dest'[a]]] = "open"
        PROVE  \/ \E c \in Chans : c = dest'[a] /\ Holds(c, a)'
               \/ a \in got'[sink'[dest'[a]]]
    <3>1. pc[a] = "sent" /\ dest'[a] = dest[a] /\ sink'[dest[a]] = sink[dest[a]]
          /\ conn[sink[dest[a]]] = "open" /\ dest[a] # Nil
      BY <1>2, <2>2
    <3>2. dest[a] \in Chans /\ sink[dest[a]] \in Conns
      BY <1>s, <3>1
    <3>3. Holds(dest[a], a) \/ a \in got[sink[dest[a]]]
      BY <3>1 DEF OwedInv
    <3> QED
      BY <1>2, <3>1, <3>2, <3>3
  <2> QED
    BY <1>1, <2>1, <2>2
<1>3. CASE Untouched
  <2>1. \A c \in Chans, a \in Goroutines : Holds(c, a) => Holds(c, a)'
    BY <1>3 DEF Untouched, Holds, Queued
  <2>2. \A a \in Goroutines : pc'[a] = "sent" /\ dest'[a] # Nil =>
          /\ pc[a] = "sent" /\ dest'[a] = dest[a] /\ sink'[dest[a]] = sink[dest[a]]
          /\ conn'[sink[dest[a]]] = "open" => conn[sink[dest[a]]] = "open"
    BY <1>3, <1>s DEF Untouched
  <2> QED
    BY <1>2, <1>3, <2>1, <2>2 DEF Untouched
<1>4. ASSUME NEW m \in Msgs, Dial(m) PROVE OwedInv'
  <2>1. /\ UNCHANGED <<dest, buf, drains, hand, sink, got>>
        /\ \A a \in Goroutines : pc'[a] = "sent" <=> pc[a] = "sent"
        /\ \A k \in Conns : k # m => conn'[k] = conn[k]
        /\ pc[m] = "dialing"
    BY <1>4, <1>k DEF Dial, Connect, TypeOK
  <2>2. \A c \in Chans : sink[c] # m
    BY <2>1 DEF DialInv, PreDial
  <2>3. \A c \in Chans, a \in Goroutines : Holds(c, a) => Holds(c, a)'
    BY <2>1 DEF Holds, Queued
  <2>4. \A a \in Goroutines : dest[a] # Nil => conn'[sink[dest[a]]] = conn[sink[dest[a]]]
    BY <1>s, <2>1, <2>2
  <2> QED
    BY <1>2, <2>1, <2>3, <2>4
<1>5. ASSUME NEW m \in Msgs, MakeChan(m) PROVE OwedInv'
  <2>1. /\ UNCHANGED <<dest, buf, drains, hand, got, conn>>
        /\ \A a \in Goroutines : pc'[a] = "sent" <=> pc[a] = "sent"
        /\ \A c \in Chans : c # m => sink'[c] = sink[c]
    BY <1>5, <1>k DEF MakeChan, TypeOK
  <2>2. sink[m] = Nil
    BY <1>5, NewIsEmpty DEF MakeChan
  <2>3. \A a \in Goroutines : dest[a] # Nil => sink'[dest[a]] = sink[dest[a]]
    BY <1>s, <2>1, <2>2
  <2>4. \A c \in Chans, a \in Goroutines : Holds(c, a) => Holds(c, a)'
    BY <2>1 DEF Holds, Queued
  <2> QED
    BY <1>2, <2>1, <2>3, <2>4
<1>6. ASSUME NEW m \in Msgs, StartSender(m) PROVE OwedInv'
  <2>1. /\ UNCHANGED <<dest, buf, sink, hand, got, conn>>
        /\ \A a \in Goroutines : pc'[a] = "sent" <=> pc[a] = "sent"
        /\ \A s \in Senders : s # m => drains'[s] = drains[s]
    BY <1>6, <1>k DEF StartSender, Initialised, TypeOK
  <2>2. hand[m] = Nil
    BY <1>6, NewIsEmpty DEF StartSender
  <2>3. \A c \in Chans, a \in Goroutines : Holds(c, a) => Holds(c, a)'
    BY <2>1, <2>2 DEF Holds, Queued
  <2> QED
    BY <1>2, <2>1, <2>3
<1>7. ASSUME NEW a \in Goroutines, Send(a) PROVE OwedInv'
  <2>1. PICK c \in Chans :
           /\ c = dest[a]
           /\ UNCHANGED <<dest, drains, hand, sink, got, conn>>
           /\ \A b \in Goroutines : pc'[b] = IF b = a THEN "sent" ELSE pc[b]
           /\ \A d \in Chans : d # c => buf'[d] = buf[d]
           /\ Len(buf[c]) + 1 \in DOMAIN buf'[c] /\ buf'[c][Len(buf[c]) + 1] = a
           /\ \A i \in DOMAIN buf[c] : i \in DOMAIN buf'[c] /\ buf'[c][i] = buf[c][i]
    BY <1>7, SendEffect
  <2>2. Queued(c)' = {buf'[c][i] : i \in DOMAIN buf'[c]}
    BY DEF Queued
  <2>3. a \in Queued(c)'
    BY <2>1, <2>2
  <2>4. \A d \in Chans : Queued(d) \subseteq Queued(d)'
    <3> TAKE d \in Chans
    <3>1. CASE d = c
      BY <2>1, <3>1 DEF Queued
    <3>2. CASE d # c
      BY <2>1, <3>2 DEF Queued
    <3> QED
      BY <3>1, <3>2
  <2>5. \A d \in Chans, b \in Goroutines : Holds(d, b) => Holds(d, b)'
    BY <2>1, <2>4 DEF Holds
  <2>6. \A k \in Conns : \A b \in got'[k] : pc'[b] = "sent"
    BY <1>g, <2>1 DEF OwedInv
  <2>7. ASSUME NEW b \in Goroutines, pc'[b] = "sent", dest'[b] # Nil,
               conn'[sink'[dest'[b]]] = "open"
        PROVE  \/ \E d \in Chans : d = dest'[b] /\ Holds(d, b)'
               \/ b \in got'[sink'[dest'[b]]]
    <3>1. CASE b = a
      <4>1. Holds(c, b)'
        BY <2>3, <3>1 DEF Holds
      <4> QED
        BY <2>1, <3>1, <4>1
    <3>2. CASE b # a
      <4>1. Holds(dest[b], b) \/ b \in got[sink[dest[b]]]
        BY <2>1, <2>7, <3>2 DEF OwedInv
      <4>2. dest[b] \in Chans
        BY <1>s, <2>1, <2>7
      <4> QED
        BY <2>1, <2>5, <4>1, <4>2
    <3> QED
      BY <3>1, <3>2
  <2> QED
    BY <1>1, <2>6, <2>7
<1>8. ASSUME NEW s \in Senders, Take(s) PROVE OwedInv'
  <2>1. PICK c \in Chans :
           /\ c = drains[s] /\ hand[s] = Nil
           /\ UNCHANGED <<pc, dest, drains, sink, got, conn>>
           /\ \A t \in Senders : t # s => hand'[t] = hand[t]
           /\ \A d \in Chans : d # c => buf'[d] = buf[d]
           /\ \A i \in DOMAIN buf[c] : \/ buf[c][i] = hand'[s]
                                       \/ \E j \in DOMAIN buf'[c] : buf'[c][j] = buf[c][i]
    BY <1>8, TakeEffect
  <2>2. \A d \in Chans, b \in Goroutines : Holds(d, b) => Holds(d, b)'
    <3> SUFFICES ASSUME NEW d \in Chans, NEW b \in Goroutines, Holds(d, b) PROVE Holds(d, b)'
      OBVIOUS
    <3>0. Holds(d, b)' <=> \/ \E i \in DOMAIN buf'[d] : buf'[d][i] = b
                           \/ \E t \in Senders : drains'[t] = d /\ hand'[t] = b
      BY DEF Holds, Queued
    <3>1. CASE \E t \in Senders : drains[t] = d /\ hand[t] = b
      BY <2>1, <3>0, <3>1
    <3>2. CASE d = c /\ \E i \in DOMAIN buf[c] : buf[c][i] = b
      BY <2>1, <3>0, <3>2
    <3>3. CASE d # c /\ \E i \in DOMAIN buf[d] : buf[d][i] = b
      BY <2>1, <3>0, <3>3
    <3> QED
      BY <3>1, <3>2, <3>3 DEF Holds, Queued
  <2> QED
    BY <1>2, <2>1, <2>2
<1>9. ASSUME NEW s \in Senders, Write(s) PROVE OwedInv'
  <2>1. /\ UNCHANGED <<pc, dest, drains, sink, buf, conn>> /\ hand[s] # Nil
        /\ \A t \in Senders : t # s => hand'[t] = hand[t]
        /\ \A k \in Conns : got'[k] = IF k = sink[s] /\ conn[k] = "open"
                                      THEN got[k] \union {hand[s]} ELSE got[k]
    BY <1>9, WriteEffect
  <2>2. drains[s] \in Chans /\ sink[s] \in Conns /\ sink[drains[s]] = sink[s] /\ pc[hand[s]] = "sent"
    BY <2>1, HeldFacts DEF HeldInv
  <2>3. \A d \in Chans, b \in Goroutines :
          Holds(d, b) => Holds(d, b)' \/ (d = drains[s] /\ b = hand[s])
    BY <2>1 DEF Holds, Queued
  <2>4. \A k \in Conns : \A b \in got'[k] : pc'[b] = "sent"
    BY <2>1, <2>2 DEF OwedInv
  <2>5. ASSUME NEW b \in Goroutines, pc'[b] = "sent", dest'[b] # Nil,
               conn'[sink'[dest'[b]]] = "open"
        PROVE  \/ \E d \in Chans : d = dest'[b] /\ Holds(d, b)'
               \/ b \in got'[sink'[dest'[b]]]
    <3>1. dest[b] \in Chans /\ sink[dest[b]] \in Conns /\ conn[sink[dest[b]]] = "open"
      BY <1>s, <2>1, <2>5
    <3>2. Holds(dest[b], b) \/ b \in got[sink[dest[b]]]
      BY <2>1, <2>5 DEF OwedInv
    <3>3. b \in got[sink[dest[b]]] => b \in got'[sink[dest[b]]]
      BY <2>1, <3>1
    <3>4. dest[b] = drains[s] /\ b = hand[s] => b \in got'[sink[dest[b]]]
      BY <2>1, <2>2, <3>1
    <3> QED
      BY <2>1, <2>3, <3>1, <3>2, <3>3, <3>4
  <2> QED
    BY <1>1, <2>4, <2>5
<1> QED
  BY <1>3, <1>4, <1>5, <1>6, <1>7, <1>8, <1>9, UntouchedSteps

\* The invariant says what KeptOnce says.
LEMMA KeptIsOnce == KInv => KeptOnce
<1> SUFFICES ASSUME KInv PROVE KeptOnce
  OBVIOUS
<1>k. IInv /\ HeldInv /\ OwedInv
  BY DEF KInv
<1>1. \A a \in Accepted : conn[sink[dest[a]]] = "open" =>
        Holds(dest[a], a) \/ a \in got[sink[dest[a]]]
  BY <1>k DEF OwedInv, Accepted
<1>2. \A c \in Chans : \A i \in DOMAIN buf[c] :
        Owed(c, buf[c][i]) /\ \A j \in DOMAIN buf[c] : buf[c][i] = buf[c][j] => i = j
  BY <1>k, HeldFacts DEF HeldInv, Owed
<1>3. \A s \in Senders : hand[s] # Nil =>
        Owed(drains[s], hand[s]) /\ hand[s] \notin Queued(drains[s])
        /\ \A t \in Senders : hand[t] = hand[s] => t = s
  BY <1>k, HeldFacts DEF HeldInv, Owed, Queued
<1> QED
  BY <1>1, <1>2, <1>3 DEF KeptOnce

\* The inductive invariant holds throughout.
THEOREM KeptInvariant == Spec => []KInv
<1>1. Init => KInv
  BY InitLinks, InitRoutes, InitKept DEF KInv, IInv
<1>2. KInv /\ [Next]_vars => KInv'
  <2> SUFFICES ASSUME KInv, [Next]_vars PROVE KInv'
    OBVIOUS
  <2>1. IInv'
    BY TypeStep, LinkStep, WireStep, RouteStep DEF IInv, KInv
  <2>2. TypeOK'
    BY <2>1 DEF IInv
  <2> QED
    BY <2>1, <2>2, DialStep, HeldStep, OwedStep DEF KInv
<1> QED
  BY <1>1, <1>2, PTL DEF Spec

\* No accepted message is lost or doubled on an open connection, for any number
\* of goroutines, workers and files and any capacity of the channels.
THEOREM KeptOnceHolds == Spec => []KeptOnce
  BY KeptInvariant, KeptIsOnce, PTL

-----------------------------------------------------------------------------
(* ImplementsDelivery, by refinement. *)

\* Nothing is connected before its Dial, or wired before it is connected.
OpenInv ==
  /\ \A m \in Msgs : pc[m] \in PreDial => conn[m] = "none"
  /\ \A m \in Msgs : pc[m] \in Busy \ PreDial => conn[m] # "none"
  /\ shared # Nil => conn[shared] # "none"
  /\ \A c \in Chans : sink[c] # Nil => conn[sink[c]] # "none"

\* Steps other than a Dial open no connection, and close only open ones.
OnlyCloses == \A k \in Conns : conn'[k] = conn[k] \/ (conn[k] # "none" /\ conn'[k] = "closed")

LEMMA OnlyDialOpens ==
  ASSUME IInv, OpenInv, TypeOK', [Next]_vars
  PROVE  OnlyCloses \/ \E m \in Msgs : Dial(m)
<1> USE NilFacts DEF Step, sessVars, chanVars, connVars, goVars, lifeVars, OnlyCloses
<1>k. TypeOK /\ WireInv
  BY DEF IInv
<1>c. conn[Client] # "none" /\ Client \in Conns
  BY <1>k DEF OpenInv, WireInv, Chans, Conns
<1>1. ASSUME ClientLeaves \/ Check PROVE OnlyCloses
  BY <1>1, <1>c, <1>k DEF ClientLeaves, Check, TypeOK
<1>2. ASSUME CloseShared PROVE OnlyCloses
  BY <1>2, <1>k DEF CloseShared, OpenInv, TypeOK
<1>3. ASSUME DeleteWorker PROVE OnlyCloses
  BY <1>3, <1>c, <1>k DEF DeleteWorker
<1>4. ASSUME NEW w \in Workers, WorkerExits(w) PROVE OnlyCloses
  BY <1>4, <1>k DEF WorkerExits, HangUp, TypeOK
<1>5. CASE UNCHANGED conn
  BY <1>5
<1> HIDE DEF OnlyCloses
<1>6. ASSUME NEW m \in Msgs, Receive(m) \/ HandlerStep(m) PROVE UNCHANGED conn \/ Dial(m)
  BY <1>6 DEF Receive, HandlerStep, Parse, SpawnerStarts, StartFails, StartAnswered, DialFails,
              MakeChan, StartSender, MakeMap, PutBegin, PutEnd, SendRegister, Proxy, QueryStatus,
              MapRace, Crash
<1>7. ASSUME \/ \E r \in Replies : Answer(r) \/ \E w \in Msgs : WorkerSends(r, w)
             \/ \E a \in Goroutines : SendStep(a)
             \/ \E s \in Senders : Take(s) \/ Write(s) \/ PongBegin(s) \/ PongEnd(s)
             \/ \E k \in Conns : WritePanics(k) \/ ReadPanics(k)
             \/ \E w \in Workers : WorkerOrphaned(w)
             \/ PongPanics \/ CloseClientChan \/ AskShutdown
      PROVE  UNCHANGED conn
  BY <1>7 DEF Answer, WorkerSends, SendStep, Send, SendPanics, Take, Write, PongBegin, PongEnd,
              WritePanics, ReadPanics, WorkerOrphaned, PongPanics, CloseClientChan, AskShutdown, Crash
<1> QED
  BY <1>1, <1>2, <1>3, <1>4, <1>5, <1>6, <1>7 DEF Next, Acts, Disconnect, vars

\* Steps other than a Dial and a new channel wire nothing, and leave a handler on
\* its side of the Dial.
StaysOnItsSide ==
  /\ UNCHANGED <<shared, sink>>
  /\ \A m \in Msgs : /\ pc'[m] \in PreDial => pc[m] \in PreDial
                     /\ pc'[m] \in Busy \ PreDial => pc[m] \in Busy \ PreDial

LEMMA OnlyDialCrosses ==
  ASSUME IInv, TypeOK', [Next]_vars
  PROVE  StaysOnItsSide \/ \E m \in Msgs : Dial(m) \/ MakeChan(m)
<1> USE DEF StaysOnItsSide, PreDial, Busy, Goroutines, Step, sessVars, chanVars, connVars, goVars, lifeVars
<1>k. TypeOK
  BY DEF IInv
<1>0. CASE UNCHANGED <<pc, shared, sink>>
  BY <1>0
<1>pc. ASSUME NEW a \in Goroutines, NEW here, NEW there, Step(a, here, there),
              here \in PreDial \/ there \notin PreDial,
              there \in Busy \ PreDial => here \in Busy \ PreDial, UNCHANGED <<shared, sink>>
       PROVE  StaysOnItsSide
  BY <1>pc, <1>k DEF TypeOK
<1>1. ASSUME NEW m \in Msgs,
             \/ Receive(m) \/ Parse(m) \/ SpawnerStarts(m) \/ StartFails(m) \/ StartAnswered(m)
             \/ DialFails(m) \/ StartSender(m) \/ MakeMap(m) \/ PutBegin(m) \/ PutEnd(m)
             \/ SendRegister(m) \/ Proxy(m) \/ QueryStatus(m)
      PROVE  StaysOnItsSide
  <2>1. UNCHANGED <<shared, sink>>
    BY <1>1 DEF Receive, Parse, SpawnerStarts, StartFails, StartAnswered, DialFails, StartSender,
                MakeMap, PutBegin, PutEnd, SendRegister, Proxy, QueryStatus
  <2>2. \E here, there : /\ Step(m, here, there) /\ (here \in PreDial \/ there \notin PreDial)
                         /\ there \in Busy \ PreDial => here \in Busy \ PreDial
    <3> HIDE DEF Step
    <3>1. CASE Receive(m)
      BY <3>1 DEF Receive
    <3>2. CASE Parse(m)
      BY <3>2 DEF Parse
    <3>3. CASE SpawnerStarts(m)
      BY <3>3 DEF SpawnerStarts
    <3>4. CASE StartFails(m)
      BY <3>4 DEF StartFails
    <3>5. CASE StartAnswered(m) \/ DialFails(m)
      BY <3>5 DEF StartAnswered, DialFails
    <3>6. CASE MakeMap(m) \/ PutBegin(m) \/ PutEnd(m) \/ SendRegister(m)
      BY <3>6 DEF MakeMap, PutBegin, PutEnd, SendRegister
    <3>7. CASE Proxy(m) \/ QueryStatus(m)
      BY <3>7 DEF Proxy, QueryStatus
    <3>8. CASE StartSender(m)
      BY <3>8 DEF StartSender, Initialised
    <3> QED
      BY <1>1, <3>1, <3>2, <3>3, <3>4, <3>5, <3>6, <3>7, <3>8
  <2>3. m \in Goroutines
    OBVIOUS
  <2> HIDE DEF Step, PreDial, Busy, StaysOnItsSide, Goroutines
  <2> QED
    BY <1>pc, <2>1, <2>2, <2>3
<1>2. ASSUME NEW r \in Replies, Answer(r) \/ \E w \in Msgs : WorkerSends(r, w)
      PROVE  StaysOnItsSide
  <2>1. \A b \in Msgs : pc'[b] = pc[b]
    BY <1>2, <1>k, SessionAssumption DEF Answer, WorkerSends, TypeOK
  <2> QED
    BY <1>2, <2>1 DEF Answer, WorkerSends
<1>3. ASSUME NEW a \in Goroutines, Send(a) PROVE StaysOnItsSide
  BY <1>3, <1>pc DEF Send
<1> HIDE DEF StaysOnItsSide
<1> QED
  BY <1>0, <1>1, <1>2, <1>3
     DEF Next, Acts, HandlerStep, SendStep, Disconnect, MapRace, SendPanics, WritePanics, ReadPanics, PongPanics,
         Crash, Take, Write, PongBegin, PongEnd, WorkerExits, WorkerOrphaned, ClientLeaves, CloseClientChan,
         Check, CloseShared, AskShutdown, DeleteWorker, vars

LEMMA OpenStep ==
  IInv /\ OpenInv /\ TypeOK' /\ [Next]_vars => OpenInv'
<1> SUFFICES ASSUME IInv, OpenInv, TypeOK', [Next]_vars PROVE OpenInv'
  OBVIOUS
<1> USE NilFacts
<1>k. TypeOK /\ LinkInv
  BY DEF IInv
<1>1. ASSUME NEW m \in Msgs, Dial(m) PROVE OpenInv'
  <2>1. /\ \A b \in Msgs : b # m => pc'[b] = pc[b]
        /\ pc'[m] = "ready" /\ conn'[m] = "open"
        /\ \A k \in Conns : k # m => conn'[k] = conn[k]
        /\ shared' \in {shared, m} /\ UNCHANGED sink
    BY <1>1, <1>k DEF Dial, Connect, Step, TypeOK, chanVars, Conns, Goroutines
  <2>2. "ready" \notin PreDial
    BY DEF PreDial
  <2>3. shared \in Msgs \union {Nil} /\ \A c \in Chans : sink[c] \in Conns \union {Nil}
    BY <1>k DEF TypeOK
  <2>4. \A b \in Msgs : /\ pc'[b] \in PreDial => conn'[b] = "none"
                        /\ pc'[b] \in Busy \ PreDial => conn'[b] # "none"
    BY <2>1, <2>2 DEF OpenInv, Conns
  <2>5. shared' # Nil => conn'[shared'] # "none"
    BY <2>1, <2>3 DEF OpenInv, Conns
  <2>6. \A c \in Chans : sink'[c] # Nil => conn'[sink'[c]] # "none"
    BY <2>1, <2>3 DEF OpenInv
  <2> QED
    BY <2>4, <2>5, <2>6 DEF OpenInv
<1>2. ASSUME NEW m \in Msgs, MakeChan(m) PROVE OpenInv'
  <2>1. /\ \A b \in Msgs : b # m => pc'[b] = pc[b]
        /\ pc[m] = "ready" /\ pc'[m] = "made"
        /\ UNCHANGED <<shared, conn>> /\ sink'[m] = Target(m)
        /\ \A c \in Chans : c # m => sink'[c] = sink[c]
    BY <1>2, <1>k DEF MakeChan, Step, TypeOK, sessVars, connVars, Chans, Conns, Goroutines
  <2>2. conn[Target(m)] # "none"
    <3>1. CASE Kind[m] = "register"
      BY <2>1, <3>1, <1>k DEF Target, LinkInv, OpenInv
    <3>2. CASE Kind[m] # "register"
      BY <2>1, <3>2 DEF Target, OpenInv, Busy, PreDial
    <3> QED
      BY <3>1, <3>2
  <2>3. conn[m] # "none"
    BY <2>1 DEF OpenInv, Busy, PreDial
  <2>4. \A c \in Chans : sink'[c] # Nil => conn'[sink'[c]] # "none"
    BY <2>1, <2>2 DEF OpenInv
  <2> QED
    BY <2>1, <2>3, <2>4 DEF OpenInv, PreDial
<1>3. ASSUME OnlyCloses, StaysOnItsSide PROVE OpenInv'
  <2>1. \A k \in Conns : conn'[k] = "none" <=> conn[k] = "none"
    BY <1>3 DEF OnlyCloses
  <2>2. (shared # Nil => shared \in Conns) /\ \A c \in Chans : sink[c] # Nil => sink[c] \in Conns
    BY <1>k DEF TypeOK, Conns
  <2>3. UNCHANGED <<shared, sink>>
    BY <1>3 DEF StaysOnItsSide
  <2>4. shared' # Nil => conn'[shared'] # "none"
    BY <2>1, <2>2, <2>3 DEF OpenInv
  <2>5. \A c \in Chans : sink'[c] # Nil => conn'[sink'[c]] # "none"
    BY <2>1, <2>2, <2>3 DEF OpenInv
  <2>6. \A m \in Msgs : /\ pc'[m] \in PreDial => conn'[m] = "none"
                        /\ pc'[m] \in Busy \ PreDial => conn'[m] # "none"
    BY <1>3, <2>1 DEF StaysOnItsSide, OpenInv, Conns
  <2> QED
    BY <2>4, <2>5, <2>6 DEF OpenInv
<1> QED
  BY <1>1, <1>2, <1>3, OnlyDialOpens, OnlyDialCrosses

\* A sequence without positions is empty.
LEMMA NothingIn ==
  ASSUME NEW T, NEW q \in Seq(T), DOMAIN q = {}
  PROVE  q = <<>>
<1>1. Len(q) \in Nat /\ DOMAIN q = 1 .. Len(q)
  OBVIOUS
<1>2. Len(q) = 0
  BY <1>1
<1> QED
  BY <1>2

\* A step of the session is a step of Delivery, or changes nothing that Delivery
\* sees.
LEMMA DeliveryStep ==
  ASSUME KInv, OpenInv, TypeOK', [Next]_vars
  PROVE  [D!Next]_(D!vars)
<1> USE NilFacts DEF Step, sessVars, chanVars, connVars, goVars, lifeVars
<1>k. TypeOK /\ LinkInv /\ WireInv /\ RouteInv /\ IInv /\ HeldInv
  BY DEF KInv, IInv
<1>1. ASSUME Untouched, OnlyCloses PROVE D!Next
  <2>1. Accepted' = Accepted
    BY <1>1 DEF Untouched, Accepted
  <2>2. UNCHANGED <<buf, sink, drains, hand, got>>
    BY <1>1 DEF Untouched
  <2>3. conn' \in [Conns -> {"none", "open", "closed"}]
    BY DEF TypeOK
  <2>4. conn \in [Conns -> {"none", "open", "closed"}]
    BY <1>k DEF TypeOK
  <2>5. \A k \in Conns : conn'[k] # conn[k] => conn[k] = "open" /\ conn'[k] = "closed"
    BY <1>1, <2>4 DEF OnlyCloses
  <2>6. D!Close
    BY <2>1, <2>2, <2>3, <2>5 DEF D!Close
  <2> QED
    BY <2>6 DEF D!Next
<1>2. ASSUME NEW m \in Msgs, Dial(m) PROVE D!Next
  <2>1. Accepted' = Accepted
    BY <1>2, <1>k DEF Dial, Connect, Accepted, TypeOK
  <2>2. UNCHANGED <<buf, sink, drains, hand, got>> /\ conn' = [conn EXCEPT ![m] = "open"]
    BY <1>2 DEF Dial, Connect
  <2>3. conn[m] = "none" /\ m \in Conns
    BY <1>2 DEF Dial, Connect, OpenInv, PreDial, Conns
  <2>4. D!Open(m)
    BY <2>1, <2>2, <2>3 DEF D!Open
  <2> QED
    BY <2>3, <2>4 DEF D!Next
<1>3. ASSUME NEW m \in Msgs, MakeChan(m) PROVE D!Next
  <2>1. Accepted' = Accepted
    BY <1>3, <1>k DEF MakeChan, Accepted, TypeOK
  <2>2. UNCHANGED <<buf, drains, hand, conn, got>> /\ sink' = [sink EXCEPT ![m] = Target(m)]
    BY <1>3 DEF MakeChan
  <2>3. pc[m] = "ready" /\ m \in Chans
    BY <1>3 DEF MakeChan, Chans, Conns
  <2>4. sink[m] = Nil /\ buf[m] = <<>>
    <3>1. sink[m] = Nil /\ DOMAIN buf[m] = {}
      BY <2>3, <1>k, NewIsEmpty
    <3>2. buf[m] \in Seq(Goroutines)
      BY <2>3, <1>k DEF TypeOK
    <3> QED
      BY <3>1, <3>2, NothingIn
  <2>5. Target(m) \in Conns /\ conn[Target(m)] # "none"
    <3>1. CASE Kind[m] = "register"
      BY <2>3, <3>1, <1>k DEF Target, LinkInv, OpenInv, TypeOK, Conns
    <3>2. CASE Kind[m] # "register"
      BY <2>3, <3>2 DEF Target, OpenInv, Busy, PreDial, Conns
    <3> QED
      BY <3>1, <3>2
  <2>6. D!Attach(m, Target(m))
    BY <2>1, <2>2, <2>4, <2>5 DEF D!Attach
  <2> QED
    BY <2>3, <2>5, <2>6 DEF D!Next
<1>4. ASSUME NEW m \in Msgs, StartSender(m) PROVE D!Next
  <2> DEFINE c == sendChan[sink[m]]
  <2>1. Accepted' = Accepted
    BY <1>4, <1>k DEF StartSender, Initialised, Accepted, TypeOK
  <2>2. UNCHANGED <<buf, sink, hand, conn, got>> /\ drains' = [drains EXCEPT ![m] = c]
    BY <1>4 DEF StartSender
  <2>3. pc[m] = "made" /\ m \in Senders
    BY <1>4 DEF StartSender, Senders, Conns
  <2>4. drains[m] = Nil
    BY <2>3, <1>k, NewIsEmpty
  <2>5. c \in Chans /\ sink[c] # Nil
    <3>1. sink[m] \in Msgs
      BY <2>3, <1>k DEF LinkInv
    <3>2. c # Nil /\ c \in Msgs
      BY <3>1, <1>k DEF WireInv, TypeOK
    <3>3. sink[c] = sink[m]
      BY <3>1, <3>2, <1>k DEF WireInv
    <3> QED
      BY <3>1, <3>2, <3>3 DEF Chans, Conns
  <2> HIDE DEF c
  <2>6. D!Join(m, c)
    BY <2>1, <2>2, <2>4, <2>5 DEF D!Join
  <2> QED
    BY <2>3, <2>5, <2>6 DEF D!Next
<1>5. ASSUME NEW a \in Goroutines, Send(a) PROVE D!Next
  <2>1. PICK c \in Chans :
           /\ c = dest[a] /\ c # Nil /\ sink[c] \in Conns
           /\ UNCHANGED <<dest, drains, hand, sink, got, conn>>
           /\ pc[a] = "sending"
           /\ \A b \in Goroutines : pc'[b] = IF b = a THEN "sent" ELSE pc[b]
           /\ buf' = [buf EXCEPT ![c] = Append(buf[c], a)] /\ Len(buf[c]) < Cap
    BY <1>5, <1>k, SendEffect
  <2>2. a \notin Accepted /\ Accepted' = Accepted \union {a}
    BY <2>1 DEF Accepted
  <2>3. sink[c] # Nil
    BY <2>1
  <2>4. D!Accept(a, c)
    BY <2>1, <2>2, <2>3 DEF D!Accept
  <2> QED
    BY <2>4 DEF D!Next
<1>6. ASSUME NEW s \in Senders, Take(s) PROVE D!Next
  <2>1. PICK c \in Chans :
           /\ c = drains[s] /\ hand[s] = Nil /\ buf[c] # <<>>
           /\ UNCHANGED <<pc, dest, drains, sink, got, conn>>
           /\ hand' = [hand EXCEPT ![s] = Head(buf[c])] /\ buf' = [buf EXCEPT ![c] = Tail(buf[c])]
    BY <1>6, <1>k, TakeEffect
  <2>2. Accepted' = Accepted
    BY <2>1 DEF Accepted
  <2>3. D!Take(s, c)
    BY <2>1, <2>2 DEF D!Take
  <2> QED
    BY <2>3 DEF D!Next
<1>7. ASSUME NEW s \in Senders, Write(s) PROVE D!Next
  <2> DEFINE k == sink[s]
  <2>1. /\ UNCHANGED <<pc, dest, drains, sink, buf, conn>>
        /\ hand[s] # Nil /\ hand' = [hand EXCEPT ![s] = Nil]
        /\ got' = [got EXCEPT ![k] = IF conn[k] = "open" THEN @ \union {hand[s]} ELSE @]
    BY <1>7, <1>k, WriteEffect DEF Write
  <2>2. k \in Conns /\ sink[drains[s]] = k /\ hand[s] \notin got[k]
    BY <2>1, <1>k, HeldFacts DEF HeldInv
  <2>3. conn[k] # "none"
    BY <2>1, <2>2 DEF OpenInv, Senders, Chans
  <2>4. Accepted' = Accepted
    BY <2>1 DEF Accepted
  <2>5. CASE conn[k] = "open"
    <3>1. got' = [got EXCEPT ![k] = @ \union {hand[s]}]
      BY <2>1, <2>5
    <3>2. D!Deliver(s, k)
      BY <2>1, <2>2, <2>4, <2>5, <3>1 DEF D!Deliver
    <3> QED
      BY <2>2, <3>2 DEF D!Next
  <2>6. CASE conn[k] # "open"
    <3>1. got' = got /\ conn[k] = "closed"
      BY <2>1, <2>2, <2>3, <2>6, <1>k DEF TypeOK
    <3>2. D!Lose(s)
      BY <2>1, <2>2, <2>4, <3>1 DEF D!Lose
    <3> QED
      BY <3>2 DEF D!Next
  <2> QED
    BY <2>5, <2>6
<1>8. Untouched => OnlyCloses \/ \E m \in Msgs : Dial(m)
  BY <1>k, OnlyDialOpens
<1> QED
  BY <1>1, <1>2, <1>3, <1>4, <1>5, <1>6, <1>7, <1>8, <1>k, UntouchedSteps

\* At first there is the client's connection and its line.
LEMMA InitDelivery == Init => OpenInv /\ D!Init
<1> SUFFICES ASSUME Init PROVE OpenInv /\ D!Init
  OBVIOUS
<1>1. OpenInv
  BY NilFacts DEF Init, OpenInv, PreDial, Busy, Goroutines, Conns, Chans
<1>2. Accepted = {}
  BY DEF Init, Accepted
<1> QED
  BY <1>1, <1>2 DEF Init, D!Init

\* Whatever the handlers, senders and readers of a session do at once, also two
\* REGISTER_VIEWERs that run handleInit on one SessionWorker, its channels deliver
\* what they accept, once, as long as the connection at their end lives: the
\* session implements Delivery.
THEOREM SessionImplementsDelivery == Spec => ImplementsDelivery
<1>1. Init => OpenInv
  BY InitDelivery
<1>2. KInv /\ KInv' /\ OpenInv /\ [Next]_vars => OpenInv' /\ [D!Next]_(D!vars)
  BY OpenStep, DeliveryStep DEF KInv, IInv
<1> QED
  BY KeptInvariant, <1>1, <1>2, InitDelivery, PTL DEF Spec, ImplementsDelivery, D!Spec

=============================================================================
