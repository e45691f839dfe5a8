------------------------ MODULE SessionFramesProofs ------------------------
(***************************************************************************)
(* Proofs about a session and its frames, for bytes of 256 values and for  *)
(* any messages, workers and lengths of the frames.                        *)
(***************************************************************************)
EXTENDS SessionFrames, SessionProofs, CodecProofs

\* The body of a frame is a sequence of bytes.
LEMMA BodyTyped ==
  ASSUME NEW frame \in Seq(Bytes), Valid(frame)
  PROVE  Body(frame) \in Seq(Bytes)
<1>1. Len(frame) \in Nat /\ \A i \in 9 .. Len(frame) : frame[i] \in Bytes
  BY LenProperties, ElementOfSeq
<1> QED
  BY <1>1, SubSeqProperties DEF Body

\* ExtractFileIdFromBytes finds an id only in messages that have one.
LEMMA KeyedParses ==
  ASSUME NEW event, NEW body, ExtractFileIdFromBytes(event, body)[2]
  PROVE  event \in DOMAIN FileIdType /\ FileIdType[event] # "none" /\ Parses(body)
<1>1. CASE ~Unmarshals(event, body)
  BY <1>1 DEF ExtractFileIdFromBytes
<1>2. CASE Unmarshals(event, body)
  <2>1. ExtractFileIdFromBytes(event, body) = ExtractFileId(event, body)
    BY <1>2 DEF ExtractFileIdFromBytes
  <2>2. CASE FileIdType[event] = "none"
    <3>1. FileIdType[event] # "int32" /\ FileIdType[event] # "uint32"
      BY <2>2
    <3>2. ExtractFileId(event, body) = <<-1, FALSE>>
      BY <3>1 DEF ExtractFileId
    <3> QED
      BY <2>1, <3>2
  <2> QED
    BY <1>2, <2>2 DEF Unmarshals
<1> QED
  BY <1>1, <1>2

\* The key of fileMap of a message with a file id is the int32 that has the
\* bits of the id.
LEMMA KeyFacts ==
  ASSUME Byte = 256, NEW m \in Msgs, File[m] # Nil
  PROVE  /\ Bits(m) \in Nat /\ Bits(m) < 4294967296
         /\ File[m] = Signed(Bits(m))
<1> DEFINE e == DecodeMessagePrefix(Frames[m]).EventType  b == Body(Frames[m])
<1>1. Frames[m] \in Seq(Bytes) /\ Valid(Frames[m]) /\ File[m] = KeyOf(Frames[m])
  BY FramesAssumption DEF FramesAssumption
<1>2. b \in Seq(Bytes)
  BY <1>1, BodyTyped
<1>3. FileKey(Frames[m]) = ExtractFileIdFromBytes(e, b)
  BY DEF FileKey
<1>4. FileKey(Frames[m])[2] /\ File[m] = FileKey(Frames[m])[1]
  BY <1>1 DEF KeyOf
<1>5. Bits(m) = FileBits(b)
  BY DEF Bits
<1> HIDE DEF e, b
<1>6. e \in DOMAIN FileIdType /\ FileIdType[e] # "none" /\ Parses(b)
  BY <1>3, <1>4, KeyedParses
<1>7. FileKey(Frames[m]) = <<Signed(FileBits(b)), TRUE>>
  BY <1>2, <1>3, <1>6, KeyIsSigned
<1>8. FileBits(b) \in Nat /\ FileBits(b) < 4294967296
  BY <1>2, <1>6, BitsFit
<1> QED
  BY <1>4, <1>5, <1>7, <1>8

\* Two messages have the same key if and only if they have the same bits.
LEMMA SameKeySameBits ==
  ASSUME Byte = 256, NEW m \in Msgs, NEW w \in Msgs, File[m] # Nil, File[w] # Nil
  PROVE  File[m] = File[w] <=> Bits(m) = Bits(w)
<1>1. /\ Bits(m) \in Nat /\ Bits(m) < 4294967296 /\ File[m] = Signed(Bits(m))
      /\ Bits(w) \in Nat /\ Bits(w) < 4294967296 /\ File[w] = Signed(Bits(w))
  BY KeyFacts
<1>2. Signed(Bits(m)) = Signed(Bits(w)) <=> Bits(m) = Bits(w)
  BY <1>1, SignedIsOneToOne
<1> QED
  BY <1>1, <1>2

\* cartaHelpers.go:59-77, shared.go:26-62: over the connection of an OPEN_FILE go
\* the messages with the bits of its own file id, byte for byte as the client sent
\* them, to the worker started for that file, as long as it runs.
THEOREM WorkersGetTheirFramesHolds ==
  ASSUME Byte = 256
  PROVE  Spec => []WorkersGetTheirFrames
<1>1. TypeOK /\ WorkersGetTheirOwn => WorkersGetTheirFrames
  <2> SUFFICES ASSUME TypeOK, WorkersGetTheirOwn, NEW w \in Msgs, NEW m \in Msgs,
                      m \in got[w], Kind[w] = "open", Kind[m] = "proxied"
               PROVE  /\ Forwarded(Frames[m]) = Frames[m] /\ SameFile(m, w)
                      /\ remote[w] = w \/ w \notin alive
    BY DEF WorkersGetTheirFrames
  <2>1. w \in Conns /\ w # Client /\ m \notin Replies
    BY NilFacts, SessionAssumption DEF Conns
  <2>2. m # w /\ m \notin ack
    BY <2>1 DEF TypeOK
  <2>3. File[m] = File[w]
    BY <2>1, <2>2 DEF WorkersGetTheirOwn, Belongs
  <2>4. File[w] # Nil
    BY SessionAssumption
  <2>5. Bits(m) = Bits(w)
    BY <2>3, <2>4, SameKeySameBits
  <2>6. Forwarded(Frames[m]) = Frames[m]
    BY FramesAssumption, ForwardedUnchanged DEF FramesAssumption
  <2>7. remote[w] = w \/ w \notin alive
    BY <2>1 DEF WorkersGetTheirOwn
  <2> QED
    BY <2>3, <2>4, <2>5, <2>6, <2>7 DEF SameFile
<1> QED
  BY <1>1, SessionTypeOK, WorkersGetTheirOwnHolds, PTL

\* Only handleProxiedMessage sends a client's message as soon as it is here.
LEMMA OnlyProxySends ==
  ASSUME TypeOK, NEW m \in Msgs, [Next]_vars, pc[m] = "received", pc'[m] = "sending"
  PROVE  Proxy(m)
<1> USE NilFacts DEF Goroutines, Step, Crash, sessVars, chanVars, connVars, goVars, lifeVars
<1>a. pc \in [Goroutines -> Pc] /\ \A x \in Goroutines : \A there : pc' = [pc EXCEPT ![x] = there] =>
         pc'[m] = IF x = m THEN there ELSE pc[m]
  BY DEF TypeOK
<1>1. CASE UNCHANGED vars
  BY <1>1 DEF vars
<1>2. ASSUME NEW n \in Msgs, Receive(n) \/ HandlerStep(n) PROVE Proxy(m)
  <2>1. ASSUME \/ Receive(n) \/ Parse(n) \/ SpawnerStarts(n) \/ StartFails(n) \/ StartAnswered(n)
               \/ DialFails(n) \/ Dial(n) \/ MakeChan(n) \/ StartSender(n) \/ MakeMap(n)
               \/ PutBegin(n) \/ PutEnd(n) \/ SendRegister(n) \/ QueryStatus(n) \/ MapRace(n)
        PROVE  FALSE
    BY <2>1, <1>a DEF Receive, Parse, SpawnerStarts, StartFails, StartAnswered, DialFails, Dial, Connect,
      MakeChan, StartSender, Initialised, MakeMap, PutBegin, PutEnd, SendRegister, QueryStatus, MapRace
  <2>2. CASE Proxy(n)
    BY <2>2, <1>a DEF Proxy
  <2> QED
    BY <1>2, <2>1, <2>2 DEF HandlerStep
<1>3. ASSUME NEW r \in Replies, Answer(r) \/ \E w \in Msgs : WorkerSends(r, w) PROVE FALSE
  <2>1. r # m /\ r \in Goroutines
    BY SessionAssumption
  <2> QED
    BY <1>3, <1>a, <2>1 DEF Answer, WorkerSends
<1>4. ASSUME NEW x \in Goroutines, SendStep(x) PROVE FALSE
  BY <1>4, <1>a DEF SendStep, Send, SendPanics
<1>5. ASSUME \/ \E s \in Senders : Take(s) \/ Write(s)
             \/ \E s \in Senders : PongBegin(s) \/ PongEnd(s)
             \/ \E k \in Conns : WritePanics(k) \/ ReadPanics(k)
             \/ \E w \in Workers : WorkerExits(w) \/ WorkerOrphaned(w)
             \/ ClientLeaves \/ PongPanics \/ Disconnect
      PROVE  FALSE
  BY <1>5 DEF Take, Write, PongBegin, PongEnd, WritePanics, ReadPanics, WorkerExits,
    WorkerOrphaned, ClientLeaves, PongPanics,
    Disconnect, CloseClientChan, Check, CloseShared, AskShutdown, DeleteWorker
<1> QED
  BY <1>1, <1>2, <1>3, <1>4, <1>5 DEF Next, Acts

\* shared.go:26-45: while a file's worker is in fileMap, every message with the
\* bits of that file goes to its channel, whatever the type of the id.
THEOREM RoutedByBitsHolds ==
  ASSUME Byte = 256
  PROVE  Spec => RoutedByBits
<1>1. ASSUME TypeOK, [Next]_vars, NEW w \in Msgs, NEW m \in Msgs,
             Kind[m] = "proxied", pc[m] = "received", pc'[m] = "sending",
             Kind[w] = "open", mapMade, fileMap[File[w]] = w, SameFile(m, w)
      PROVE  dest'[m] = sendChan[w]
  <2>1. Proxy(m)
    BY <1>1, OnlyProxySends
  <2>2. File[w] # Nil /\ File[m] # Nil /\ w # Nil
    BY <1>1, NilFacts, SessionAssumption DEF SameFile
  <2>3. File[m] = File[w]
    BY <1>1, <2>2, SameKeySameBits DEF SameFile
  <2>4. Route(m) = w
    BY <1>1, <2>2, <2>3 DEF Route
  <2>5. dest' = [dest EXCEPT ![m] = sendChan[w]]
    BY <2>1, <2>2, <2>4 DEF Proxy
  <2>6. m \in DOMAIN dest
    BY <1>1 DEF TypeOK, Goroutines
  <2> QED
    BY <2>5, <2>6
<1>2. TypeOK /\ [Next]_vars =>
        [\A m \in Msgs : Kind[m] = "proxied" /\ pc[m] = "received" /\ pc'[m] = "sending" =>
           \A w \in Msgs :
             Kind[w] = "open" /\ mapMade /\ fileMap[File[w]] = w /\ SameFile(m, w)
             => dest'[m] = sendChan[w]]_vars
  BY <1>1
<1> QED
  BY <1>2, SessionTypeOK, PTL DEF Spec, RoutedByBits
=============================================================================
