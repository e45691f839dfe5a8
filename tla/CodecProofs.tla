---------------------------- MODULE CodecProofs ----------------------------
(***************************************************************************)
(* What carta-ctl relies on when it takes frames apart and builds them     *)
(* again, for bytes of eight bits and frames of any length.                *)
(***************************************************************************)
EXTENDS Codec, SequenceTheorems, TLAPS

-----------------------------------------------------------------------------
(* Words and their bytes. *)

\* The words of bytes of eight bits.
LEMMA Words ==
  ASSUME Byte = 256
  PROVE  /\ Word = 65536 /\ Half = 2147483648
         /\ \A n \in Nat : /\ n \in Bytes <=> n < 256
                           /\ n \in Uint16s <=> n < 65536
                           /\ n \in Uint32s <=> n < 4294967296
         /\ Bytes \subseteq Nat /\ Uint16s \subseteq Nat /\ Uint32s \subseteq Nat
<1>1. Word = 65536
  BY SMT DEF Word
<1>2. Word * Word = 4294967296
  BY SMT, <1>1
<1>3. Half = 2147483648
  BY SMT, <1>2 DEF Half
<1>a. \A n \in Nat, k \in Int : n \in 0 .. k - 1 <=> n < k
  BY SMT
<1>4. \A n \in Nat : n \in Bytes <=> n < 256
  BY <1>a DEF Bytes
<1>5. \A n \in Nat : n \in Uint16s <=> n < 65536
  <2>1. Word \in Int
    BY SMT, <1>1
  <2>2. \A n \in Nat : n \in Uint16s <=> n < Word
    BY <1>a, <2>1 DEF Uint16s
  <2> QED
    BY SMT, <2>2, <1>1
<1>6. \A n \in Nat : n \in Uint32s <=> n < 4294967296
  <2> DEFINE k == Word * Word
  <2>1. k \in Int
    BY SMT, <1>2
  <2>2. \A n \in Nat : n \in 0 .. k - 1 <=> n < k
    BY <1>a, <2>1
  <2> QED
    BY SMT, <2>2, <1>2 DEF Uint32s
<1>7. Bytes \subseteq Nat /\ Uint16s \subseteq Nat /\ Uint32s \subseteq Nat
  BY SMT DEF Bytes, Uint16s, Uint32s
<1> QED
  BY <1>1, <1>3, <1>4, <1>5, <1>6, <1>7

\* A number below 256^2 has two bytes, and they give it back.
LEMMA TwoBytes ==
  ASSUME NEW n \in Nat, n < 65536
  PROVE  /\ n % 256 \in Nat /\ n % 256 < 256 /\ n \div 256 \in Nat /\ n \div 256 < 256
         /\ (n % 256) + 256 * (n \div 256) = n
  BY SMT

\* Two bytes make a number below 256^2 that has these bytes.
LEMMA TwoBytesBack ==
  ASSUME NEW a \in Nat, a < 256, NEW b \in Nat, b < 256
  PROVE  /\ a + 256 * b \in Nat /\ a + 256 * b < 65536
         /\ (a + 256 * b) % 256 = a /\ (a + 256 * b) \div 256 = b
  BY SMT

\* A number below 256^4 has two halves, and they give it back.
LEMMA TwoHalves ==
  ASSUME NEW n \in Nat, n < 4294967296
  PROVE  /\ n % 65536 \in Nat /\ n % 65536 < 65536 /\ n \div 65536 \in Nat /\ n \div 65536 < 65536
         /\ (n % 65536) + 65536 * (n \div 65536) = n
  BY SMT

\* Two halves make a number below 256^4 that has these halves.
LEMMA TwoHalvesBack ==
  ASSUME NEW a \in Nat, a < 65536, NEW b \in Nat, b < 65536
  PROVE  /\ a + 65536 * b \in Nat /\ a + 65536 * b < 4294967296
         /\ (a + 65536 * b) % 65536 = a /\ (a + 65536 * b) \div 65536 = b
  BY SMT

-----------------------------------------------------------------------------
(* Sequences of eight bytes in front of a body. *)

\* Two bytes, two bytes and four bytes are a prefix of eight.
LEMMA EightInARow ==
  ASSUME NEW S, NEW u \in Seq(S), NEW v \in Seq(S), NEW w \in Seq(S),
         Len(u) = 2, Len(v) = 2, Len(w) = 4
  PROVE  /\ (u \o v) \o w \in Seq(S) /\ Len((u \o v) \o w) = 8
         /\ LET p == (u \o v) \o w
            IN  /\ p[1] = u[1] /\ p[2] = u[2] /\ p[3] = v[1] /\ p[4] = v[2]
                /\ p[5] = w[1] /\ p[6] = w[2] /\ p[7] = w[3] /\ p[8] = w[4]
<1> DEFINE x == u \o v  p == x \o w
<1>1. /\ x \in Seq(S) /\ Len(x) = Len(u) + Len(v)
      /\ \A i \in 1 .. Len(u) + Len(v) : x[i] = IF i <= Len(u) THEN u[i] ELSE v[i - Len(u)]
  BY ConcatProperties
<1> HIDE DEF x
<1>2. /\ Len(x) = 4
      /\ x[1] = u[1] /\ x[2] = u[2] /\ x[3] = v[1] /\ x[4] = v[2]
  BY SMT, <1>1
<1>b. x \in Seq(S)
  BY <1>1
<1>3. /\ p \in Seq(S) /\ Len(p) = Len(x) + Len(w)
      /\ \A i \in 1 .. Len(x) + Len(w) : p[i] = IF i <= Len(x) THEN x[i] ELSE w[i - Len(x)]
  BY <1>b, ConcatProperties
<1> HIDE DEF p
<1>4. /\ p[1] = x[1] /\ p[2] = x[2] /\ p[3] = x[3] /\ p[4] = x[4]
      /\ p[5] = w[1] /\ p[6] = w[2] /\ p[7] = w[3] /\ p[8] = w[4]
      /\ Len(p) = 8
  BY SMT, <1>2, <1>3
<1> QED
  BY <1>2, <1>3, <1>4 DEF p, x

\* Putting eight bytes in front of a body: length, positions and the body itself.
LEMMA EightInFront ==
  ASSUME NEW S, NEW p \in Seq(S), Len(p) = 8, NEW body \in Seq(S)
  PROVE  /\ p \o body \in Seq(S) /\ Len(p \o body) >= 8
         /\ \A i \in 1 .. 8 : (p \o body)[i] = p[i]
         /\ SubSeq(p \o body, 9, Len(p \o body)) = body
<1> DEFINE f == p \o body  b == SubSeq(f, 9, Len(f))
<1>0. Len(body) \in Nat
  BY LenProperties
<1>a. /\ f \in Seq(S) /\ Len(f) = Len(p) + Len(body)
      /\ \A i \in 1 .. Len(p) + Len(body) : f[i] = IF i <= Len(p) THEN p[i] ELSE body[i - Len(p)]
  BY ConcatProperties
<1> HIDE DEF f
<1>1. /\ f \in Seq(S) /\ Len(f) = 8 + Len(body) /\ Len(body) \in Nat
      /\ \A i \in 1 .. 8 + Len(body) : f[i] = IF i <= 8 THEN p[i] ELSE body[i - 8]
  BY <1>0, <1>a
<1>2. \A i \in 9 .. Len(f) : f[i] \in S
  BY <1>1, ElementOfSeq
<1>3. /\ b \in Seq(S) /\ Len(b) = IF 9 <= Len(f) THEN Len(f) - 9 + 1 ELSE 0
      /\ \A i \in 1 .. Len(f) - 9 + 1 : b[i] = f[9 + i - 1]
  BY <1>1, <1>2, SubSeqProperties
<1> HIDE DEF b
<1>4. Len(b) = Len(body) /\ \A i \in 1 .. Len(b) : b[i] = body[i]
  BY <1>1, <1>3
<1>5. b = body
  BY <1>3, <1>4, SeqEqual
<1> QED
  BY <1>1, <1>5 DEF f, b

\* A frame of eight bytes or more is its first eight bytes and the rest.
LEMMA EightOff ==
  ASSUME NEW S, NEW frame \in Seq(S), Len(frame) >= 8, NEW p \in Seq(S), Len(p) = 8,
         \A i \in 1 .. 8 : p[i] = frame[i]
  PROVE  /\ SubSeq(frame, 9, Len(frame)) \in Seq(S)
         /\ p \o SubSeq(frame, 9, Len(frame)) = frame
<1> DEFINE b == SubSeq(frame, 9, Len(frame))  f == p \o b
<1>1. Len(frame) \in Nat /\ \A i \in 9 .. Len(frame) : frame[i] \in S
  BY LenProperties, ElementOfSeq
<1>2. /\ b \in Seq(S) /\ Len(b) = IF 9 <= Len(frame) THEN Len(frame) - 9 + 1 ELSE 0
      /\ \A i \in 1 .. Len(frame) - 9 + 1 : b[i] = frame[9 + i - 1]
  BY <1>1, SubSeqProperties
<1> HIDE DEF b
<1>d. b \in Seq(S)
  BY <1>2
<1>a. /\ f \in Seq(S) /\ Len(f) = Len(p) + Len(b)
      /\ \A i \in 1 .. Len(p) + Len(b) : f[i] = IF i <= Len(p) THEN p[i] ELSE b[i - Len(p)]
  BY <1>d, ConcatProperties
<1> HIDE DEF f
<1>3. /\ f \in Seq(S) /\ Len(f) = 8 + Len(b)
      /\ \A i \in 1 .. 8 + Len(b) : f[i] = IF i <= 8 THEN p[i] ELSE b[i - 8]
  BY <1>a
<1>4. Len(b) = Len(frame) - 8 /\ Len(f) = Len(frame)
  <2>1. Len(frame) \in Nat
    BY <1>1
  <2>2. Len(b) = IF 9 <= Len(frame) THEN Len(frame) - 9 + 1 ELSE 0
    BY <1>2
  <2>3. Len(b) = Len(frame) - 8
    <3>1. CASE Len(frame) = 8
      BY <2>2, <3>1
    <3>2. CASE Len(frame) >= 9
      BY <2>1, <2>2, <3>2
    <3>3. Len(frame) = 8 \/ Len(frame) >= 9
      BY SMT, <2>1
    <3> QED
      BY <3>1, <3>2, <3>3
  <2>4. Len(f) = 8 + Len(b)
    BY <1>3
  <2> QED
    BY SMT, <2>1, <2>3, <2>4
<1>c. \A i \in 1 .. Len(f) : f[i] = frame[i]
  <2> SUFFICES ASSUME NEW i \in 1 .. Len(f) PROVE f[i] = frame[i]
    OBVIOUS
  <2>1. CASE i <= 8
    BY SMT, <2>1, <1>1, <1>3, <1>4
  <2>2. CASE i > 8
    <3>1. i - 8 \in 1 .. Len(frame) - 9 + 1 /\ 9 + (i - 8) - 1 = i
      BY SMT, <2>2, <1>1, <1>4
    <3>2. b[i - 8] = frame[i]
      BY <3>1, <1>2
    <3>3. f[i] = b[i - 8]
      BY SMT, <2>2, <1>1, <1>3, <1>4
    <3> QED
      BY <3>2, <3>3
  <2> QED
    BY SMT, <2>1, <2>2, <1>1, <1>4
<1>5. f = frame
  BY <1>3, <1>4, <1>c, SeqEqual
<1> QED
  BY <1>2, <1>5 DEF f, b

-----------------------------------------------------------------------------
(* Frames. *)

\* The bytes of a number below 256^4, from the low end.
LEMMA FourBytes ==
  ASSUME Byte = 256, NEW n \in Nat, n < 4294967296
  PROVE  /\ PutUint32(n) \in Seq(Bytes) /\ Len(PutUint32(n)) = 4
         /\ PutUint32(n)[1] = (n % 65536) % 256 /\ PutUint32(n)[2] = (n % 65536) \div 256
         /\ PutUint32(n)[3] = (n \div 65536) % 256 /\ PutUint32(n)[4] = (n \div 65536) \div 256
<1> DEFINE l == n % 65536  h == n \div 65536
<1>1. l \in Nat /\ l < 65536 /\ h \in Nat /\ h < 65536
  BY TwoHalves
<1> HIDE DEF l, h
<1>2. /\ l % 256 \in Nat /\ l % 256 < 256 /\ l \div 256 \in Nat /\ l \div 256 < 256
      /\ h % 256 \in Nat /\ h % 256 < 256 /\ h \div 256 \in Nat /\ h \div 256 < 256
  BY <1>1, TwoBytes
<1>3. l % 256 \in Bytes /\ l \div 256 \in Bytes /\ h % 256 \in Bytes /\ h \div 256 \in Bytes
  BY <1>2, Words
<1>4. PutUint32(n) = <<l % 256, l \div 256>> \o <<h % 256, h \div 256>>
  BY Words DEF PutUint32, PutUint16, l, h
<1> HIDE DEF l, h
<1>5. \A a, b, c, d \in Bytes :
        /\ <<a, b>> \o <<c, d>> \in Seq(Bytes) /\ Len(<<a, b>> \o <<c, d>>) = 4
        /\ (<<a, b>> \o <<c, d>>)[1] = a /\ (<<a, b>> \o <<c, d>>)[2] = b
        /\ (<<a, b>> \o <<c, d>>)[3] = c /\ (<<a, b>> \o <<c, d>>)[4] = d
  <2> TAKE a, b, c, d \in Bytes
  <2> DEFINE u == <<a, b>>  v == <<c, d>>
  <2>1. u \in Seq(Bytes) /\ v \in Seq(Bytes)
    OBVIOUS
  <2>2. /\ Len(u) = 2 /\ Len(v) = 2
        /\ u[1] = a /\ u[2] = b /\ v[1] = c /\ v[2] = d
    OBVIOUS
  <2> HIDE DEF u, v
  <2>3. /\ u \o v \in Seq(Bytes) /\ Len(u \o v) = Len(u) + Len(v)
        /\ \A i \in 1 .. Len(u) + Len(v) :
             (u \o v)[i] = IF i <= Len(u) THEN u[i] ELSE v[i - Len(u)]
    BY <2>1, ConcatProperties
  <2>4. /\ Len(u \o v) = 4 /\ (u \o v)[1] = u[1] /\ (u \o v)[2] = u[2]
        /\ (u \o v)[3] = v[1] /\ (u \o v)[4] = v[2]
    BY SMT, <2>2, <2>3
  <2> QED
    BY <2>2, <2>3, <2>4 DEF u, v
<1>6. /\ PutUint32(n) \in Seq(Bytes) /\ Len(PutUint32(n)) = 4
      /\ PutUint32(n)[1] = l % 256 /\ PutUint32(n)[2] = l \div 256
      /\ PutUint32(n)[3] = h % 256 /\ PutUint32(n)[4] = h \div 256
  BY <1>3, <1>4, <1>5
<1> QED
  BY <1>6 DEF l, h

\* What PrepareBinaryMessage puts in front of a body.
PrefixOf(event, request) == (PutUint16(event) \o PutUint16(IcdVersion)) \o PutUint32(request)

\* The prefix, byte by byte.
LEMMA EightBytes ==
  ASSUME Byte = 256, NEW event \in Uint16s, NEW request \in Uint32s
  PROVE  LET p == PrefixOf(event, request)
         IN  /\ p \in Seq(Bytes) /\ Len(p) = 8
             /\ p[1] = event % 256 /\ p[2] = event \div 256
             /\ p[3] = IcdVersion % 256 /\ p[4] = IcdVersion \div 256
             /\ p[5] = (request % 65536) % 256 /\ p[6] = (request % 65536) \div 256
             /\ p[7] = (request \div 65536) % 256 /\ p[8] = (request \div 65536) \div 256
<1> DEFINE u == PutUint16(event)  v == PutUint16(IcdVersion)  w == PutUint32(request)
<1>1. \A n \in Uint16s : /\ PutUint16(n) \in Seq(Bytes) /\ Len(PutUint16(n)) = 2
                         /\ PutUint16(n)[1] = n % 256 /\ PutUint16(n)[2] = n \div 256
  <2> TAKE n \in Uint16s
  <2>1. n \in Nat /\ n < 65536
    BY Words
  <2>2. n % 256 \in Bytes /\ n \div 256 \in Bytes
    BY <2>1, TwoBytes, Words
  <2>3. PutUint16(n) = <<n % 256, n \div 256>>
    BY DEF PutUint16
  <2> QED
    BY <2>2, <2>3
<1>2. IcdVersion \in Uint16s
  BY CodecAssumption DEF CodecAssumption
<1>3. /\ u \in Seq(Bytes) /\ Len(u) = 2 /\ v \in Seq(Bytes) /\ Len(v) = 2
      /\ u[1] = event % 256 /\ u[2] = event \div 256
      /\ v[1] = IcdVersion % 256 /\ v[2] = IcdVersion \div 256
  BY <1>1, <1>2
<1>4. request \in Nat /\ request < 4294967296
  BY Words
<1>5. /\ w \in Seq(Bytes) /\ Len(w) = 4
      /\ w[1] = (request % 65536) % 256 /\ w[2] = (request % 65536) \div 256
      /\ w[3] = (request \div 65536) % 256 /\ w[4] = (request \div 65536) \div 256
  BY <1>4, FourBytes
<1> HIDE DEF u, v, w
<1> DEFINE p == (u \o v) \o w
<1>6. /\ p \in Seq(Bytes) /\ Len(p) = 8
      /\ p[1] = u[1] /\ p[2] = u[2] /\ p[3] = v[1] /\ p[4] = v[2]
      /\ p[5] = w[1] /\ p[6] = w[2] /\ p[7] = w[3] /\ p[8] = w[4]
  <2>1. /\ u \in Seq(Bytes) /\ v \in Seq(Bytes) /\ w \in Seq(Bytes)
        /\ Len(u) = 2 /\ Len(v) = 2 /\ Len(w) = 4
    BY <1>3, <1>5
  <2> QED
    BY <2>1, EightInARow
<1>7. PrefixOf(event, request) = p
  BY DEF PrefixOf, p, u, v, w
<1> HIDE DEF p
<1> QED
  BY <1>3, <1>5, <1>6, <1>7

\* PrepareBinaryMessage puts these eight bytes in front of the body.
LEMMA Prepared ==
  ASSUME Byte = 256, NEW event \in Uint16s, NEW request \in Uint32s, NEW body \in Seq(Bytes)
  PROVE  PrepareBinaryMessage(body, event, request) = PrefixOf(event, request) \o body
<1>1. event \in Nat /\ event < 65536 /\ Word = 65536
  BY Words
<1>2. event % Word = event
  BY SMT, <1>1
<1> QED
  BY <1>2 DEF PrepareBinaryMessage, PrefixOf

\* Every event type, request id and body can be read back from the frame
\* PrepareBinaryMessage makes of them, whatever their values.
THEOREM PrefixesReadBack ==
  ASSUME Byte = 256, NEW event \in Uint16s, NEW request \in Uint32s, NEW body \in Seq(Bytes)
  PROVE  LET frame == PrepareBinaryMessage(body, event, request)
         IN  /\ frame \in Seq(Bytes) /\ Valid(frame) /\ Body(frame) = body
             /\ DecodeMessagePrefix(frame) =
                  [EventType |-> event, IcdVersion |-> IcdVersion, RequestId |-> request]
<1> DEFINE p == PrefixOf(event, request)  f == p \o body  l == request % 65536  h == request \div 65536
<1>1. /\ p \in Seq(Bytes) /\ Len(p) = 8
      /\ p[1] = event % 256 /\ p[2] = event \div 256
      /\ p[3] = IcdVersion % 256 /\ p[4] = IcdVersion \div 256
      /\ p[5] = l % 256 /\ p[6] = l \div 256 /\ p[7] = h % 256 /\ p[8] = h \div 256
  BY EightBytes
<1>2. /\ event \in Nat /\ event < 65536 /\ request \in Nat /\ request < 4294967296
      /\ IcdVersion \in Nat /\ IcdVersion < 65536 /\ Word = 65536
  BY Words, CodecAssumption DEF CodecAssumption
<1>3. l \in Nat /\ l < 65536 /\ h \in Nat /\ h < 65536 /\ l + 65536 * h = request
  BY <1>2, TwoHalves
<1> HIDE DEF p, l, h
<1>a. p \in Seq(Bytes) /\ Len(p) = 8
  BY <1>1
<1>4. /\ f \in Seq(Bytes) /\ Len(f) >= 8 /\ \A i \in 1 .. 8 : f[i] = p[i]
      /\ SubSeq(f, 9, Len(f)) = body
  BY <1>a, EightInFront
<1> HIDE DEF f
<1>5. /\ f[1] = p[1] /\ f[2] = p[2] /\ f[3] = p[3] /\ f[4] = p[4]
      /\ f[5] = p[5] /\ f[6] = p[6] /\ f[7] = p[7] /\ f[8] = p[8]
  BY <1>4
<1>6. Uint16(f, 1) = (event % 256) + 256 * (event \div 256)
  BY <1>1, <1>5 DEF Uint16
<1>7. Uint16(f, 3) = (IcdVersion % 256) + 256 * (IcdVersion \div 256)
  BY <1>1, <1>5 DEF Uint16
<1>8. Uint16(f, 5) = (l % 256) + 256 * (l \div 256) /\ Uint16(f, 7) = (h % 256) + 256 * (h \div 256)
  BY <1>1, <1>5 DEF Uint16
<1>9. Uint16(f, 1) = event /\ Uint16(f, 3) = IcdVersion /\ Uint16(f, 5) = l /\ Uint16(f, 7) = h
  BY <1>2, <1>3, <1>6, <1>7, <1>8, TwoBytes
<1>10. Uint32(f, 5) = request
  BY <1>2, <1>3, <1>9 DEF Uint32
<1>11. PrepareBinaryMessage(body, event, request) = f
  BY Prepared DEF f, p
<1>12. /\ Valid(f) /\ Body(f) = body
       /\ DecodeMessagePrefix(f) =
            [EventType |-> event, IcdVersion |-> IcdVersion, RequestId |-> request]
  BY <1>4, <1>9, <1>10 DEF Valid, Body, DecodeMessagePrefix
<1> QED
  BY <1>4, <1>11, <1>12

\* A worker gets a proxied frame byte for byte as the client sent it: taking a
\* frame of any length apart and building it again changes nothing.
THEOREM ForwardedUnchanged ==
  ASSUME Byte = 256, NEW frame \in Seq(Bytes), Valid(frame)
  PROVE  Forwarded(frame) = frame
<1> DEFINE e == Uint16(frame, 1)  l == Uint16(frame, 5)  h == Uint16(frame, 7)
           r == l + 65536 * h  p == PrefixOf(e, r)
<1>1. Len(frame) >= 8 /\ Uint16(frame, 3) = IcdVersion
  BY DEF Valid
<1>2. \A i \in 1 .. 8 : frame[i] \in Nat /\ frame[i] < 256
  <2> TAKE i \in 1 .. 8
  <2>1. Len(frame) \in Nat
    BY LenProperties
  <2>2. i \in 1 .. Len(frame)
    BY SMT, <1>1, <2>1
  <2>3. frame[i] \in Bytes
    BY <2>2, ElementOfSeq
  <2> QED
    BY <2>3, Words
<1>3. /\ frame[1] \in Nat /\ frame[1] < 256 /\ frame[2] \in Nat /\ frame[2] < 256
      /\ frame[3] \in Nat /\ frame[3] < 256 /\ frame[4] \in Nat /\ frame[4] < 256
      /\ frame[5] \in Nat /\ frame[5] < 256 /\ frame[6] \in Nat /\ frame[6] < 256
      /\ frame[7] \in Nat /\ frame[7] < 256 /\ frame[8] \in Nat /\ frame[8] < 256
  BY <1>2
<1>4. /\ e = frame[1] + 256 * frame[2] /\ IcdVersion = frame[3] + 256 * frame[4]
      /\ l = frame[5] + 256 * frame[6] /\ h = frame[7] + 256 * frame[8]
  BY <1>1 DEF Uint16
<1> HIDE DEF e, l, h
<1>5. /\ e \in Nat /\ e < 65536 /\ e % 256 = frame[1] /\ e \div 256 = frame[2]
      /\ IcdVersion % 256 = frame[3] /\ IcdVersion \div 256 = frame[4]
      /\ l \in Nat /\ l < 65536 /\ l % 256 = frame[5] /\ l \div 256 = frame[6]
      /\ h \in Nat /\ h < 65536 /\ h % 256 = frame[7] /\ h \div 256 = frame[8]
  <2>2. e \in Nat /\ e < 65536 /\ e % 256 = frame[1] /\ e \div 256 = frame[2]
    <3> DEFINE a == frame[1]  b == frame[2]
    <3>1. a \in Nat /\ b \in Nat /\ a < 256 /\ b < 256
      BY <1>3
    <3> HIDE DEF a, b
    <3>2. LET n == a + 256 * b
          IN  n \in Nat /\ n < 65536 /\ n % 256 = a /\ n \div 256 = b
      BY <3>1, TwoBytesBack
    <3> QED
      BY <3>2, <1>4 DEF a, b
  <2>3. IcdVersion % 256 = frame[3] /\ IcdVersion \div 256 = frame[4]
    <3> DEFINE a == frame[3]  b == frame[4]
    <3>1. a \in Nat /\ b \in Nat /\ a < 256 /\ b < 256
      BY <1>3
    <3> HIDE DEF a, b
    <3>2. LET n == a + 256 * b
          IN  n \in Nat /\ n < 65536 /\ n % 256 = a /\ n \div 256 = b
      BY <3>1, TwoBytesBack
    <3> QED
      BY <3>2, <1>4 DEF a, b
  <2>4. l \in Nat /\ l < 65536 /\ l % 256 = frame[5] /\ l \div 256 = frame[6]
    <3> DEFINE a == frame[5]  b == frame[6]
    <3>1. a \in Nat /\ b \in Nat /\ a < 256 /\ b < 256
      BY <1>3
    <3> HIDE DEF a, b
    <3>2. LET n == a + 256 * b
          IN  n \in Nat /\ n < 65536 /\ n % 256 = a /\ n \div 256 = b
      BY <3>1, TwoBytesBack
    <3> QED
      BY <3>2, <1>4 DEF a, b
  <2>5. h \in Nat /\ h < 65536 /\ h % 256 = frame[7] /\ h \div 256 = frame[8]
    <3> DEFINE a == frame[7]  b == frame[8]
    <3>1. a \in Nat /\ b \in Nat /\ a < 256 /\ b < 256
      BY <1>3
    <3> HIDE DEF a, b
    <3>2. LET n == a + 256 * b
          IN  n \in Nat /\ n < 65536 /\ n % 256 = a /\ n \div 256 = b
      BY <3>1, TwoBytesBack
    <3> QED
      BY <3>2, <1>4 DEF a, b
  <2> QED
    BY <2>2, <2>3, <2>4, <2>5
<1>6. r \in Nat /\ r < 4294967296 /\ r % 65536 = l /\ r \div 65536 = h
  <2>1. l \in Nat /\ l < 65536 /\ h \in Nat /\ h < 65536
    BY <1>5
  <2> QED
    BY <2>1, TwoHalvesBack
<1> HIDE DEF r
<1>7. e \in Uint16s /\ r \in Uint32s
  <2>1. e \in Nat /\ e < 65536 /\ r \in Nat /\ r < 4294967296
    BY <1>5, <1>6
  <2> QED
    BY <2>1, Words
<1>8. /\ p \in Seq(Bytes) /\ Len(p) = 8
      /\ p[1] = frame[1] /\ p[2] = frame[2] /\ p[3] = frame[3] /\ p[4] = frame[4]
      /\ p[5] = frame[5] /\ p[6] = frame[6] /\ p[7] = frame[7] /\ p[8] = frame[8]
  <2>1. /\ p \in Seq(Bytes) /\ Len(p) = 8
        /\ p[1] = e % 256 /\ p[2] = e \div 256
        /\ p[3] = IcdVersion % 256 /\ p[4] = IcdVersion \div 256
        /\ p[5] = (r % 65536) % 256 /\ p[6] = (r % 65536) \div 256
        /\ p[7] = (r \div 65536) % 256 /\ p[8] = (r \div 65536) \div 256
    BY <1>7, EightBytes
  <2> HIDE DEF p
  <2>2. r % 65536 = l /\ r \div 65536 = h
    BY <1>6
  <2>3. p[5] = l % 256 /\ p[6] = l \div 256
    BY <2>1, <2>2
  <2>4. p[7] = h % 256 /\ p[8] = h \div 256
    BY <2>1, <2>2
  <2> QED
    BY <2>1, <2>3, <2>4, <1>5
<1> HIDE DEF p
<1>9. \A i \in 1 .. 8 : p[i] = frame[i]
  BY SMT, <1>8
<1>10. Body(frame) \in Seq(Bytes) /\ p \o Body(frame) = frame
  BY <1>1, <1>8, <1>9, EightOff DEF Body
<1>11. Uint32(frame, 5) = r
  BY <1>5, Words DEF Uint32, l, h, r
<1>12. Forwarded(frame) = PrepareBinaryMessage(Body(frame), e, r)
  BY <1>11 DEF Forwarded, DecodeMessagePrefix, e
<1> QED
  BY <1>7, <1>10, <1>12, Prepared DEF p

-----------------------------------------------------------------------------
(* File ids. *)

\* The int32 that has these bits.
Signed(bits) == IF bits >= Half THEN bits - 2 * Half ELSE bits

\* The bits of a file id are a number below 256^4.
LEMMA BitsFit ==
  ASSUME Byte = 256, NEW body \in Seq(Bytes), Parses(body)
  PROVE  FileBits(body) \in Nat /\ FileBits(body) < 4294967296
<1>1. CASE body = <<>>
  BY <1>1 DEF FileBits
<1>2. CASE body # <<>>
  <2>1. Len(body) = 4
    BY <1>2, EmptySeq DEF Parses
  <2>2. \A i \in 1 .. 4 : body[i] \in Nat /\ body[i] < 256
    <3> TAKE i \in 1 .. 4
    <3>1. body[i] \in Bytes
      BY <2>1, ElementOfSeq
    <3> QED
      BY <3>1, Words
  <2> DEFINE a == body[1]  b == body[2]  c == body[3]  d == body[4]
             l == a + 256 * b  h == c + 256 * d
  <2>3. /\ a \in Nat /\ a < 256 /\ b \in Nat /\ b < 256
        /\ c \in Nat /\ c < 256 /\ d \in Nat /\ d < 256
    BY <2>2
  <2>4. FileBits(body) = l + 65536 * h
    BY <1>2, Words DEF FileBits, Uint32, Uint16
  <2> HIDE DEF a, b, c, d
  <2>5. l \in Nat /\ l < 65536 /\ h \in Nat /\ h < 65536
    BY <2>3, TwoBytesBack
  <2> HIDE DEF l, h
  <2> QED
    BY <2>4, <2>5, TwoHalvesBack
<1> QED
  BY <1>1, <1>2

\* Go's conversion of a uint32 and the int32 of a message agree on the bits.
LEMMA ConversionsAgree ==
  ASSUME Byte = 256, NEW bits \in Nat, bits < 4294967296
  PROVE  Int32(bits) = Signed(bits)
<1>1. ((bits + 2147483648) % 4294967296) - 2147483648
        = IF bits >= 2147483648 THEN bits - 4294967296 ELSE bits
  BY SMT
<1>2. Half = 2147483648 /\ 2 * Half = 4294967296
  BY SMT, Words
<1> QED
  BY SMT, <1>1, <1>2 DEF Int32, Signed

\* Different bits make different int32s.
LEMMA SignedIsOneToOne ==
  ASSUME Byte = 256, NEW m \in Nat, m < 4294967296, NEW n \in Nat, n < 4294967296
  PROVE  Signed(m) = Signed(n) <=> m = n
<1>1. Half = 2147483648 /\ 2 * Half = 4294967296
  BY SMT, Words
<1> QED
  BY SMT, <1>1 DEF Signed

\* The key of fileMap is the int32 that has the bits of the file id.
LEMMA KeyIsSigned ==
  ASSUME Byte = 256, NEW event \in DOMAIN FileIdType, FileIdType[event] # "none",
         NEW body \in Seq(Bytes), Parses(body)
  PROVE  ExtractFileIdFromBytes(event, body) = <<Signed(FileBits(body)), TRUE>>
<1>1. FileBits(body) \in Nat /\ FileBits(body) < 4294967296
  BY BitsFit
<1>2. FileIdType[event] \in {"int32", "uint32", "none"}
  BY CodecAssumption DEF CodecAssumption
<1>3. ExtractFileIdFromBytes(event, body) = ExtractFileId(event, body)
  BY DEF ExtractFileIdFromBytes, Unmarshals
<1>4. CASE FileIdType[event] = "int32"
  <2>1. GetFileId(event, body) = Signed(FileBits(body))
    BY <1>4 DEF GetFileId, Signed
  <2> QED
    BY <1>3, <1>4, <2>1 DEF ExtractFileId
<1>5. CASE FileIdType[event] = "uint32"
  <2>1. GetFileId(event, body) = FileBits(body)
    BY <1>5 DEF GetFileId
  <2>2. Int32(FileBits(body)) = Signed(FileBits(body))
    BY <1>1, ConversionsAgree
  <2> QED
    BY <1>3, <1>5, <2>1, <2>2 DEF ExtractFileId
<1> QED
  BY <1>2, <1>4, <1>5

\* Two messages name the same key of fileMap if and only if they carry the same
\* bits, whatever the integer types of their file ids: no conversion lets two
\* files meet, and none separates a message from its file.
THEOREM FileIdsStayApart ==
  ASSUME Byte = 256,
         NEW e1 \in DOMAIN FileIdType, FileIdType[e1] # "none",
         NEW e2 \in DOMAIN FileIdType, FileIdType[e2] # "none",
         NEW b1 \in Seq(Bytes), Parses(b1), NEW b2 \in Seq(Bytes), Parses(b2)
  PROVE  ExtractFileIdFromBytes(e1, b1) = ExtractFileIdFromBytes(e2, b2)
           <=> FileBits(b1) = FileBits(b2)
<1> DEFINE m == FileBits(b1)  n == FileBits(b2)
<1>1. m \in Nat /\ m < 4294967296 /\ n \in Nat /\ n < 4294967296
  BY BitsFit
<1>2. /\ ExtractFileIdFromBytes(e1, b1) = <<Signed(m), TRUE>>
      /\ ExtractFileIdFromBytes(e2, b2) = <<Signed(n), TRUE>>
  BY KeyIsSigned
<1> HIDE DEF m, n
<1>3. Signed(m) = Signed(n) <=> m = n
  BY <1>1, SignedIsOneToOne
<1> QED
  BY <1>2, <1>3 DEF m, n
=============================================================================
