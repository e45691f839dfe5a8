--------------------------- MODULE SessionFrames ---------------------------
(***************************************************************************)
(* Session and Codec together: the client's messages are frames, and what  *)
(* a session does with one follows from what the codec reads in it.        *)
(***************************************************************************)
EXTENDS Session, Codec

CONSTANT Frames  \* Frames[m]: the bytes of message m

\* handleOpenFile and handleProxiedMessage use the file id as a key of fileMap.
KeyOf(frame) == IF FileKey(frame)[2] THEN FileKey(frame)[1] ELSE Nil

ASSUME FramesAssumption ==
  /\ Frames \in [Msgs -> Seq(Bytes)]
  /\ \A m \in Msgs :
       /\ Valid(Frames[m])
       /\ Kind[m] = KindOf(Frames[m])
       /\ File[m] = KeyOf(Frames[m])

\* The bits of the file id in a frame, whatever their type.
Bits(m) == FileBits(Body(Frames[m]))
SameFile(m, w) == File[m] # Nil /\ Bits(m) = Bits(w)

-----------------------------------------------------------------------------
\* cartaHelpers.go:59-77, shared.go:26-62: on the connection that an OPEN_FILE has
\* made goes a proxied message byte for byte as the client sent it, although the
\* controller takes every frame apart and builds it again, and only if it carries
\* the bits of that file id: no conversion lets the files of two connections meet.
\* openFile.go:27: the worker that gets it is the one started for that file, and
\* another only once that one is over.
WorkersGetTheirFrames ==
  \A k \in Msgs : Kind[k] = "open" =>
    \A m \in got[k] \intersect Msgs : Kind[m] = "proxied" =>
      /\ Forwarded(Frames[m]) = Frames[m] /\ SameFile(m, k)
      /\ remote[k] = k \/ k \notin alive

\* While a file's worker is in fileMap, a message with the bits of that file
\* goes to that worker, also when OPEN_FILE has the id as an int32 and the
\* message as a uint32: no conversion separates a message from its worker.
RoutedByBits ==
  [][\A m \in Msgs : Kind[m] = "proxied" /\ pc[m] = "received" /\ pc'[m] = "sending" =>
       \A w \in Msgs :
         Kind[w] = "open" /\ mapMade /\ fileMap[File[w]] = w /\ SameFile(m, w)
         => dest'[m] = sendChan[w]]_vars
=============================================================================
