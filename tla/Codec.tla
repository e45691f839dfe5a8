------------------------------- MODULE Codec -------------------------------
(***************************************************************************)
(* The frames of the CARTA interface as carta-ctl takes them apart and     *)
(* builds them: an 8-byte prefix in little-endian order, then an encoded   *)
(* protobuf message.  A byte is a number below Byte and a frame a sequence *)
(* of bytes.  The generated protobuf code is external; of a message it     *)
(* keeps the file id, four bytes that are left out when they are all zero. *)
(***************************************************************************)
EXTENDS Integers, Sequences

CONSTANTS
  Byte,            \* how many values a byte has (256)
  IcdVersion,      \* the version both ends must speak (30)
  RegisterViewer,  \* the event types that have a handler of their own
  OpenFile,
  EmptyEvent,
  FileIdType       \* for the events of messageTypeMap: the type of file_id, or "none"

Word == Byte * Byte
Half == (Word * Word) \div 2
Bytes == 0 .. Byte - 1
Uint16s == 0 .. Word - 1
Uint32s == 0 .. Word * Word - 1

ASSUME CodecAssumption ==
  /\ Byte \in Nat /\ Byte > 1 /\ Byte % 2 = 0
  /\ IcdVersion \in Uint16s
  /\ DOMAIN FileIdType \subseteq Uint16s
  /\ \A e \in DOMAIN FileIdType : FileIdType[e] \in {"int32", "uint32", "none"}
  /\ OpenFile \in DOMAIN FileIdType /\ FileIdType[OpenFile] = "int32"

-----------------------------------------------------------------------------
(* encoding/binary.LittleEndian; positions count from 1. *)

PutUint16(n) == <<n % Byte, n \div Byte>>
PutUint32(n) == PutUint16(n % Word) \o PutUint16(n \div Word)

Uint16(bytes, i) == bytes[i] + Byte * bytes[i + 1]

Uint32(bytes, i) == Uint16(bytes, i) + Word * Uint16(bytes, i + 2)

-----------------------------------------------------------------------------
(* The prefix. *)

PrepareBinaryMessage(body, event, request) ==
  PutUint16(event % Word) \o PutUint16(IcdVersion) \o PutUint32(request) \o body

DecodeMessagePrefix(frame) ==
  [EventType |-> Uint16(frame, 1), IcdVersion |-> Uint16(frame, 3), RequestId |-> Uint32(frame, 5)]

\* The frames DecodeMessagePrefix has no error for.
Valid(frame) == Len(frame) >= 8 /\ Uint16(frame, 3) = IcdVersion

Body(frame) == SubSeq(frame, 9, Len(frame))

\* Mutation: the request id is not passed on.
ForwardedNoRequest(frame) ==
  PrepareBinaryMessage(Body(frame), DecodeMessagePrefix(frame).EventType, 0)

\* What handleProxiedMessage sends for a frame.
Forwarded(frame) ==
  LET prefix == DecodeMessagePrefix(frame)
  IN  PrepareBinaryMessage(Body(frame), prefix.EventType, prefix.RequestId)

-----------------------------------------------------------------------------
(* File ids. *)

\* proto.Unmarshal succeeds; the bits of the file id.
Parses(body) == Len(body) \in {0, 4}
FileBits(body) == IF body = <<>> THEN 0 ELSE Uint32(body, 1)

\* The generated getter: file_id is an int32 in some messages and a uint32 in others.
GetFileId(event, body) ==
  LET bits == FileBits(body)
  IN  IF FileIdType[event] = "int32" /\ bits >= Half THEN bits - 2 * Half ELSE bits

\* Mutation: what does not fit becomes the largest int32.
Int32Saturates(n) == IF n < Half THEN n ELSE Half - 1

\* Go's conversion of a uint32.
Int32(n) == ((n + Half) % (2 * Half)) - Half

\* UnmarshalMessage finds a constructor and the message parses.
Unmarshals(event, body) == event \in DOMAIN FileIdType /\ Parses(body)

\* The id and whether there is one.
ExtractFileId(event, body) ==
  CASE FileIdType[event] = "int32"  -> <<GetFileId(event, body), TRUE>>
    [] FileIdType[event] = "uint32" -> <<Int32(GetFileId(event, body)), TRUE>>
    [] OTHER                        -> <<-1, FALSE>>

ExtractFileIdFromBytes(event, body) ==
  IF Unmarshals(event, body) THEN ExtractFileId(event, body) ELSE <<-1, FALSE>>

\* handlerMap.
KindOf(frame) ==
  LET event == DecodeMessagePrefix(frame).EventType
  IN  CASE event = RegisterViewer -> "register"
        [] event = OpenFile       -> "open"
        [] event = EmptyEvent     -> "status"
        [] OTHER                  -> "proxied"

\* The key of fileMap that handleOpenFile or handleProxiedMessage uses.
FileKey(frame) == ExtractFileIdFromBytes(DecodeMessagePrefix(frame).EventType, Body(frame))
=============================================================================
