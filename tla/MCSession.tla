----------------------------- MODULE MCSession -----------------------------
(***************************************************************************)
(* Session for TLC: scripts of client messages.  The messages of a script  *)
(* may be sent in any order, or not at all, and their goroutines may       *)
(* interleave in any way.  A script gives each message its frame; what     *)
(* kind of message it is and which file it names is what Codec reads in    *)
(* that frame.                                                             *)
(***************************************************************************)
EXTENDS SessionFrames, TLC

CONSTANTS reg, reg2, open, open2, prox, plain, stat, SetCursor, SetContours, SetRegion

\* One event of each type of file_id besides OPEN_FILE, and one without.
FileIdTypes ==
  OpenFile :> "int32" @@ SetCursor :> "int32" @@ SetContours :> "uint32" @@ SetRegion :> "none"

NoFile == <<>>
HighId == PutUint32(Half)
OtherId == PutUint32(Half + 1)
Frame(event, body) == PrepareBinaryMessage(body, event, 1)

\* Two REGISTER_VIEWERs, two files, one message for the first file, in which the
\* id, with its highest bit set, has another type than in OPEN_FILE, one message
\* of no file, and a status request.
AllFrames ==
  reg :> Frame(RegisterViewer, NoFile) @@ reg2 :> Frame(RegisterViewer, NoFile)
    @@ open :> Frame(OpenFile, HighId) @@ open2 :> Frame(OpenFile, OtherId)
    @@ prox :> Frame(SetContours, HighId) @@ plain :> Frame(SetRegion, NoFile)
    @@ stat :> Frame(EmptyEvent, NoFile)

\* The same function, computed: TLC evaluates a definition without parameters
\* once, but a function [x \in S |-> ...], and what a cfg gives a constant, at
\* every use.
Computed(f) ==
  CHOOSE g \in [DOMAIN f -> {f[x] : x \in DOMAIN f}] : \A x \in DOMAIN f : g[x] = f[x]

\* The frames of a run's messages, and what is read in them.
Script ==
  [frames |-> Computed([m \in Msgs |-> AllFrames[m]]),
   kind   |-> Computed([m \in Msgs |-> KindOf(AllFrames[m])]),
   file   |-> Computed([m \in Msgs |-> KeyOf(AllFrames[m])]),
   ids    |-> {KeyOf(AllFrames[m]) : m \in Msgs} \ {Nil}]
ScriptFrames == Script.frames
ScriptKind == Script.kind
ScriptFile == Script.file
ScriptIds == Script.ids

-----------------------------------------------------------------------------
(* What the longest run leaves out. *)

Received == {m \in Msgs : pc[m] # "idle"}

\* A session whose first viewer has registered, with a second one or with two
\* files: the first shared worker stays, and so does the client, which sends no
\* PING; no request fails, no process leaves its backend behind, another worker
\* exits before its dial or never, and where there are files only their workers
\* send; a status request comes by itself.
Steady ==
  /\ pc[reg] # "sent" => Received' \subseteq {reg, reg2}
  /\ stat \in Received' => Received' \subseteq {reg, stat}
  /\ Received' \intersect {open, open2} # {} =>
       /\ reg \in got[reg]
       /\ reg2 \notin Received'
       /\ \A r \in Replies : from'[r] \in {Nil, open, open2}
  /\ \A w \in alive \ alive' : w # reg /\ pc[w] \in {"started", "dialing"}
  /\ \A m \in Msgs : pc'[m] # "failed"
  /\ reading' = "reading" /\ pong' = {} /\ running' = alive'
=============================================================================
