--------------------------- MODULE MCCartaSystem ---------------------------
(***************************************************************************)
(* CartaSystem for TLC: a session that registers, and a POST and a DELETE  *)
(* of somebody else.                                                       *)
(***************************************************************************)
EXTENDS CartaSystem, TLC

CONSTANTS reg, alien, other

OneKind == reg :> "register"
OneFile == reg :> None

\* The other worker is started when the one of the session is over, and may then be
\* given its port; the signal and the other DELETE come in runs without it.  Nobody
\* writes PONG.  All of this is for the environment to choose.
Narrow ==
  /\ pong' = {}
  /\ alien \notin immune
  /\ post'[alien] # "rejected"
  /\ post[alien] = "idle" /\ post'[alien] = "waiting" =>
       post[reg] # "idle" /\ ~Running(reg) /\ ~ctx /\ del[other].id = None
  /\ post[alien] # "idle" => ctx' = ctx /\ del'[other] = del[other]
  /\ del'[other].id # alien
=============================================================================
