---------------------------- MODULE MCController ----------------------------
\* alice has accounts with PAM and the provider, bob with the provider only and
\* with no preferred_username, carol a PAM account with a "|" in its name.
\* The cfg says who knows the key: bob.
EXTENDS Controller
CONSTANTS alice, bob, carol

MCPeople == {alice, bob, carol}
MCNames == {"alice", "bob@org", "c|arol", "anonymous", "unknown"}
MCAccount == [p \in MCPeople |-> CASE p = alice -> "alice" [] p = bob -> None [] p = carol -> "c|arol"]
MCClaims == [p \in MCPeople |-> CASE p = alice -> <<"alice", None, None>>
                                  [] p = bob -> <<None, "bob@org", "bob@org">>
                                  [] p = carol -> <<None, None, None>>]

\* An authentication mode in one layer, over one in the file.
Layered(layer, mode, file) ==
  [l \in {"override", "flag", "env", "file"} |->
     IF l = layer THEN mode ELSE IF l = "file" THEN file ELSE None]

Good == [custom |-> TRUE, readable |-> TRUE, wellFormed |-> TRUE,
         mode |-> Layered("file", None, None), oidcKeys |-> {"issuerurl"},
         frontend |-> "dir", db |-> TRUE]

MCGiven ==
  { Good,
    [Good EXCEPT !.mode = Layered("file", "pam", None)],
    [Good EXCEPT !.mode = Layered("env", "oidc", "pam")],
    [Good EXCEPT !.mode = Layered("flag", "both", "pam")],
    [Good EXCEPT !.mode = Layered("override", "pam", "oidc"), !.frontend = "unset"],
    [Good EXCEPT !.mode = Layered("override", "other", "pam")],
    [Good EXCEPT !.mode = Layered("env", "oidc", None), !.oidcKeys = {"issuer_url"}],
    [Good EXCEPT !.custom = FALSE, !.readable = FALSE, !.oidcKeys = {}, !.db = FALSE],
    [Good EXCEPT !.readable = FALSE],
    [Good EXCEPT !.wellFormed = FALSE],
    [Good EXCEPT !.frontend = "missing"] }

\* Bound: of the tokens made with the key one is enough, another person's name
\* for as long as the run lasts.
Narrow ==
  \A b \in Browsers : session'[b] # session[b] /\ session'[b] # None /\ ~session'[b].proved =>
    session'[b].name = "alice" /\ session'[b].expiry = MaxTime
=============================================================================
