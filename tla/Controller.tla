----------------------------- MODULE Controller -----------------------------
(***************************************************************************)
(* carta-ctl from its start to the answer of a request: the configuration  *)
(* decides who authenticates requests and which routes exist; a browser    *)
(* that is not known is redirected to a login page, obtains a cookie there *)
(* and comes back.  The controller keeps nothing about its users: what it  *)
(* knows of them is in the tokens they carry, so they outlive it.          *)
(*                                                                         *)
(* PAM, the OIDC provider and the browsers are the environment.  A token   *)
(* carries three fields the code does not have: the person who obtained it *)
(* and when (born), and whether PAM or the provider vouched for the name   *)
(* in it (proved).  The key that signs session tokens is a constant of the *)
(* source: whoever knows it, KeyHolders, can make them as well.            *)
(***************************************************************************)
EXTENDS Integers

CONSTANTS
  Browsers,   \* browsers and API clients
  People,     \* who sits before them
  Names,      \* user names
  Account,    \* Account[p]: p's PAM account, or None
  Claims,     \* Claims[p]: preferred_username, email and name in p's ID tokens
  Barred,     \* account names with a "|" in them
  KeyHolders, \* people who know sessionSecret
  Life,       \* lifetime of a cookie (8 hours)
  TokenLife,  \* lifetime of an ID token, the provider's choice
  MaxTime,    \* bound on the clock
  MaxBoots,   \* bound on the starts of the controller
  Given,      \* command lines, environments and files it is started with
  None

Modes == {"none", "pam", "oidc", "both"}
Layers == <<"override", "flag", "env", "file">>
Startup == [custom : BOOLEAN, readable : BOOLEAN, wellFormed : BOOLEAN,
            mode : [{"override", "flag", "env", "file"} -> Modes \union {"other", None}],
            oidcKeys : SUBSET {"issuer_url", "issuerurl"},
            frontend : {"unset", "dir", "missing"}, db : BOOLEAN]

\* verifyRawToken: the first claim that is not empty.
Username(p) ==
  LET named == {i \in 1..3 : Claims[p][i] # None}
  IN  IF named = {} THEN "unknown" ELSE Claims[p][CHOOSE i \in named : \A j \in named : i <= j]

Pages == {"/", "/api/database/", "/pam-login", "/oidc/login", "/oidc/callback"}
OidcPages == {"/oidc/login", "/oidc/callback"}
Times == 0 .. MaxTime

Token == [name : Names, person : People, born : Times, proved : BOOLEAN,
          expiry : Nat, until : Nat]
User == [source : {"none", "pam", "oidc"}, name : Names,
         person : People \union {None}, born : Times, proved : BOOLEAN]
Answer == [user : User \union {None}, wrote : Pages \union {"401", "404", None}, time : Times]

ASSUME ControllerAssumption ==
  /\ {"anonymous", "unknown"} \subseteq Names
  /\ Account \in [People -> Names \union {None}]
  /\ Claims \in [People -> [1..3 -> Names \union {None}]]
  /\ Life \in Nat /\ TokenLife \in Nat /\ MaxTime \in Nat /\ MaxBoots \in Nat
  /\ Given \subseteq Startup
  /\ KeyHolders \subseteq People
  /\ None \notin Names \union People \union Modes \union Pages \union {"401", "404"}
  /\ None \notin Token \union User

VARIABLES
  now,      \* hours, in units of the bounds above
  boots,    \* how often the controller has been started
  up,       \* it serves
  cfg,      \* what it was configured to do
  at,       \* the page each browser asks for next, or where it rests
  session,  \* its carta_session cookie (PAM)
  oidc,     \* its carta_oidc cookie, a raw ID token
  bearer,   \* the ID token in its Authorization header
  code,     \* the person its authorization code is for
  reply     \* the answer to its last authenticated request

jarVars == <<session, oidc, bearer, code>>
vars == <<now, boots, up, cfg, at, jarVars, reply>>

TypeOK ==
  /\ now \in Times
  /\ boots \in 0 .. MaxBoots
  /\ up \in BOOLEAN
  /\ cfg \in [mode : Modes, frontend : BOOLEAN, db : BOOLEAN]
  /\ at \in [Browsers -> Pages \union {"away", "form", "idp", "app", "denied", "lost"}]
  /\ session \in [Browsers -> Token \union {None}]
  /\ oidc \in [Browsers -> Token \union {None}]
  /\ bearer \in [Browsers -> Token \union {None}]
  /\ code \in [Browsers -> People \union {None}]
  /\ reply \in [Browsers -> Answer \union {None}]

Init ==
  /\ now = 0
  /\ boots = 0
  /\ up = FALSE
  /\ cfg = [mode |-> "none", frontend |-> FALSE, db |-> FALSE]
  /\ at = [b \in Browsers |-> "away"]
  /\ session = [b \in Browsers |-> None]
  /\ oidc = [b \in Browsers |-> None]
  /\ bearer = [b \in Browsers |-> None]
  /\ code = [b \in Browsers |-> None]
  /\ reply = [b \in Browsers |-> None]

-----------------------------------------------------------------------------
(* Starting and stopping. *)

\* viper: --override, then a flag that was given, then CARTA_CONTROLLER_AUTH_MODE,
\* then the file; nobody has set it: the default.
Mode(g) ==
  LET set == {i \in 1..4 : g.mode[Layers[i]] # None}
  IN  IF set = {} THEN "none" ELSE g.mode[Layers[CHOOSE i \in set : \A j \in set : i <= j]]

\* The fields IssuerURL and ClientID have no tag that mapstructure knows, so that
\* only keys spelled like the fields are decoded into them (one key stands for
\* both here: without either, OIDC does not start or accepts no token).
HasIssuer(g) == "issuerurl" \in g.oidcKeys

\* Load, the choice of the authenticator and the frontend directory: with each
\* of these every start exits or panics.
Refused(g) ==
  \/ g.custom /\ ~g.readable
  \/ ~g.wellFormed
  \/ Mode(g) \notin Modes
  \/ Mode(g) \in {"oidc", "both"} /\ ~HasIssuer(g)
  \/ g.frontend = "missing"

\* Any start may fail: what it is given is refused, PAM, the OIDC provider or
\* the database cannot be used, or the port cannot be listened on.
BootFails ==
  /\ ~up /\ boots < MaxBoots
  /\ boots' = boots + 1
  /\ UNCHANGED <<now, up, cfg, at, jarVars, reply>>

Boot(g) ==
  /\ ~up /\ boots < MaxBoots
  /\ ~Refused(g)
  /\ boots' = boots + 1
  /\ up' = TRUE
  /\ cfg' = [mode |-> Mode(g), frontend |-> g.frontend = "dir", db |-> g.db]
  /\ UNCHANGED <<now, at, jarVars, reply>>

\* The controller ends; connections are lost, tokens are not.
Stop ==
  /\ up
  /\ up' = FALSE
  /\ reply' = [b \in Browsers |-> None]
  /\ UNCHANGED <<now, boots, cfg, at, jarVars>>

Tick ==
  /\ now < MaxTime
  /\ now' = now + 1
  /\ UNCHANGED <<boots, up, cfg, at, jarVars, reply>>

-----------------------------------------------------------------------------
(* Routes. *)

\* Mutation: the login page only in mode "pam".
RegisteredPamOnly ==
  {p \in Pages :
     CASE p = "/api/database/" -> cfg.db
       [] p = "/" -> cfg.frontend
       [] p = "/pam-login" -> cfg.frontend /\ cfg.mode = "pam"
       [] OTHER -> cfg.frontend /\ cfg.mode = "oidc"}

\* oidcAuth is set in mode "oidc" only.
Registered ==
  {p \in Pages :
     CASE p = "/api/database/" -> cfg.db
       [] p = "/" -> cfg.frontend
       [] p = "/pam-login" -> cfg.frontend /\ cfg.mode \in {"pam", "both"}
       [] OTHER -> cfg.frontend /\ cfg.mode = "oidc"}

\* The pattern http.ServeMux finds: the page itself, or "/".
Pattern(p) ==
  IF p \in Registered THEN p ELSE IF "/" \in Registered THEN "/" ELSE None

-----------------------------------------------------------------------------
(* AuthenticateHTTP: the user, and what was written to the response.  The   *)
(* status of a response is that of the first write.                         *)

\* Mutations: the expiry is not checked; it is off by one.
VerifySessionTokenAlways(t) == t # None /\ t.name \notin Barred
VerifySessionTokenEarly(t) == t # None /\ t.name \notin Barred /\ now < t.expiry

\* The token must have three parts between "|", a signature, and not be expired.
VerifySessionToken(t) == t # None /\ t.name \notin Barred /\ now <= t.expiry

VerifyRawToken(t) == t # None /\ now <= t.expiry

Accept(source, t) ==
  [user |-> [source |-> source, name |-> t.name, person |-> t.person, born |-> t.born,
             proved |-> t.proved],
   wrote |-> None]
Refuse(wrote) == [user |-> None, wrote |-> wrote]

NoopAuth ==
  [user |-> [source |-> "none", name |-> "anonymous", person |-> None, born |-> 0,
             proved |-> FALSE],
   wrote |-> None]

PamAuth(b, p) ==
  IF VerifySessionToken(session[b]) THEN Accept("pam", session[b])
  ELSE Refuse(IF p = "/pam-login" THEN "401" ELSE "/pam-login")

\* The cookie first, then the header.
OidcAuth(b, p) ==
  CASE p \in OidcPages -> Refuse(None)
    [] p \notin OidcPages /\ VerifyRawToken(oidc[b]) -> Accept("oidc", oidc[b])
    [] p \notin OidcPages /\ ~VerifyRawToken(oidc[b]) /\ VerifyRawToken(bearer[b]) ->
         Accept("oidc", bearer[b])
    [] OTHER -> Refuse("/oidc/login")

\* Mutation: the backends in the other order.
MultiSwapped(x, y) ==
  IF y.user # None THEN y
  ELSE [user |-> x.user, wrote |-> IF y.wrote # None THEN y.wrote ELSE x.wrote]

\* The second backend is asked after the first has written its refusal.
Multi(x, y) ==
  IF x.user # None THEN x
  ELSE [user |-> y.user, wrote |-> IF x.wrote # None THEN x.wrote ELSE y.wrote]

AuthenticateHTTP(b, p) ==
  CASE cfg.mode = "none" -> NoopAuth
    [] cfg.mode = "pam" -> PamAuth(b, p)
    [] cfg.mode = "oidc" -> OidcAuth(b, p)
    [] cfg.mode = "both" -> Multi(PamAuth(b, p), OidcAuth(b, p))

-----------------------------------------------------------------------------
(* Requests.  An exchange reads only the request and the configuration, so   *)
(* it is one step.                                                           *)

\* A form is posted to the login page.
Target(b) == IF at[b] = "form" THEN "/pam-login" ELSE at[b]
Asks(b, pattern) == up /\ Target(b) \in Pages /\ Pattern(Target(b)) = pattern

NextPage(a) ==
  CASE a.wrote \in Pages -> a.wrote
    [] a.wrote = None /\ a.user # None -> "app"
    [] OTHER -> "lost"

\* withAuth: the handler runs (spaHandler, the database API, or an upgrade to
\* a websocket) when there is a user, whatever has been written.
WithAuth(b) ==
  /\ Asks(b, "/") \/ Asks(b, "/api/database/")
  /\ LET a == AuthenticateHTTP(b, Target(b)) IN
       /\ reply' = [reply EXCEPT ![b] = [user |-> a.user, wrote |-> a.wrote, time |-> now]]
       /\ at' = [at EXCEPT ![b] = NextPage(a)]
  /\ UNCHANGED <<now, boots, up, cfg, jarVars>>

NotFound(b) ==
  /\ Asks(b, None)
  /\ reply' = [reply EXCEPT ![b] = [user |-> None, wrote |-> "404", time |-> now]]
  /\ at' = [at EXCEPT ![b] = "lost"]
  /\ UNCHANGED <<now, boots, up, cfg, jarVars>>

Goes(b, page) == at' = [at EXCEPT ![b] = page] /\ UNCHANGED <<now, boots, up, cfg, reply>>

PamLoginGet(b) ==
  /\ at[b] # "form" /\ Asks(b, "/pam-login")
  /\ Goes(b, "form")
  /\ UNCHANGED jarVars

\* PAM accepts the password.  When it does not, or a field is empty, the form
\* is shown again and nothing changes.
PamLoginPost(b, p) ==
  /\ at[b] = "form" /\ Asks(b, "/pam-login")
  /\ Account[p] # None
  /\ session' = [session EXCEPT ![b] = [name |-> Account[p], person |-> p, born |-> now,
                                        proved |-> TRUE, expiry |-> now + Life,
                                        until |-> now + Life]]
  /\ Goes(b, "/")
  /\ UNCHANGED <<oidc, bearer, code>>

LoginHandler(b) ==
  /\ Asks(b, "/oidc/login")
  /\ Goes(b, "idp")
  /\ UNCHANGED jarVars

IDToken(p, until) ==
  [name |-> Username(p), person |-> p, born |-> now, proved |-> TRUE,
   expiry |-> now + TokenLife, until |-> until]

\* Mutation: the cookie holds the authorization code.
CallbackHandlerKeepsCode(b) ==
  /\ Asks(b, "/oidc/callback")
  /\ code[b] # None
  /\ oidc' = [oidc EXCEPT ![b] = code[b]]
  /\ code' = [code EXCEPT ![b] = None]
  /\ Goes(b, "/")
  /\ UNCHANGED <<session, bearer>>

\* The code is exchanged for an ID token, which becomes the cookie.
CallbackHandler(b) ==
  /\ Asks(b, "/oidc/callback")
  /\ code[b] # None
  /\ oidc' = [oidc EXCEPT ![b] = IDToken(code[b], now + Life)]
  /\ code' = [code EXCEPT ![b] = None]
  /\ Goes(b, "/")
  /\ UNCHANGED <<session, bearer>>

\* An error or no code in the query, or the exchange or the token fails: 401.
CallbackRefuses(b) ==
  /\ Asks(b, "/oidc/callback")
  /\ code' = [code EXCEPT ![b] = None]
  /\ Goes(b, "denied")
  /\ UNCHANGED <<session, oidc, bearer>>

-----------------------------------------------------------------------------
(* The provider, and what browsers do by themselves. *)

ProviderLogin(b, p) ==
  /\ at[b] = "idp"
  /\ code' = [code EXCEPT ![b] = p]
  /\ Goes(b, "/oidc/callback")
  /\ UNCHANGED <<session, oidc, bearer>>

\* An API client gets its ID token from the provider.
ObtainToken(b, p) ==
  /\ at[b] = "away"
  /\ bearer' = [bearer EXCEPT ![b] = IDToken(p, now + TokenLife)]
  /\ UNCHANGED <<now, boots, up, cfg, at, session, oidc, code, reply>>

\* GenerateSessionToken run by somebody else: with the key, a session token for
\* any name and any expiry can be made without the controller.
SignSession(b, p, name, expiry) ==
  /\ at[b] = "away"
  /\ p \in KeyHolders
  /\ session' = [session EXCEPT ![b] = [name |-> name, person |-> p, born |-> 0, proved |-> FALSE,
                                        expiry |-> expiry, until |-> expiry]]
  /\ UNCHANGED <<now, boots, up, cfg, at, oidc, bearer, code, reply>>

Resting == {"away", "app", "denied", "lost"}

Visit(b, page) ==
  /\ at[b] \in Resting
  /\ Goes(b, page)
  /\ UNCHANGED jarVars

DropSession(b) ==
  /\ session[b] # None /\ session[b].until <= now
  /\ session' = [session EXCEPT ![b] = None]
  /\ UNCHANGED <<now, boots, up, cfg, at, oidc, bearer, code, reply>>

DropOidc(b) ==
  /\ oidc[b] # None /\ oidc[b].until <= now
  /\ oidc' = [oidc EXCEPT ![b] = None]
  /\ UNCHANGED <<now, boots, up, cfg, at, session, bearer, code, reply>>

-----------------------------------------------------------------------------
Answered(b) ==
  \/ WithAuth(b) \/ NotFound(b) \/ PamLoginGet(b) \/ LoginHandler(b)
  \/ CallbackHandler(b) \/ CallbackRefuses(b)

Next ==
  \/ \E g \in Given : Boot(g)
  \/ BootFails \/ Stop \/ Tick
  \/ \E b \in Browsers :
       \/ Answered(b) \/ DropSession(b) \/ DropOidc(b)
       \/ \E page \in Pages : Visit(b, page)
       \/ \E p \in People : PamLoginPost(b, p) \/ ProviderLogin(b, p) \/ ObtainToken(b, p)
       \/ \E p \in People, name \in Names, expiry \in Times : SignSession(b, p, name, expiry)

Spec == Init /\ [][Next]_vars

\* A browser follows redirects, and the controller answers; who sees a login
\* page again and again in the end logs in, with an account whose name a token
\* can carry.  Nobody owes a start, a stop, a visit or an hour.
Fairness ==
  \A b \in Browsers :
    /\ WF_vars(Answered(b))
    /\ WF_vars(\E p \in People : ProviderLogin(b, p))
    /\ SF_vars(\E p \in People : Account[p] \notin Barred /\ PamLoginPost(b, p))

FairSpec == Spec /\ Fairness

-----------------------------------------------------------------------------
(* Safety. *)

\* A handler runs for a user who has proved, to PAM or to the provider, to own
\* the name it runs for, no longer ago than the lifetime of that proof, and
\* through the kind of login the controller is configured for - also after the
\* controller has been restarted, in another mode too.  A session token says so
\* much only of those who do not know the key: a handler may run, under any
\* name, for somebody who does.
ServedByRecentLogin ==
  \A b \in Browsers : reply[b] # None /\ reply[b].user # None =>
    LET u == reply[b].user IN
    CASE u.source = "none" -> cfg.mode = "none"
      [] u.source = "pam"  -> /\ cfg.mode \in {"pam", "both"}
                              /\ \/ /\ u.name = Account[u.person]
                                    /\ reply[b].time <= u.born + Life
                                 \/ ~u.proved /\ u.person \in KeyHolders
      [] u.source = "oidc" -> /\ cfg.mode \in {"oidc", "both"}
                              /\ u.name = Username(u.person)
                              /\ reply[b].time <= u.born + TokenLife

\* Every redirect of an authenticator leads to a login page that this very
\* controller serves, when it serves pages at all.
RedirectsLead ==
  \A b \in Browsers :
    cfg.frontend /\ reply[b] # None /\ reply[b].wrote \in Pages =>
      reply[b].wrote \in Registered

\* A login lasts: eight hours (PAM), or as long as its ID token (OIDC), restarts
\* included, a browser that still has the cookie of such a login, under a name
\* that a token can carry, is not sent to log in again.  In mode "both" only the
\* cookie of a PAM login has this effect: the PAM backend is asked first and
\* has written its redirect before the cookie of the provider is looked at.
LoggedIn(b) ==
  \/ /\ cfg.mode \in {"pam", "both"}
     /\ session[b] # None /\ session[b].proved /\ session[b].name \notin Barred
     /\ now <= session[b].born + Life
  \/ /\ cfg.mode = "oidc"
     /\ oidc[b] # None
     /\ now <= oidc[b].born + TokenLife
LoginLasts ==
  [][\A b \in Browsers : WithAuth(b) /\ reply'[b].wrote \in Pages => ~LoggedIn(b)]_vars

\* A browser that asks for the frontend gets it, however it has to log in first,
\* unless the provider refuses, the controller goes down or serves no pages.
\* (In mode "both" it gets in by PAM: of those whom only the provider knows this
\* says nothing, see Fairness.)
LoginGetsIn ==
  \A b \in Browsers :
    at[b] = "/" ~> at[b] \in {"app", "denied"} \/ ~up \/ ~cfg.frontend
=============================================================================
