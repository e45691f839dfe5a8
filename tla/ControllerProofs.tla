-------------------------- MODULE ControllerProofs --------------------------
(***************************************************************************)
(* Proofs about Controller, for any number of browsers, people, names,     *)
(* configurations and restarts, and for any lifetimes.                     *)
(***************************************************************************)
EXTENDS Controller, TLAPS

\* A token carries the name its bearer has proved to own, and expires no later
\* than the lifetime of the proof allows; or it was made with the key.
IsSession(t) ==
  IF t.proved THEN t.name = Account[t.person] /\ t.expiry = t.born + Life
  ELSE t.person \in KeyHolders
IsIDToken(t) ==
  t.name = Username(t.person) /\ t.expiry = t.born + TokenLife

TokenInv == \A b \in Browsers :
  /\ session[b] # None => IsSession(session[b])
  /\ oidc[b] # None => IsIDToken(oidc[b])
  /\ bearer[b] # None => IsIDToken(bearer[b])

\* Nobody is answered by a controller that is down, so that an answer is one of
\* the configuration in effect.
DownIsSilent == ~up => \A b \in Browsers : reply[b] = None

IInv == TypeOK /\ TokenInv /\ DownIsSilent /\ ServedByRecentLogin /\ RedirectsLead

\* The name a user goes by is a name.
LEMMA UsernameIsName == \A p \in People : Username(p) \in Names
<1> TAKE p \in People
<1> DEFINE named == {i \in 1..3 : Claims[p][i] # None}
<1>1. CASE named = {}
  BY <1>1, ControllerAssumption DEF Username
<1>2. CASE named # {}
  <2>1. \E i \in named : \A j \in named : i <= j
    <3>1. CASE 1 \in named
      BY <3>1
    <3>2. CASE 1 \notin named /\ 2 \in named
      BY <3>2
    <3>3. CASE 1 \notin named /\ 2 \notin named
      BY <3>3, <1>2
    <3> QED
      BY <3>1, <3>2, <3>3
  <2>2. (CHOOSE i \in named : \A j \in named : i <= j) \in named
    BY <2>1
  <2>3. \A i \in named : Claims[p][i] \in Names
    BY ControllerAssumption
  <2> QED
    BY <1>2, <2>2, <2>3 DEF Username
<1> QED
  BY <1>1, <1>2

\* The initial states satisfy the inductive invariant.
THEOREM InitIInv == Init => IInv
<1> SUFFICES ASSUME Init PROVE IInv
  OBVIOUS
<1>t. 0 \in Times /\ 0 \in 0 .. MaxBoots
  BY ControllerAssumption DEF Times
<1>m. "none" \in Modes
  BY DEF Modes
<1>1. TypeOK
  BY <1>t, <1>m DEF Init, TypeOK
<1>2. TokenInv /\ DownIsSilent /\ ServedByRecentLogin /\ RedirectsLead
  BY DEF Init, TokenInv, DownIsSilent, ServedByRecentLogin, RedirectsLead
<1> QED
  BY <1>1, <1>2 DEF IInv

\* What an authenticator may return: the user of a token that is good now, or
\* a refusal that has written nothing or a page.
Granted(b, u) ==
  \/ u = NoopAuth.user /\ cfg.mode = "none"
  \/ /\ cfg.mode \in {"pam", "both"}
     /\ VerifySessionToken(session[b])
     /\ u = Accept("pam", session[b]).user
  \/ /\ cfg.mode \in {"oidc", "both"}
     /\ \/ VerifyRawToken(oidc[b]) /\ u = Accept("oidc", oidc[b]).user
        \/ VerifyRawToken(bearer[b]) /\ u = Accept("oidc", bearer[b]).user

\* Who may be sent to a login page: whoever has no good cookie for it.
SentToPam(b) == cfg.mode \in {"pam", "both"} /\ ~VerifySessionToken(session[b])
SentToOidc(b) == cfg.mode = "oidc" /\ ~VerifyRawToken(oidc[b])

\* AuthenticateHTTP: who is let in, where the others are sent, and that the first
\* refusal of mode "both" is the one that counts.
LEMMA AuthenticateHTTPResult ==
  ASSUME TypeOK, NEW b \in Browsers, NEW p \in Pages, NEW a, a = AuthenticateHTTP(b, p)
  PROVE  /\ a = [user |-> a.user, wrote |-> a.wrote]
         /\ a.user = None \/ Granted(b, a.user)
         /\ \/ a.wrote \in {None, "401"}
            \/ a.wrote = "/pam-login" /\ SentToPam(b)
            \/ a.wrote = "/oidc/login" /\ SentToOidc(b)
<1> DEFINE x == PamAuth(b, p)
           y == OidcAuth(b, p)
<1>1. /\ x = [user |-> x.user, wrote |-> x.wrote]
      /\ \/ x.user = None /\ x.wrote \in {"401", "/pam-login"} /\ ~VerifySessionToken(session[b])
         \/ /\ VerifySessionToken(session[b]) /\ x.user = Accept("pam", session[b]).user
            /\ x.user # None /\ x.wrote = None
  <2>1. CASE VerifySessionToken(session[b])
    <3>1. session[b] \in Token
      BY <2>1 DEF TypeOK, VerifySessionToken
    <3>2. Accept("pam", session[b]).user \in User
      BY <3>1 DEF Accept, Token, User
    <3>3. x = Accept("pam", session[b])
      BY <2>1 DEF PamAuth
    <3> HIDE DEF x
    <3>4. Accept("pam", session[b]).user # None
      BY <3>2, ControllerAssumption
    <3> QED
      BY <2>1, <3>3, <3>4 DEF Accept
  <2>2. CASE ~VerifySessionToken(session[b])
    BY <2>2 DEF PamAuth, Refuse
  <2> QED
    BY <2>1, <2>2
<1>2. /\ y = [user |-> y.user, wrote |-> y.wrote]
      /\ \/ y.user = None /\ y.wrote = None
         \/ y.user = None /\ y.wrote = "/oidc/login" /\ ~VerifyRawToken(oidc[b])
         \/ /\ \/ VerifyRawToken(oidc[b]) /\ y.user = Accept("oidc", oidc[b]).user
               \/ VerifyRawToken(bearer[b]) /\ y.user = Accept("oidc", bearer[b]).user
            /\ y.wrote = None
  BY DEF OidcAuth, Accept, Refuse
<1> HIDE DEF x, y
<1>3. "401" # None /\ "/pam-login" # None
  BY ControllerAssumption DEF Pages
<1>4. cfg.mode \in Modes
  BY DEF TypeOK
<1>5. CASE cfg.mode = "none"
  BY <1>5 DEF AuthenticateHTTP, NoopAuth, Granted
<1>6. CASE cfg.mode = "pam"
  <2>1. a = x
    BY <1>6 DEF AuthenticateHTTP, x
  <2> QED
    BY <1>1, <1>6, <2>1 DEF Granted, SentToPam
<1>7. CASE cfg.mode = "oidc"
  <2>1. a = y
    BY <1>7 DEF AuthenticateHTTP, y
  <2> QED
    BY <1>2, <1>7, <2>1 DEF Granted, SentToOidc
<1>8. CASE cfg.mode = "both"
  <2>1. a = Multi(x, y)
    BY <1>8 DEF AuthenticateHTTP, x, y
  <2>2. CASE x.user # None
    BY <1>1, <1>8, <2>1, <2>2 DEF Multi, Granted
  <2>3. CASE x.user = None
    <3>1. x.wrote \in {"401", "/pam-login"} /\ x.wrote # None /\ ~VerifySessionToken(session[b])
      BY <1>1, <1>3, <2>3
    <3>2. a = [user |-> y.user, wrote |-> x.wrote]
      BY <2>1, <2>3, <3>1 DEF Multi
    <3> QED
      BY <1>2, <1>8, <3>1, <3>2 DEF Granted, SentToPam
  <2> QED
    BY <2>2, <2>3
<1> QED
  BY <1>4, <1>5, <1>6, <1>7, <1>8 DEF Modes

\* A new ID token is a token, and carries the name of its person.
LEMMA IDTokenIsToken ==
  ASSUME TypeOK, NEW p \in People, NEW until \in Nat
  PROVE  IDToken(p, until) \in Token /\ IsIDToken(IDToken(p, until))
<1>1. now \in Times /\ now \in Nat /\ now + TokenLife \in Nat
  BY ControllerAssumption DEF TypeOK, Times
<1>2. Username(p) \in Names
  BY UsernameIsName
<1> QED
  BY <1>1, <1>2 DEF IDToken, Token, IsIDToken

\* Who is let in is a user.
LEMMA GrantedIsUser ==
  ASSUME TypeOK, NEW b \in Browsers, NEW u, Granted(b, u)
  PROVE  u \in User
<1>1. CASE u = NoopAuth.user
  BY <1>1, ControllerAssumption DEF NoopAuth, User, Times
<1>2. ASSUME NEW t \in Token, NEW source \in {"pam", "oidc"}, u = Accept(source, t).user
      PROVE  u \in User
  BY <1>2 DEF Accept, Token, User
<1> QED
  BY <1>1, <1>2 DEF Granted, TypeOK, VerifySessionToken, VerifyRawToken

\* Typing is preserved by every step.
LEMMA TypeStep == TypeOK /\ [Next]_vars => TypeOK'
<1> SUFFICES ASSUME TypeOK, [Next]_vars PROVE TypeOK'
  OBVIOUS
<1> USE DEF TypeOK
<1>t. now \in Times /\ now \in Nat /\ now + Life \in Nat /\ now + TokenLife \in Nat
  BY ControllerAssumption DEF Times
<1>1. CASE UNCHANGED vars
  BY <1>1 DEF vars, jarVars
<1>2. ASSUME NEW g \in Given, Boot(g) PROVE TypeOK'
  <2>1. Mode(g) \in Modes
    BY <1>2 DEF Boot, Refused
  <2>2. g.db \in BOOLEAN
    BY ControllerAssumption DEF Startup
  <2>3. boots' \in 0 .. MaxBoots
    BY <1>2, ControllerAssumption DEF Boot
  <2>4. cfg' \in [mode : Modes, frontend : BOOLEAN, db : BOOLEAN]
    BY <1>2, <2>1, <2>2 DEF Boot
  <2> QED
    BY <1>2, <2>3, <2>4 DEF Boot, jarVars
<1>3. CASE BootFails
  <2>1. boots' \in 0 .. MaxBoots
    BY <1>3, ControllerAssumption DEF BootFails
  <2> QED
    BY <1>3, <2>1 DEF BootFails, jarVars
<1>4. CASE Stop
  BY <1>4 DEF Stop, jarVars
<1>5. CASE Tick
  BY <1>5, ControllerAssumption DEF Tick, Times, jarVars
<1>6. ASSUME NEW b \in Browsers, WithAuth(b) PROVE TypeOK'
  <2> DEFINE a == AuthenticateHTTP(b, Target(b))
  <2>1. Target(b) \in Pages
    BY <1>6 DEF WithAuth, Asks
  <2>2. /\ a.user \in User \union {None}
        /\ a.wrote \in Pages \union {"401", "404", None}
    BY <2>1, AuthenticateHTTPResult, GrantedIsUser DEF Pages
  <2>3. NextPage(a) \in Pages \union {"app", "lost"}
    BY DEF NextPage
  <2> HIDE DEF a
  <2>4. [user |-> a.user, wrote |-> a.wrote, time |-> now] \in Answer
    BY <1>t, <2>2 DEF Answer
  <2> QED
    BY <1>6, <2>3, <2>4 DEF WithAuth, jarVars, a
<1>7. ASSUME NEW b \in Browsers, NotFound(b) PROVE TypeOK'
  <2>1. [user |-> None, wrote |-> "404", time |-> now] \in Answer
    BY <1>t DEF Answer
  <2> QED
    BY <1>7, <2>1 DEF NotFound, jarVars
<1>8. ASSUME NEW b \in Browsers, PamLoginGet(b) \/ LoginHandler(b) \/ CallbackRefuses(b)
      PROVE  TypeOK'
  BY <1>8 DEF PamLoginGet, LoginHandler, CallbackRefuses, Goes, jarVars, Pages
<1>9. ASSUME NEW b \in Browsers, CallbackHandler(b) PROVE TypeOK'
  <2>1. IDToken(code[b], now + Life) \in Token
    BY <1>9, <1>t, IDTokenIsToken DEF CallbackHandler
  <2> QED
    BY <1>9, <2>1 DEF CallbackHandler, Goes, Pages
<1>10. ASSUME NEW b \in Browsers, NEW p \in People, PamLoginPost(b, p) PROVE TypeOK'
  <2>1. Account[p] \in Names
    BY <1>10, ControllerAssumption DEF PamLoginPost
  <2>2. [name |-> Account[p], person |-> p, born |-> now, proved |-> TRUE,
         expiry |-> now + Life, until |-> now + Life] \in Token
    BY <1>t, <2>1 DEF Token
  <2> QED
    BY <1>10, <2>2 DEF PamLoginPost, Goes, Pages
<1>11. ASSUME NEW b \in Browsers, NEW p \in People, ProviderLogin(b, p) PROVE TypeOK'
  BY <1>11 DEF ProviderLogin, Goes, Pages
<1>12. ASSUME NEW b \in Browsers, NEW p \in People, ObtainToken(b, p) PROVE TypeOK'
  <2>1. IDToken(p, now + TokenLife) \in Token
    BY <1>t, IDTokenIsToken
  <2> QED
    BY <1>12, <2>1 DEF ObtainToken
<1>13. ASSUME NEW b \in Browsers, NEW page \in Pages, Visit(b, page) PROVE TypeOK'
  BY <1>13 DEF Visit, Goes, jarVars
<1>14. ASSUME NEW b \in Browsers, DropSession(b) \/ DropOidc(b) PROVE TypeOK'
  BY <1>14 DEF DropSession, DropOidc
<1>15. ASSUME NEW b \in Browsers, NEW p \in People, NEW name \in Names, NEW expiry \in Times,
              SignSession(b, p, name, expiry)
       PROVE  TypeOK'
  <2> DEFINE t == [name |-> name, person |-> p, born |-> 0, proved |-> FALSE,
                   expiry |-> expiry, until |-> expiry]
  <2>1. t \in Token
    BY ControllerAssumption DEF Token, Times
  <2>2. /\ session' = [session EXCEPT ![b] = t]
        /\ UNCHANGED <<now, boots, up, cfg, at, oidc, bearer, code, reply>>
    BY <1>15 DEF SignSession
  <2> HIDE DEF t
  <2> QED
    BY <2>1, <2>2
<1> QED
  BY <1>1, <1>2, <1>3, <1>4, <1>5, <1>6, <1>7, <1>8, <1>9, <1>10, <1>11, <1>12, <1>13, <1>14,
     <1>15
     DEF Next, Answered

\* Every token a browser may come to carry is one that its person has earned, or
\* has made with the key.
LEMMA TokenStep == TypeOK /\ TokenInv /\ [Next]_vars => TokenInv'
<1> SUFFICES ASSUME TypeOK, TokenInv, [Next]_vars PROVE TokenInv'
  OBVIOUS
<1> USE DEF TokenInv
<1>t. now + Life \in Nat /\ now + TokenLife \in Nat
  BY ControllerAssumption DEF TypeOK, Times
<1>1. CASE UNCHANGED jarVars
  BY <1>1 DEF jarVars, IsSession, IsIDToken
<1>2. ASSUME NEW b \in Browsers, CallbackHandler(b) PROVE TokenInv'
  <2>1. IsIDToken(IDToken(code[b], now + Life))
    BY <1>2, <1>t, IDTokenIsToken DEF CallbackHandler, TypeOK
  <2>2. oidc' = [oidc EXCEPT ![b] = IDToken(code[b], now + Life)]
        /\ UNCHANGED <<session, bearer>>
    BY <1>2 DEF CallbackHandler
  <2> QED
    BY <2>1, <2>2 DEF TypeOK, IsSession, IsIDToken
<1>3. ASSUME NEW b \in Browsers, NEW p \in People, PamLoginPost(b, p) PROVE TokenInv'
  <2> DEFINE t == [name |-> Account[p], person |-> p, born |-> now, proved |-> TRUE,
                   expiry |-> now + Life, until |-> now + Life]
  <2>1. IsSession(t)
    BY DEF IsSession
  <2>2. session' = [session EXCEPT ![b] = t] /\ UNCHANGED <<oidc, bearer>>
    BY <1>3 DEF PamLoginPost
  <2> HIDE DEF t
  <2> QED
    BY <2>1, <2>2 DEF TypeOK, IsSession, IsIDToken
<1>4. ASSUME NEW b \in Browsers, NEW p \in People, ObtainToken(b, p) PROVE TokenInv'
  <2>1. IsIDToken(IDToken(p, now + TokenLife))
    BY <1>t, IDTokenIsToken
  <2>2. bearer' = [bearer EXCEPT ![b] = IDToken(p, now + TokenLife)] /\ UNCHANGED <<session, oidc>>
    BY <1>4 DEF ObtainToken
  <2> QED
    BY <2>1, <2>2 DEF TypeOK, IsSession, IsIDToken
<1>5. ASSUME NEW b \in Browsers,
             CallbackRefuses(b) \/ DropSession(b) \/ DropOidc(b)
               \/ \E p \in People : ProviderLogin(b, p)
      PROVE  TokenInv'
  BY <1>5 DEF CallbackRefuses, DropSession, DropOidc, ProviderLogin, TypeOK, IsSession, IsIDToken
<1>6. ASSUME BootFails \/ \E g \in Given : Boot(g) PROVE UNCHANGED jarVars
  BY <1>6 DEF Boot, BootFails
<1>7. ASSUME NEW b \in Browsers,
             WithAuth(b) \/ NotFound(b) \/ PamLoginGet(b) \/ LoginHandler(b)
               \/ \E page \in Pages : Visit(b, page)
      PROVE  UNCHANGED jarVars
  BY <1>7 DEF WithAuth, NotFound, PamLoginGet, LoginHandler, Visit
<1>8. ASSUME Stop \/ Tick \/ UNCHANGED vars PROVE UNCHANGED jarVars
  BY <1>8 DEF Stop, Tick, vars
<1>9. ASSUME NEW b \in Browsers, NEW p \in People, NEW name \in Names, NEW expiry \in Times,
             SignSession(b, p, name, expiry)
      PROVE  TokenInv'
  <2> DEFINE t == [name |-> name, person |-> p, born |-> 0, proved |-> FALSE,
                   expiry |-> expiry, until |-> expiry]
  <2>1. IsSession(t)
    BY <1>9 DEF IsSession, SignSession
  <2>2. session' = [session EXCEPT ![b] = t] /\ UNCHANGED <<oidc, bearer>>
    BY <1>9 DEF SignSession
  <2> HIDE DEF t
  <2> QED
    BY <2>1, <2>2 DEF TypeOK, IsSession, IsIDToken
<1> QED
  BY <1>1, <1>2, <1>3, <1>4, <1>5, <1>6, <1>7, <1>8, <1>9 DEF Next, Answered

\* Steps that answer nobody leave the answers and the configuration alone.
LEMMA QuietSteps ==
  ASSUME [Next]_vars
  PROVE  \/ UNCHANGED <<reply, cfg, up>>
         \/ ~up /\ UNCHANGED reply
         \/ Stop
         \/ \E b \in Browsers : WithAuth(b) \/ NotFound(b)
<1>1. CASE UNCHANGED vars
  BY <1>1 DEF vars
<1>2. ASSUME BootFails \/ \E g \in Given : Boot(g) PROVE ~up /\ UNCHANGED reply
  BY <1>2 DEF Boot, BootFails
<1>3. CASE Tick
  BY <1>3 DEF Tick
<1>4. ASSUME NEW b \in Browsers,
             \/ PamLoginGet(b) \/ LoginHandler(b) \/ CallbackHandler(b) \/ CallbackRefuses(b)
             \/ DropSession(b) \/ DropOidc(b)
             \/ \E page \in Pages : Visit(b, page)
             \/ \E q \in People : PamLoginPost(b, q) \/ ProviderLogin(b, q) \/ ObtainToken(b, q)
             \/ \E q \in People, name \in Names, expiry \in Times : SignSession(b, q, name, expiry)
      PROVE  UNCHANGED <<reply, cfg, up>>
  BY <1>4 DEF PamLoginGet, LoginHandler, CallbackHandler, CallbackRefuses, DropSession, DropOidc,
              Visit, PamLoginPost, ProviderLogin, ObtainToken, SignSession, Goes
<1> QED
  BY <1>1, <1>2, <1>3, <1>4 DEF Next, Answered

\* A token that is good now was earned no longer ago than its lifetime, or made
\* by somebody who knows the key.
LEMMA GrantedIsRecent ==
  ASSUME TypeOK, TokenInv, NEW b \in Browsers, NEW u, Granted(b, u)
  PROVE  CASE u.source = "none" -> cfg.mode = "none"
           [] u.source = "pam"  -> /\ cfg.mode \in {"pam", "both"}
                                   /\ \/ u.name = Account[u.person] /\ now <= u.born + Life
                                      \/ ~u.proved /\ u.person \in KeyHolders
           [] u.source = "oidc" -> /\ cfg.mode \in {"oidc", "both"}
                                   /\ u.name = Username(u.person)
                                   /\ now <= u.born + TokenLife
<1>1. CASE u = NoopAuth.user /\ cfg.mode = "none"
  BY <1>1 DEF NoopAuth
<1>2. CASE /\ cfg.mode \in {"pam", "both"}
           /\ VerifySessionToken(session[b])
           /\ u = Accept("pam", session[b]).user
  <2>1. IsSession(session[b]) /\ now <= session[b].expiry
    BY <1>2 DEF VerifySessionToken, TokenInv
  <2> QED
    BY <1>2, <2>1 DEF Accept, IsSession
<1>3. ASSUME NEW t, cfg.mode \in {"oidc", "both"}, VerifyRawToken(t), IsIDToken(t),
             u = Accept("oidc", t).user
      PROVE  /\ u.source = "oidc" /\ u.name = Username(u.person)
             /\ now <= u.born + TokenLife
  BY <1>3 DEF Accept, VerifyRawToken, IsIDToken
<1>4. CASE /\ cfg.mode \in {"oidc", "both"}
           /\ \/ VerifyRawToken(oidc[b]) /\ u = Accept("oidc", oidc[b]).user
              \/ VerifyRawToken(bearer[b]) /\ u = Accept("oidc", bearer[b]).user
  <2>1. /\ VerifyRawToken(oidc[b]) => IsIDToken(oidc[b])
        /\ VerifyRawToken(bearer[b]) => IsIDToken(bearer[b])
    BY DEF VerifyRawToken, TokenInv
  <2>2. /\ u.source = "oidc" /\ u.name = Username(u.person)
        /\ now <= u.born + TokenLife
    BY <1>3, <1>4, <2>1
  <2> QED
    BY <1>4, <2>2
<1> QED
  BY <1>1, <1>2, <1>4 DEF Granted

\* What an answered request adds to reply.
LEMMA AnswerAdded ==
  ASSUME TypeOK, NEW b \in Browsers, WithAuth(b) \/ NotFound(b)
  PROVE  /\ UNCHANGED <<cfg, up>> /\ up
         /\ \A d \in Browsers : d # b => reply'[d] = reply[d]
         /\ reply'[b].time = now
         /\ reply'[b].user = None \/ Granted(b, reply'[b].user)
         /\ \/ reply'[b].wrote \in {None, "401", "404"}
            \/ reply'[b].wrote = "/pam-login" /\ SentToPam(b)
            \/ reply'[b].wrote = "/oidc/login" /\ SentToOidc(b)
<1>1. CASE NotFound(b)
  BY <1>1 DEF NotFound, Asks, TypeOK
<1>2. CASE WithAuth(b)
  <2> DEFINE a == AuthenticateHTTP(b, Target(b))
  <2>1. Target(b) \in Pages
    BY <1>2 DEF WithAuth, Asks
  <2>2. /\ a.user = None \/ Granted(b, a.user)
        /\ \/ a.wrote \in {None, "401"}
           \/ a.wrote = "/pam-login" /\ SentToPam(b)
           \/ a.wrote = "/oidc/login" /\ SentToOidc(b)
    BY <2>1, AuthenticateHTTPResult
  <2> HIDE DEF a
  <2>3. /\ reply' = [reply EXCEPT ![b] = [user |-> a.user, wrote |-> a.wrote, time |-> now]]
        /\ UNCHANGED <<cfg, up>> /\ up
    BY <1>2 DEF WithAuth, Asks, a
  <2>4. reply'[b] = [user |-> a.user, wrote |-> a.wrote, time |-> now]
    BY <2>3 DEF TypeOK
  <2> QED
    BY <2>2, <2>3, <2>4 DEF TypeOK
<1> QED
  BY <1>1, <1>2

\* A user is let in by a recent proof of the name, and a redirect leads to a
\* registered page: kept by every step.
LEMMA AnswerStep == IInv /\ [Next]_vars => DownIsSilent' /\ ServedByRecentLogin' /\ RedirectsLead'
<1> SUFFICES ASSUME IInv, [Next]_vars
             PROVE  DownIsSilent' /\ ServedByRecentLogin' /\ RedirectsLead'
  OBVIOUS
<1> USE DEF IInv
<1>1. CASE UNCHANGED <<reply, cfg, up>>
  BY <1>1 DEF DownIsSilent, ServedByRecentLogin, RedirectsLead, Registered
<1>2. ASSUME \A b \in Browsers : reply'[b] = None
      PROVE  DownIsSilent' /\ ServedByRecentLogin' /\ RedirectsLead'
  BY <1>2 DEF DownIsSilent, ServedByRecentLogin, RedirectsLead
<1>3. CASE ~up /\ UNCHANGED reply
  BY <1>2, <1>3 DEF DownIsSilent
<1>4. CASE Stop
  BY <1>2, <1>4 DEF Stop
<1>5. ASSUME NEW b \in Browsers, WithAuth(b) \/ NotFound(b)
      PROVE  DownIsSilent' /\ ServedByRecentLogin' /\ RedirectsLead'
  <2>1. /\ UNCHANGED <<cfg, up>> /\ up
        /\ \A d \in Browsers : d # b => reply'[d] = reply[d]
        /\ reply'[b].time = now
        /\ reply'[b].user = None \/ Granted(b, reply'[b].user)
        /\ \/ reply'[b].wrote \in {None, "401", "404"}
           \/ reply'[b].wrote = "/pam-login" /\ cfg.mode \in {"pam", "both"}
           \/ reply'[b].wrote = "/oidc/login" /\ cfg.mode = "oidc"
    BY <1>5, AnswerAdded DEF SentToPam, SentToOidc
  <2>2. DownIsSilent'
    BY <2>1 DEF DownIsSilent
  <2>3. ServedByRecentLogin'
    <3> DEFINE Served(r) ==
          CASE r.user.source = "none" -> cfg.mode = "none"
            [] r.user.source = "pam"  -> /\ cfg.mode \in {"pam", "both"}
                                         /\ \/ /\ r.user.name = Account[r.user.person]
                                               /\ r.time <= r.user.born + Life
                                            \/ ~r.user.proved /\ r.user.person \in KeyHolders
            [] r.user.source = "oidc" -> /\ cfg.mode \in {"oidc", "both"}
                                         /\ r.user.name = Username(r.user.person)
                                         /\ r.time <= r.user.born + TokenLife
    <3>1. reply'[b].user # None => Served(reply'[b])
      BY <2>1, GrantedIsRecent
    <3>2. \A d \in Browsers : reply[d] # None /\ reply[d].user # None => Served(reply[d])
      BY DEF ServedByRecentLogin
    <3> HIDE DEF Served
    <3>3. \A d \in Browsers : reply'[d] # None /\ reply'[d].user # None => Served(reply'[d])
      BY <2>1, <3>1, <3>2
    <3> QED
      BY <2>1, <3>3 DEF ServedByRecentLogin, Served
  <2>4. "401" \notin Pages /\ "404" \notin Pages /\ None \notin Pages
    BY ControllerAssumption DEF Pages
  <2>5. \A d \in Browsers : d # b /\ cfg'.frontend /\ reply'[d] # None /\ reply'[d].wrote \in Pages
          => reply'[d].wrote \in Registered'
    BY <2>1 DEF RedirectsLead, Registered
  <2>6. cfg'.frontend /\ reply'[b].wrote \in Pages => reply'[b].wrote \in Registered'
    BY <2>1, <2>4 DEF Registered, Pages
  <2>7. RedirectsLead'
    BY <2>5, <2>6 DEF RedirectsLead
  <2> QED
    BY <2>2, <2>3, <2>7
<1> QED
  BY <1>1, <1>3, <1>4, <1>5, QuietSteps

\* The invariant is inductive.
THEOREM StepIInv == IInv /\ [Next]_vars => IInv'
  BY TypeStep, TokenStep, AnswerStep DEF IInv

\* Every reachable state satisfies the inductive invariant.
THEOREM Invariance == Spec => []IInv
  BY InitIInv, StepIInv, PTL DEF Spec

\* Every variable has its type.
THEOREM TypeCorrect == Spec => []TypeOK
  BY Invariance, PTL DEF IInv

\* Whoever is let in has proved to own the name, recently enough, or knows the
\* key that signs session tokens.
THEOREM RecentLogin == Spec => []ServedByRecentLogin
  BY Invariance, PTL DEF IInv

\* The redirects of an authenticator lead to routes of the same controller.
THEOREM RedirectsAreServed == Spec => []RedirectsLead
  BY Invariance, PTL DEF IInv

\* Nobody with a good cookie is sent to log in.
LEMMA SentHasNoLogin ==
  ASSUME TokenInv, NEW b \in Browsers, SentToPam(b) \/ SentToOidc(b)
  PROVE  ~LoggedIn(b)
<1>1. CASE SentToPam(b)
  <2>1. cfg.mode # "oidc" /\ ~VerifySessionToken(session[b])
    BY <1>1 DEF SentToPam
  <2>2. session[b] # None /\ session[b].proved => session[b].expiry = session[b].born + Life
    BY DEF TokenInv, IsSession
  <2> QED
    BY <2>1, <2>2 DEF VerifySessionToken, LoggedIn
<1>2. CASE SentToOidc(b)
  <2>1. cfg.mode = "oidc" /\ ~VerifyRawToken(oidc[b])
    BY <1>2 DEF SentToOidc
  <2>2. oidc[b] # None => oidc[b].expiry = oidc[b].born + TokenLife
    BY DEF TokenInv, IsIDToken
  <2> QED
    BY <2>1, <2>2 DEF VerifyRawToken, LoggedIn
<1> QED
  BY <1>1, <1>2

\* A login lasts: while its cookie is good, the browser that carries it is not
\* sent to log in, whatever restarts lie in between.  The cookie that counts is
\* the one of PAM in the modes "pam" and "both", the provider's in mode "oidc".
THEOREM OneLoginIsEnough == Spec => LoginLasts
<1>1. IInv => \A b \in Browsers : WithAuth(b) /\ reply'[b].wrote \in Pages => ~LoggedIn(b)
  <2> SUFFICES ASSUME IInv, NEW b \in Browsers, WithAuth(b), reply'[b].wrote \in Pages
               PROVE  ~LoggedIn(b)
    OBVIOUS
  <2>1. \/ reply'[b].wrote \in {None, "401", "404"}
        \/ SentToPam(b) \/ SentToOidc(b)
    BY AnswerAdded DEF IInv
  <2>2. "401" \notin Pages /\ "404" \notin Pages /\ None \notin Pages
    BY ControllerAssumption DEF Pages
  <2> QED
    BY <2>1, <2>2, SentHasNoLogin DEF IInv
<1> QED
  BY <1>1, Invariance, PTL DEF LoginLasts
=============================================================================
