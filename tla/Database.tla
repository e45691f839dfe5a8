------------------------------ MODULE Database ------------------------------
(***************************************************************************)
(* The database behind carta-ctl's /api/database: preferences, layouts,    *)
(* snippets and workspaces of every user.  Requests of several browsers    *)
(* and users run at once, each in a goroutine of its own, and an answer    *)
(* may be lost and the request sent again.  Every handler does all it does *)
(* to shared state in one SQL statement, which PostgreSQL runs atomically, *)
(* so a request is one step here, and a repeated one is a step more.       *)
(***************************************************************************)
CONSTANTS
  Users, Names,
  Tables,    \* layouts and snippets, which have the same handlers
  Ids,       \* UUIDs
  Keys,      \* keys of preferences
  Values,    \* values of preferences
  Contents,  \* contents of layouts, snippets and workspaces
  Version, Current,  \* the key "version" and PREFERENCE_SCHEMA_VERSION
  Nil,       \* no value, no row, SQL's NULL
  Garbled    \* a string that is not a UUID

ASSUME DatabaseAssumption ==
  /\ Version \in Keys /\ Current \in Values
  /\ Nil \notin Values \union Contents \union BOOLEAN \union Ids \union (Users \X Names)
  /\ Nil \notin [id : Ids, shared : BOOLEAN \union {Nil}, content : Contents]
  /\ Garbled \notin Ids \union {Nil}

VARIABLES
  prefs,       \* preferences: a row that does not exist has no keys
  docs,        \* the contents of Tables
  workspaces,
  usedIds,     \* ids some workspace has had
  reply,       \* the last answer, and the workspace it shows
  everShared   \* workspaces whose owner has asked for them to be shared

vars == <<prefs, docs, workspaces, usedIds, reply, everShared>>

Slots == Users \X Names
Row == [id : Ids, shared : BOOLEAN \union {Nil}, content : Contents]
Bodies == UNION {[K -> Values] : K \in SUBSET Keys}

TypeOK ==
  /\ prefs \in [Users -> [Keys -> Values \union {Nil}]]
  /\ docs \in [Tables \X Slots -> Contents \union {Nil}]
  /\ workspaces \in [Slots -> Row \union {Nil}]
  /\ usedIds \subseteq Ids
  /\ reply \in [to : Users \union {Nil}, status : {200, 400, 404, 500},
                id : Ids \union {Nil, Garbled}, slot : Slots \union {Nil}]
  /\ everShared \subseteq Slots

Init ==
  /\ prefs = [u \in Users |-> [k \in Keys |-> Nil]]
  /\ docs = [t \in Tables \X Slots |-> Nil]
  /\ workspaces = [s \in Slots |-> Nil]
  /\ usedIds = {}
  /\ reply = [to |-> Nil, status |-> 200, id |-> Nil, slot |-> Nil]
  /\ everShared = {}

Answer(u, status) == reply' = [to |-> u, status |-> status, id |-> Nil, slot |-> Nil]
AnswerSlot(u, id, s) == reply' = [to |-> u, status |-> 200, id |-> id, slot |-> s]

\* A body that does not decode or validate (400), no user name, a statement
\* that fails or a request that is cancelled before it runs (500).  The body null
\* of a save of preferences is a nil map, which the handler panics on: net/http
\* ends that exchange, and nothing else changes either.
Refuse(u) ==
  /\ \E status \in {400, 500} : Answer(u, status)
  /\ UNCHANGED <<prefs, docs, workspaces, usedIds, everShared>>

-----------------------------------------------------------------------------
(* Preferences. *)

\* Mutation: content = EXCLUDED.content.
SetPreferencesReplaces(u, body) ==
  /\ prefs' = [prefs EXCEPT ![u] =
       [k \in Keys |-> IF k = Version THEN Current
                       ELSE IF k \in DOMAIN body THEN body[k] ELSE Nil]]
  /\ Answer(u, 200)
  /\ UNCHANGED <<docs, workspaces, usedIds, everShared>>

\* The body is merged into what is stored, under the current version.
SetPreferences(u, body) ==
  /\ prefs' = [prefs EXCEPT ![u] =
       [k \in Keys |-> IF k = Version THEN Current
                       ELSE IF k \in DOMAIN body THEN body[k] ELSE prefs[u][k]]]
  /\ Answer(u, 200)
  /\ UNCHANGED <<docs, workspaces, usedIds, everShared>>

ClearPreferences(u, keys) ==
  /\ keys # {}
  /\ prefs' = [prefs EXCEPT ![u] = [k \in Keys |-> IF k \in keys THEN Nil ELSE prefs[u][k]]]
  /\ Answer(u, 200)
  /\ UNCHANGED <<docs, workspaces, usedIds, everShared>>

-----------------------------------------------------------------------------
(* Layouts and snippets. *)

\* Mutation: user name and layout name, both strings, change places among the
\* arguments of the INSERT.
SetDocSwapped(t, s, content) ==
  /\ docs' = [d \in DOMAIN docs \union {<<t, <<s[2], s[1]>>>>} |->
                IF d = <<t, <<s[2], s[1]>>>> THEN content ELSE docs[d]]
  /\ Answer(s[1], 200)
  /\ UNCHANGED <<prefs, workspaces, usedIds, everShared>>

SetDoc(t, s, content) ==
  /\ docs' = [docs EXCEPT ![<<t, s>>] = content]
  /\ Answer(s[1], 200)
  /\ UNCHANGED <<prefs, workspaces, usedIds, everShared>>

ClearDoc(t, s) ==
  /\ docs' = [docs EXCEPT ![<<t, s>>] = Nil]
  /\ Answer(s[1], 200)
  /\ UNCHANGED <<prefs, workspaces, usedIds, everShared>>

-----------------------------------------------------------------------------
(* Workspaces. *)

Stored(s) == workspaces[s] # Nil
Holders(id) == {s \in Slots : Stored(s) /\ workspaces[s].id = id}

\* A row is written; one with shared = true is its owner asking for it.
Put(s, id, shared, content) ==
  /\ workspaces' = [workspaces EXCEPT ![s] = [id |-> id, shared |-> shared, content |-> content]]
  /\ usedIds' = usedIds \union {id}
  /\ everShared' = IF shared = TRUE THEN everShared \union {s} ELSE everShared
  /\ UNCHANGED <<prefs, docs>>

\* Mutation: no UNIQUE (id).
SaveWithIdUnchecked(s, id, shared, content) ==
  /\ Put(s, id, shared, content)
  /\ AnswerSlot(s[1], id, s)

\* Mutation: ON CONFLICT (id).
SaveWithIdOverwrites(s, id, shared, content) ==
  /\ Put(IF Holders(id) = {} THEN s ELSE CHOOSE t \in Holders(id) : TRUE, id, shared, content)
  /\ AnswerSlot(s[1], id, s)

\* The body names an id, perhaps of another workspace of anybody: UNIQUE (id).
\* The row gets that id, whatever it had.
SaveWithId(s, id, shared, content) ==
  /\ Holders(id) \subseteq {s}
  /\ Put(s, id, shared, content)
  /\ AnswerSlot(s[1], id, s)

\* Mutation: DO UPDATE SET id = DEFAULT.
SaveWithoutIdRenews(s, id, shared, content) ==
  /\ id \notin usedIds
  /\ Put(s, id, shared, content)
  /\ AnswerSlot(s[1], Garbled, s)

\* A new row gets a random id, an old one keeps its own.  The id is scanned
\* into an interface, as bytes, which encoding/json writes in base64.
SaveWithoutId(s, id, shared, content) ==
  /\ IF Stored(s) THEN id = workspaces[s].id ELSE id \notin usedIds
  /\ Put(s, id, shared, content)
  /\ AnswerSlot(s[1], Garbled, s)

ClearWorkspace(s) ==
  /\ workspaces' = [workspaces EXCEPT ![s] = Nil]
  /\ everShared' = everShared \ {s}
  /\ Answer(s[1], 200)
  /\ UNCHANGED <<prefs, docs, usedIds>>

\* A key that names no row the statement selects, or is no UUID at all.
KeyFails(u, key, selected) ==
  /\ selected = {}
  /\ Answer(u, IF key \in Ids THEN 404 ELSE 500)
  /\ UNCHANGED <<prefs, docs, workspaces, usedIds, everShared>>

OwnedBy(u) == {s \in Slots : s[1] = u}

\* Mutation: no AND username = $2.
ShareWorkspaceOfAnybody(u, key) ==
  \/ KeyFails(u, key, Holders(key))
  \/ \E s \in Holders(key) :
       /\ workspaces' = [workspaces EXCEPT ![s].shared = TRUE]
       /\ everShared' = everShared \union ({s} \intersect OwnedBy(u))
       /\ Answer(u, 200)
       /\ UNCHANGED <<prefs, docs, usedIds>>

ShareWorkspace(u, key) ==
  \/ KeyFails(u, key, Holders(key) \intersect OwnedBy(u))
  \/ \E s \in Holders(key) \intersect OwnedBy(u) :
       /\ workspaces' = [workspaces EXCEPT ![s].shared = TRUE]
       /\ everShared' = everShared \union ({s} \intersect OwnedBy(u))
       /\ Answer(u, 200)
       /\ UNCHANGED <<prefs, docs, usedIds>>

\* Mutation: the rows of the others are seen too.
GetWorkspaceByKeyOfAnybody(u, key) ==
  \/ KeyFails(u, key, Holders(key))
  \/ /\ \E s \in Holders(key) : AnswerSlot(u, key, s)
     /\ UNCHANGED <<prefs, docs, workspaces, usedIds, everShared>>

GetWorkspaceByKey(u, key) ==
  LET seen == {s \in Holders(key) : s[1] = u \/ workspaces[s].shared = TRUE} IN
  \/ KeyFails(u, key, seen)
  \/ /\ \E s \in seen : AnswerSlot(u, key, s)
     /\ UNCHANGED <<prefs, docs, workspaces, usedIds, everShared>>

GetWorkspaceByName(s) ==
  /\ IF Stored(s) THEN AnswerSlot(s[1], workspaces[s].id, s) ELSE Answer(s[1], 404)
  /\ UNCHANGED <<prefs, docs, workspaces, usedIds, everShared>>

\* GET /preferences, /layouts, /snippets, /list/workspaces: the user's own.
GetOwn(u) ==
  /\ Answer(u, 200)
  /\ UNCHANGED <<prefs, docs, workspaces, usedIds, everShared>>

-----------------------------------------------------------------------------
UserStep(u) ==
  \/ Refuse(u) \/ GetOwn(u)
  \/ \E body \in Bodies : SetPreferences(u, body)
  \/ \E keys \in SUBSET Keys : ClearPreferences(u, keys)
  \/ \E key \in Ids \union {Garbled} : ShareWorkspace(u, key) \/ GetWorkspaceByKey(u, key)

SlotStep(s) ==
  \/ \E t \in Tables : ClearDoc(t, s) \/ \E content \in Contents : SetDoc(t, s, content)
  \/ \E id \in Ids, shared \in BOOLEAN \union {Nil}, content \in Contents :
       SaveWithId(s, id, shared, content) \/ SaveWithoutId(s, id, shared, content)
  \/ ClearWorkspace(s) \/ GetWorkspaceByName(s)

Next == (\E u \in Users : UserStep(u)) \/ (\E s \in Slots : SlotStep(s))

Spec == Init /\ [][Next]_vars

-----------------------------------------------------------------------------
\* The links of a row are its id, and it is open as long as its column says so.
LeadsTo(id) == IF Holders(id) = {} THEN Nil ELSE CHOOSE s \in Holders(id) : TRUE
Opened == {s \in Slots : Stored(s) /\ workspaces[s].shared = TRUE}

L == INSTANCE Links WITH
       Readers <- Users, Workspaces <- Slots, Keys <- Ids, Nowhere <- Nil,
       leads <- [id \in Ids |-> LeadsTo(id)], open <- Opened,
       shown <- [to |-> reply.to, workspace |-> reply.slot]

\* Through requests of whoever, in whatever order, the workspaces are a directory
\* of links: a save takes no link from another workspace and moves no link but its
\* own, a workspace others are shown is open at that moment, and only its owner
\* opens, closes or deletes it.
ImplementsLinks == L!Spec

\* A key leads to one workspace at most, whoever names which ids in which
\* order, and however often a save is repeated.
KeysAreUnambiguous ==
  \A s, t \in Slots : Stored(s) /\ Stored(t) /\ workspaces[s].id = workspaces[t].id => s = t

\* Nobody is shown a workspace of somebody else that its owner has never asked
\* to be shared: no sequence of saves, shares and deletes of other users, with
\* whatever ids, opens it.
PrivateStaysPrivate ==
  reply.slot # Nil /\ reply.slot \notin OwnedBy(reply.to) => reply.slot \in everShared

\* A request changes rows of the user it comes from only.
OwnRowsOnly ==
  [][/\ \A u \in Users : prefs'[u] # prefs[u] => reply'.to = u
     /\ \A s \in Slots :
          \/ workspaces'[s] # workspaces[s]
          \/ \E t \in Tables : docs'[<<t, s>>] # docs[<<t, s>>]
          => reply'.to = s[1]]_vars

\* A workspace keeps its id, and so its links, when it is saved again without
\* one, shared or saved twice: only a save that names another id changes it.
KeysSurviveSaves ==
  [][\A s \in Slots : Stored(s) /\ Stored(s)' /\ workspaces'[s].id # workspaces[s].id =>
       reply'.slot = s /\ reply'.id = workspaces'[s].id]_vars

\* Two browsers of a user that save or clear different keys do not undo each
\* other's: a request changes no key but those it names, and the version.
PrefsChangeAsNamed ==
  [][\A u \in Users, k \in Keys \ {Version} : prefs'[u][k] # prefs[u][k] =>
       \/ \E body \in Bodies : SetPreferences(u, body) /\ k \in DOMAIN body /\ prefs'[u][k] = body[k]
       \/ \E keys \in SUBSET Keys : ClearPreferences(u, keys) /\ k \in keys]_vars
=============================================================================
