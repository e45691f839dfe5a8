--------------------------- MODULE DatabaseProofs ---------------------------
(***************************************************************************)
(* Proofs about Database, for any number of users, names, ids and keys.    *)
(***************************************************************************)
EXTENDS Database, TLAPS

\* A row's id has been used: a new random id is nobody's.
IdsAreUsed == \A s \in Slots : Stored(s) => workspaces[s].id \in usedIds

\* The column says no more than the owner has asked for.
SharedIsAsked == \A s \in Slots : Stored(s) /\ workspaces[s].shared = TRUE => s \in everShared

IInv == TypeOK /\ KeysAreUnambiguous /\ IdsAreUsed /\ SharedIsAsked /\ PrivateStaysPrivate

\* Nil is not a row.
LEMMA RowNotNil == \A r \in Row : r # Nil
  BY DatabaseAssumption DEF Row

\* Updating a function at one argument keeps its type.
LEMMA ExceptTyped ==
  ASSUME NEW D, NEW R, NEW f \in [D -> R], NEW i, NEW v \in R
  PROVE  [f EXCEPT ![i] = v] \in [D -> R]
  OBVIOUS

\* The empty database satisfies the inductive invariant.
THEOREM InitIInv == Init => IInv
  BY DEF Init, IInv, TypeOK, KeysAreUnambiguous, IdsAreUsed, SharedIsAsked,
         PrivateStaysPrivate, Stored, Slots

\* A row that is written with an id nobody else has.
LEMMA PutStep ==
  ASSUME IInv, NEW s \in Slots, NEW id \in Ids, NEW shared \in BOOLEAN \union {Nil},
         NEW content \in Contents, NEW answer \in Ids \union {Nil, Garbled},
         Holders(id) \subseteq {s}, Put(s, id, shared, content), AnswerSlot(s[1], answer, s)
  PROVE  IInv'
<1> DEFINE r == [id |-> id, shared |-> shared, content |-> content]
<1>1. r \in Row /\ r.id = id /\ r.shared = shared
  BY DEF Row
<1>2. s[1] \in Users
  BY DEF Slots
<1>3. /\ workspaces' \in [Slots -> Row \union {Nil}]
      /\ workspaces'[s] = r
      /\ \A t \in Slots \ {s} : workspaces'[t] = workspaces[t]
  BY <1>1 DEF IInv, TypeOK, Put
<1>4. TypeOK'
  BY <1>2, <1>3 DEF IInv, TypeOK, Put, AnswerSlot
<1> HIDE DEF r
<1>5. KeysAreUnambiguous'
  BY <1>1, <1>3 DEF IInv, KeysAreUnambiguous, Stored, Holders
<1>6. IdsAreUsed' /\ SharedIsAsked'
  BY <1>1, <1>3 DEF IInv, IdsAreUsed, SharedIsAsked, Stored, Put
<1>7. PrivateStaysPrivate'
  BY DEF AnswerSlot, PrivateStaysPrivate, OwnedBy
<1> QED
  BY <1>4, <1>5, <1>6, <1>7 DEF IInv

\* A step that leaves workspaces alone, and answers with no workspace.
LEMMA PlainStep ==
  ASSUME IInv, TypeOK', UNCHANGED <<workspaces, usedIds, everShared>>, reply'.slot = Nil
  PROVE  IInv'
  BY DEF IInv, KeysAreUnambiguous, IdsAreUsed, SharedIsAsked, PrivateStaysPrivate, Stored

\* Every request preserves the inductive invariant.
LEMMA StepIInv == IInv /\ [Next]_vars => IInv'
<1> SUFFICES ASSUME IInv, [Next]_vars PROVE IInv'
  OBVIOUS
<1>1. CASE UNCHANGED vars
  BY <1>1 DEF vars, IInv, TypeOK, KeysAreUnambiguous, IdsAreUsed, SharedIsAsked,
       PrivateStaysPrivate, Stored
<1>2. ASSUME NEW u \in Users, Refuse(u) \/ GetOwn(u) PROVE IInv'
  <2>1. TypeOK' /\ reply'.slot = Nil
    BY <1>2 DEF Refuse, GetOwn, Answer, IInv, TypeOK
  <2> QED
    BY <1>2, <2>1, PlainStep DEF Refuse, GetOwn
<1>3. ASSUME NEW u \in Users, NEW body \in Bodies, SetPreferences(u, body) PROVE IInv'
  <2>1. \A k \in DOMAIN body : body[k] \in Values
    BY DEF Bodies
  <2>2. TypeOK' /\ reply'.slot = Nil
    BY <1>3, <2>1, DatabaseAssumption DEF SetPreferences, Answer, IInv, TypeOK
  <2> QED
    BY <1>3, <2>2, PlainStep DEF SetPreferences
<1>4. ASSUME NEW u \in Users, NEW keys \in SUBSET Keys, ClearPreferences(u, keys) PROVE IInv'
  <2>1. TypeOK' /\ reply'.slot = Nil
    BY <1>4 DEF ClearPreferences, Answer, IInv, TypeOK
  <2> QED
    BY <1>4, <2>1, PlainStep DEF ClearPreferences
<1>5. ASSUME NEW u \in Users, NEW key \in Ids \union {Garbled}, NEW selected,
             KeyFails(u, key, selected)
      PROVE  IInv'
  <2>1. TypeOK' /\ reply'.slot = Nil
    BY <1>5 DEF KeyFails, Answer, IInv, TypeOK
  <2> QED
    BY <1>5, <2>1, PlainStep DEF KeyFails
<1>6. ASSUME NEW u \in Users, NEW key \in Ids \union {Garbled}, ShareWorkspace(u, key) PROVE IInv'
  <2>1. CASE KeyFails(u, key, Holders(key) \intersect OwnedBy(u))
    BY <1>5, <2>1
  <2>2. ASSUME NEW s \in Holders(key) \intersect OwnedBy(u),
               workspaces' = [workspaces EXCEPT ![s].shared = TRUE],
               everShared' = everShared \union ({s} \intersect OwnedBy(u)),
               Answer(u, 200),
               UNCHANGED <<prefs, docs, usedIds>>
        PROVE  IInv'
    <3>1. s \in Slots /\ workspaces[s] \in Row /\ s \in OwnedBy(u)
      <4>1. s \in Slots /\ workspaces[s] # Nil /\ s \in OwnedBy(u)
        BY DEF Holders, Stored
      <4> QED
        BY <4>1 DEF IInv, TypeOK
    <3>2. /\ workspaces' \in [Slots -> Row \union {Nil}]
          /\ workspaces'[s] \in Row /\ workspaces'[s].id = workspaces[s].id
          /\ \A t \in Slots \ {s} : workspaces'[t] = workspaces[t]
      <4> DEFINE r == [workspaces[s] EXCEPT !.shared = TRUE]
      <4>1. r \in Row /\ r.id = workspaces[s].id
        BY <3>1 DEF Row
      <4>2. workspaces' = [workspaces EXCEPT ![s] = r]
        BY <2>2
      <4> HIDE DEF r
      <4> QED
        BY <3>1, <4>1, <4>2 DEF IInv, TypeOK
    <3>3. TypeOK'
      BY <2>2, <3>1, <3>2 DEF IInv, TypeOK, Answer
    <3>4. \A t \in Slots : Stored(t)' => Stored(t) /\ workspaces'[t].id = workspaces[t].id
      BY <3>1, <3>2, RowNotNil DEF Stored
    <3>5. KeysAreUnambiguous' /\ IdsAreUsed'
      BY <2>2, <3>4 DEF IInv, KeysAreUnambiguous, IdsAreUsed
    <3>6. SharedIsAsked'
      BY <2>2, <3>1, <3>2, <3>4 DEF IInv, SharedIsAsked
    <3>7. PrivateStaysPrivate'
      BY <2>2 DEF Answer, PrivateStaysPrivate
    <3> QED
      BY <3>3, <3>5, <3>6, <3>7 DEF IInv
  <2> QED
    BY <1>6, <2>1, <2>2 DEF ShareWorkspace
<1>7. ASSUME NEW u \in Users, NEW key \in Ids \union {Garbled}, GetWorkspaceByKey(u, key)
      PROVE  IInv'
  <2> DEFINE seen == {s \in Holders(key) : s[1] = u \/ workspaces[s].shared = TRUE}
  <2>1. CASE KeyFails(u, key, seen)
    BY <1>5, <2>1
  <2>2. ASSUME NEW s \in seen, AnswerSlot(u, key, s),
               UNCHANGED <<prefs, docs, workspaces, usedIds, everShared>>
        PROVE  IInv'
    <3>1. s \in Slots /\ Stored(s) /\ (s \in OwnedBy(u) \/ s \in everShared)
      BY DEF Holders, OwnedBy, IInv, SharedIsAsked
    <3>2. TypeOK'
      BY <2>2, <3>1 DEF IInv, TypeOK, AnswerSlot
    <3>3. PrivateStaysPrivate'
      BY <2>2, <3>1 DEF PrivateStaysPrivate, AnswerSlot, OwnedBy
    <3> QED
      BY <2>2, <3>2, <3>3 DEF IInv, KeysAreUnambiguous, IdsAreUsed, SharedIsAsked, Stored
  <2> QED
    BY <1>7, <2>1, <2>2 DEF GetWorkspaceByKey
<1>8. ASSUME NEW s \in Slots, NEW t \in Tables,
             ClearDoc(t, s) \/ (\E content \in Contents : SetDoc(t, s, content))
      PROVE  IInv'
  <2>1. docs' \in [Tables \X Slots -> Contents \union {Nil}]
    <3>1. PICK v \in Contents \union {Nil} : docs' = [docs EXCEPT ![<<t, s>>] = v]
      BY <1>8 DEF ClearDoc, SetDoc
    <3>2. docs \in [Tables \X Slots -> Contents \union {Nil}]
      BY DEF IInv, TypeOK
    <3> QED
      BY <3>1, <3>2, ExceptTyped
  <2>2. Answer(s[1], 200) /\ s[1] \in Users
    BY <1>8 DEF ClearDoc, SetDoc, Slots
  <2>3. TypeOK' /\ reply'.slot = Nil
    BY <1>8, <2>1, <2>2 DEF ClearDoc, SetDoc, Answer, IInv, TypeOK
  <2> QED
    BY <1>8, <2>3, PlainStep DEF ClearDoc, SetDoc
<1>9. ASSUME NEW s \in Slots, NEW id \in Ids, NEW shared \in BOOLEAN \union {Nil},
             NEW content \in Contents,
             SaveWithId(s, id, shared, content) \/ SaveWithoutId(s, id, shared, content)
      PROVE  IInv'
  <2>1. Holders(id) \subseteq {s}
    <3>1. CASE SaveWithId(s, id, shared, content)
      BY <3>1 DEF SaveWithId
    <3>2. CASE SaveWithoutId(s, id, shared, content) /\ Stored(s)
      BY <3>2 DEF SaveWithoutId, Holders, IInv, KeysAreUnambiguous
    <3>3. CASE SaveWithoutId(s, id, shared, content) /\ ~Stored(s)
      BY <3>3 DEF SaveWithoutId, Holders, IInv, IdsAreUsed
    <3> QED
      BY <1>9, <3>1, <3>2, <3>3
  <2> QED
    BY <1>9, <2>1, PutStep DEF SaveWithId, SaveWithoutId
<1>10. ASSUME NEW s \in Slots, ClearWorkspace(s) PROVE IInv'
  <2>1. TypeOK' /\ reply'.slot = Nil
    BY <1>10 DEF ClearWorkspace, Answer, IInv, TypeOK, Slots
  <2>2. \A t \in Slots : Stored(t)' => t # s /\ Stored(t) /\ workspaces'[t] = workspaces[t]
    BY <1>10 DEF ClearWorkspace, Stored, IInv, TypeOK
  <2>3. KeysAreUnambiguous' /\ IdsAreUsed' /\ SharedIsAsked'
    BY <1>10, <2>2 DEF ClearWorkspace, IInv, KeysAreUnambiguous, IdsAreUsed, SharedIsAsked
  <2> QED
    BY <2>1, <2>3 DEF IInv, PrivateStaysPrivate
<1>11. ASSUME NEW s \in Slots, GetWorkspaceByName(s) PROVE IInv'
  <2>1. CASE ~Stored(s)
    <3>1. TypeOK' /\ reply'.slot = Nil
      BY <1>11, <2>1 DEF GetWorkspaceByName, Answer, IInv, TypeOK, Slots
    <3> QED
      BY <1>11, <3>1, PlainStep DEF GetWorkspaceByName
  <2>2. CASE Stored(s)
    <3>1. workspaces[s].id \in Ids /\ s[1] \in Users
      BY <2>2 DEF IInv, TypeOK, Stored, Row, Slots
    <3>2. TypeOK'
      BY <1>11, <2>2, <3>1 DEF GetWorkspaceByName, AnswerSlot, IInv, TypeOK
    <3>3. PrivateStaysPrivate'
      BY <1>11, <2>2 DEF GetWorkspaceByName, AnswerSlot, PrivateStaysPrivate, OwnedBy
    <3> QED
      BY <1>11, <3>2, <3>3 DEF GetWorkspaceByName, IInv, KeysAreUnambiguous, IdsAreUsed,
           SharedIsAsked, Stored
  <2> QED
    BY <2>1, <2>2
<1> QED
  BY <1>1, <1>2, <1>3, <1>4, <1>6, <1>7, <1>8, <1>9, <1>10, <1>11 DEF Next, UserStep, SlotStep

\* The inductive invariant holds throughout.
THEOREM DatabaseInvariant == Spec => []IInv
  BY InitIInv, StepIInv, PTL DEF Spec

\* Every table keeps its type.
THEOREM DatabaseTypeOK == Spec => []TypeOK
  BY DatabaseInvariant, PTL DEF IInv

\* A key leads to one workspace at most.
THEOREM KeysAreUnambiguousHolds == Spec => []KeysAreUnambiguous
  BY DatabaseInvariant, PTL DEF IInv

\* A workspace its owner has not asked to be shared is shown to nobody else.
THEOREM PrivateStaysPrivateHolds == Spec => []PrivateStaysPrivate
  BY DatabaseInvariant, PTL DEF IInv

-----------------------------------------------------------------------------
(* Action properties. *)

\* What each step changes, and for whom.
OwnStep ==
  /\ \A u \in Users : prefs'[u] # prefs[u] => reply'.to = u
  /\ \A s \in Slots :
       \/ workspaces'[s] # workspaces[s]
       \/ \E t \in Tables : docs'[<<t, s>>] # docs[<<t, s>>]
       => reply'.to = s[1]

LEMMA OwnStepHolds == IInv /\ [Next]_vars => OwnStep
<1> SUFFICES ASSUME IInv, [Next]_vars PROVE OwnStep
  OBVIOUS
<1>1. CASE UNCHANGED <<prefs, docs, workspaces>>
  BY <1>1 DEF OwnStep
<1>2. ASSUME NEW u \in Users, UNCHANGED <<docs, workspaces>>, reply'.to = u,
             \A v \in Users \ {u} : prefs'[v] = prefs[v]
      PROVE  OwnStep
  BY <1>2 DEF OwnStep
<1>3. ASSUME NEW s \in Slots, UNCHANGED prefs, reply'.to = s[1],
             \A z \in Slots \ {s} : workspaces'[z] = workspaces[z],
             \A z \in Slots \ {s}, t \in Tables : docs'[<<t, z>>] = docs[<<t, z>>]
      PROVE  OwnStep
  BY <1>3 DEF OwnStep
<1>4. ASSUME NEW u \in Users,
             \/ \E body \in Bodies : SetPreferences(u, body)
             \/ \E keys \in SUBSET Keys : ClearPreferences(u, keys)
      PROVE  OwnStep
  <2>1. PICK f : prefs' = [prefs EXCEPT ![u] = f]
    BY <1>4 DEF SetPreferences, ClearPreferences
  <2>2. \A v \in Users \ {u} : prefs'[v] = prefs[v]
    BY <2>1 DEF IInv, TypeOK
  <2>3. UNCHANGED <<docs, workspaces>> /\ Answer(u, 200)
    BY <1>4 DEF SetPreferences, ClearPreferences
  <2> QED
    BY <1>2, <2>2, <2>3 DEF Answer
<1>5. ASSUME NEW u \in Users, NEW key \in Ids \union {Garbled}, ShareWorkspace(u, key)
      PROVE  OwnStep
  <2>1. CASE KeyFails(u, key, Holders(key) \intersect OwnedBy(u))
    BY <1>1, <2>1 DEF KeyFails
  <2>2. ASSUME NEW s \in Holders(key) \intersect OwnedBy(u),
               workspaces' = [workspaces EXCEPT ![s].shared = TRUE],
               Answer(u, 200), UNCHANGED <<prefs, docs>>
        PROVE  OwnStep
    <3>1. s \in Slots /\ s[1] = u
      BY DEF Holders, OwnedBy
    <3>2. \A z \in Slots \ {s} : workspaces'[z] = workspaces[z]
      BY <2>2 DEF IInv, TypeOK
    <3> QED
      BY <1>3, <2>2, <3>1, <3>2 DEF Answer
  <2> QED
    BY <1>5, <2>1, <2>2 DEF ShareWorkspace
<1>6. ASSUME NEW s \in Slots, NEW t \in Tables,
             ClearDoc(t, s) \/ (\E content \in Contents : SetDoc(t, s, content))
      PROVE  OwnStep
  <2>1. PICK c : docs' = [docs EXCEPT ![<<t, s>>] = c]
    BY <1>6 DEF ClearDoc, SetDoc
  <2>2. \A z \in Slots \ {s}, y \in Tables : docs'[<<y, z>>] = docs[<<y, z>>]
    BY <2>1 DEF IInv, TypeOK
  <2> QED
    BY <1>3, <1>6, <2>2 DEF ClearDoc, SetDoc, Answer
<1>7. ASSUME NEW s \in Slots, NEW id \in Ids, NEW shared \in BOOLEAN \union {Nil},
             NEW content \in Contents,
             SaveWithId(s, id, shared, content) \/ SaveWithoutId(s, id, shared, content)
      PROVE  OwnStep
  <2>1. \A z \in Slots \ {s} : workspaces'[z] = workspaces[z]
    BY <1>7 DEF SaveWithId, SaveWithoutId, Put, IInv, TypeOK
  <2> QED
    BY <1>3, <1>7, <2>1 DEF SaveWithId, SaveWithoutId, Put, AnswerSlot
<1>8. ASSUME NEW s \in Slots, ClearWorkspace(s) PROVE OwnStep
  <2>1. \A z \in Slots \ {s} : workspaces'[z] = workspaces[z]
    BY <1>8 DEF ClearWorkspace, IInv, TypeOK
  <2> QED
    BY <1>3, <1>8, <2>1 DEF ClearWorkspace, Answer
<1>9. ASSUME NEW u \in Users, NEW key, GetWorkspaceByKey(u, key) PROVE OwnStep
  BY <1>1, <1>9 DEF GetWorkspaceByKey, KeyFails
<1> QED
  BY <1>1, <1>4, <1>5, <1>6, <1>7, <1>8, <1>9 DEF Next, UserStep, SlotStep, Refuse, GetOwn,
     GetWorkspaceByName, vars

\* No request changes a row of somebody else.
THEOREM OwnRowsOnlyHolds == Spec => OwnRowsOnly
<1>1. IInv /\ [Next]_vars => [OwnStep]_vars
  BY OwnStepHolds
<1> QED
  BY DatabaseInvariant, <1>1, PTL DEF Spec, OwnRowsOnly, OwnStep

\* What a step does to the key of a workspace that stays.
KeyStep ==
  \A s \in Slots : Stored(s) /\ Stored(s)' /\ workspaces'[s].id # workspaces[s].id =>
    reply'.slot = s /\ reply'.id = workspaces'[s].id

LEMMA KeyStepHolds == IInv /\ [Next]_vars => KeyStep
<1> SUFFICES ASSUME IInv, [Next]_vars PROVE KeyStep
  OBVIOUS
<1>1. CASE \A s \in Slots : Stored(s) /\ Stored(s)' => workspaces'[s].id = workspaces[s].id
  BY <1>1 DEF KeyStep
<1>2. CASE UNCHANGED workspaces
  BY <1>1, <1>2
<1>3. ASSUME NEW u \in Users, NEW key \in Ids \union {Garbled}, ShareWorkspace(u, key)
      PROVE  KeyStep
  <2>1. CASE KeyFails(u, key, Holders(key) \intersect OwnedBy(u))
    BY <1>2, <2>1 DEF KeyFails
  <2>2. ASSUME NEW s \in Holders(key) \intersect OwnedBy(u),
               workspaces' = [workspaces EXCEPT ![s].shared = TRUE]
        PROVE  KeyStep
    <3>1. s \in Slots /\ workspaces[s] # Nil
      BY DEF Holders, Stored
    <3>2. workspaces[s] \in Row
      BY <3>1 DEF IInv, TypeOK
    <3>3. [workspaces[s] EXCEPT !.shared = TRUE].id = workspaces[s].id
      BY <3>2 DEF Row
    <3>4. \A z \in Slots : workspaces'[z].id = workspaces[z].id
      BY <2>2, <3>3 DEF IInv, TypeOK
    <3> QED
      BY <1>1, <3>4
  <2> QED
    BY <1>3, <2>1, <2>2 DEF ShareWorkspace
<1>4. ASSUME NEW s \in Slots, NEW id \in Ids, NEW shared \in BOOLEAN \union {Nil},
             NEW content \in Contents, Put(s, id, shared, content)
      PROVE  /\ workspaces'[s].id = id
             /\ \A z \in Slots \ {s} : workspaces'[z] = workspaces[z]
  BY <1>4 DEF Put, IInv, TypeOK
<1>5. ASSUME NEW s \in Slots, NEW id \in Ids, NEW shared \in BOOLEAN \union {Nil},
             NEW content \in Contents, SaveWithId(s, id, shared, content)
      PROVE  KeyStep
  BY <1>4, <1>5 DEF SaveWithId, AnswerSlot, KeyStep
<1>6. ASSUME NEW s \in Slots, NEW id \in Ids, NEW shared \in BOOLEAN \union {Nil},
             NEW content \in Contents, SaveWithoutId(s, id, shared, content)
      PROVE  KeyStep
  BY <1>1, <1>4, <1>6 DEF SaveWithoutId
<1>7. ASSUME NEW s \in Slots, ClearWorkspace(s) PROVE KeyStep
  BY <1>1, <1>7 DEF ClearWorkspace, Stored, IInv, TypeOK
<1>8. ASSUME NEW u \in Users, NEW key, GetWorkspaceByKey(u, key) PROVE KeyStep
  BY <1>2, <1>8 DEF GetWorkspaceByKey, KeyFails
<1> QED
  <2>1. ASSUME NEW u \in Users, UserStep(u) PROVE KeyStep
    BY <1>2, <1>3, <1>8, <2>1 DEF UserStep, Refuse, GetOwn, SetPreferences, ClearPreferences
  <2>2. ASSUME NEW s \in Slots, SlotStep(s) PROVE KeyStep
    BY <1>2, <1>5, <1>6, <1>7, <2>2 DEF SlotStep, SetDoc, ClearDoc, GetWorkspaceByName
  <2>3. CASE UNCHANGED vars
    BY <1>2, <2>3 DEF vars
  <2> QED
    BY <2>1, <2>2, <2>3 DEF Next

\* A workspace that is saved again, shared or saved twice keeps its key.
THEOREM KeysSurviveSavesHolds == Spec => KeysSurviveSaves
<1>1. IInv /\ [Next]_vars => [KeyStep]_vars
  BY KeyStepHolds
<1> QED
  BY DatabaseInvariant, <1>1, PTL DEF Spec, KeysSurviveSaves, KeyStep

\* What a step does to preferences: it changes keys that it names.
PrefStep ==
  \A u \in Users, k \in Keys \ {Version} : prefs'[u][k] # prefs[u][k] =>
    \/ \E body \in Bodies : SetPreferences(u, body) /\ k \in DOMAIN body /\ prefs'[u][k] = body[k]
    \/ \E keys \in SUBSET Keys : ClearPreferences(u, keys) /\ k \in keys

\* Only the two handlers of preferences change them, each the keys it is given.
LEMMA PrefStepHolds == IInv /\ [Next]_vars => PrefStep
<1> SUFFICES ASSUME IInv, [Next]_vars PROVE PrefStep
  OBVIOUS
<1>1. CASE UNCHANGED prefs
  BY <1>1 DEF PrefStep
<1>2. ASSUME NEW u \in Users, NEW body \in Bodies, SetPreferences(u, body) PROVE PrefStep
  <2>1. \A w \in Users : w # u => prefs'[w] = prefs[w]
    BY <1>2 DEF SetPreferences, IInv, TypeOK
  <2>2. \A k \in Keys \ {Version} : prefs'[u][k] = IF k \in DOMAIN body THEN body[k] ELSE prefs[u][k]
    BY <1>2 DEF SetPreferences, IInv, TypeOK
  <2> QED
    BY <1>2, <2>1, <2>2 DEF PrefStep
<1>3. ASSUME NEW u \in Users, NEW keys \in SUBSET Keys, ClearPreferences(u, keys) PROVE PrefStep
  <2>1. \A w \in Users : w # u => prefs'[w] = prefs[w]
    BY <1>3 DEF ClearPreferences, IInv, TypeOK
  <2>2. \A k \in Keys : prefs'[u][k] = IF k \in keys THEN Nil ELSE prefs[u][k]
    BY <1>3 DEF ClearPreferences, IInv, TypeOK
  <2> QED
    BY <1>3, <2>1, <2>2 DEF PrefStep
<1>4. ASSUME NEW u \in Users, UserStep(u) PROVE PrefStep
  BY <1>1, <1>2, <1>3, <1>4 DEF UserStep, Refuse, GetOwn, ShareWorkspace, GetWorkspaceByKey, KeyFails
<1>5. ASSUME NEW s \in Slots, SlotStep(s) PROVE PrefStep
  BY <1>1, <1>5 DEF SlotStep, SetDoc, ClearDoc, SaveWithId, SaveWithoutId, Put, ClearWorkspace,
                    GetWorkspaceByName
<1>6. CASE UNCHANGED vars
  BY <1>1, <1>6 DEF vars
<1> QED
  BY <1>4, <1>5, <1>6 DEF Next

\* Browsers that save or clear different preferences do not undo each other's.
THEOREM PrefsChangeAsNamedHolds == Spec => PrefsChangeAsNamed
<1>1. IInv /\ [Next]_vars => [PrefStep]_vars
  BY PrefStepHolds
<1> QED
  BY DatabaseInvariant, <1>1, PTL DEF Spec, PrefsChangeAsNamed, PrefStep

-----------------------------------------------------------------------------
(* ImplementsLinks, by refinement. *)

\* A link leads to the row that has its id.
LinkFact == \A id \in Ids :
  /\ LeadsTo(id) \in Slots \union {Nil}
  /\ \A s \in Slots : LeadsTo(id) = s <=> Stored(s) /\ workspaces[s].id = id

\* Keys lead to one row at most, so that the choice in LeadsTo is none.
LEMMA LinksLead == KeysAreUnambiguous => LinkFact
<1> SUFFICES ASSUME KeysAreUnambiguous, NEW id \in Ids
             PROVE  /\ LeadsTo(id) \in Slots \union {Nil}
                    /\ \A s \in Slots : LeadsTo(id) = s <=> Stored(s) /\ workspaces[s].id = id
  BY DEF LinkFact
<1>n. Nil \notin Slots
  BY DatabaseAssumption DEF Slots
<1>1. CASE Holders(id) = {}
  BY <1>1, <1>n DEF LeadsTo, Holders
<1>2. CASE Holders(id) # {}
  <2>1. LeadsTo(id) \in Holders(id)
    BY <1>2 DEF LeadsTo
  <2>2. \A s, t \in Holders(id) : s = t
    BY DEF Holders, KeysAreUnambiguous
  <2> QED
    BY <2>1, <2>2 DEF Holders
<1> QED
  BY <1>1, <1>2

\* What a step does to the links and the open workspaces, from what it does to the row of s.
LEMMA RowMoves ==
  ASSUME LinkFact, LinkFact', NEW s \in Slots, NEW links,
         \A t \in Slots \ {s} : workspaces'[t] = workspaces[t],
         \A id \in Ids : id \in links <=> Stored(s)' /\ workspaces'[s].id = id,
         \A id \in links : LeadsTo(id) \in {s, Nil}
  PROVE  L!Moved(s, links)
<1> SUFFICES ASSUME NEW id \in Ids
             PROVE  LeadsTo(id)' = IF id \in links THEN s
                                   ELSE IF LeadsTo(id) = s THEN Nil ELSE LeadsTo(id)
  BY DEF L!Moved
<1>n. Nil \notin Slots
  BY DatabaseAssumption DEF Slots
<1>t. \A t \in Slots \ {s} : LeadsTo(id)' = t <=> LeadsTo(id) = t
  BY DEF LinkFact, Stored
<1>l. LeadsTo(id) \in Slots \union {Nil} /\ LeadsTo(id)' \in Slots \union {Nil}
  BY DEF LinkFact
<1>1. CASE id \in links
  BY <1>1 DEF LinkFact
<1>2. CASE id \notin links
  <2>1. LeadsTo(id)' # s
    BY <1>2 DEF LinkFact
  <2> QED
    BY <1>2, <1>n, <1>t, <1>l, <2>1
<1> QED
  BY <1>1, <1>2

\* A step that leaves the workspaces alone leaves the links and what is open.
LEMMA NothingMoves ==
  ASSUME UNCHANGED workspaces
  PROVE  UNCHANGED <<[id \in Ids |-> LeadsTo(id)], Opened>>
<1>1. \A id : LeadsTo(id)' = LeadsTo(id)
  BY DEF LeadsTo, Holders, Stored
<1>2. Opened' = Opened
  BY DEF Opened, Stored
<1> QED
  BY <1>1, <1>2

\* What is open changes with the row of s.
LEMMA RowOpens ==
  ASSUME NEW s \in Slots, \A t \in Slots \ {s} : workspaces'[t] = workspaces[t]
  PROVE  /\ Stored(s)' /\ workspaces'[s].shared = TRUE => Opened' = Opened \union {s}
         /\ ~(Stored(s)' /\ workspaces'[s].shared = TRUE) => Opened' = Opened \ {s}
  BY DEF Opened, Stored

\* Every request is one of the directory of links.
LEMMA LinkStep == IInv /\ LinkFact /\ LinkFact' /\ [Next]_vars => [L!Next]_(L!vars)
<1> SUFFICES ASSUME IInv, LinkFact, LinkFact', [Next]_vars PROVE [L!Next]_(L!vars)
  OBVIOUS
<1>s. \A s \in Slots : s[1] \in Users
  BY DEF Slots
<1>f. workspaces \in [Slots -> Row \union {Nil}]
  BY DEF IInv, TypeOK
<1>o. ASSUME NEW u \in Users, UNCHANGED workspaces, reply'.to = u, reply'.slot = Nil
      PROVE  L!Next
  <2>1. L!Other(u)
    BY <1>o, NothingMoves DEF L!Other, L!Shows
  <2> QED
    BY <2>1 DEF L!Next
<1>r. ASSUME NEW u \in Users, NEW s \in Slots, Stored(s), UNCHANGED workspaces,
             reply'.to = u, reply'.slot = s, s[1] = u \/ workspaces[s].shared = TRUE
      PROVE  L!Next
  <2> DEFINE id == workspaces[s].id
  <2>1. id \in Ids
    BY <1>r, <1>f DEF Stored, Row
  <2>2. LeadsTo(id) = s
    BY <1>r, <2>1 DEF LinkFact
  <2> HIDE DEF id
  <2>3. L!Read(u, s, id)
    BY <1>r, <2>1, <2>2, NothingMoves DEF L!Read, L!Shows, Opened
  <2> QED
    BY <2>1, <2>3 DEF L!Next
<1>1. CASE UNCHANGED vars
  <2>1. UNCHANGED workspaces /\ UNCHANGED reply
    BY <1>1 DEF vars
  <2> QED
    BY <2>1, NothingMoves DEF L!vars
<1>2. ASSUME NEW u \in Users,
             \/ Refuse(u) \/ GetOwn(u)
             \/ \E body \in Bodies : SetPreferences(u, body)
             \/ \E keys \in SUBSET Keys : ClearPreferences(u, keys)
             \/ \E key, selected : KeyFails(u, key, selected)
      PROVE  L!Next
  <2>1. UNCHANGED workspaces /\ reply'.to = u /\ reply'.slot = Nil
    BY <1>2 DEF Refuse, GetOwn, SetPreferences, ClearPreferences, KeyFails, Answer
  <2> QED
    BY <1>o, <2>1
<1>3. ASSUME NEW u \in Users, NEW key \in Ids \union {Garbled}, ShareWorkspace(u, key) PROVE L!Next
  <2>1. CASE KeyFails(u, key, Holders(key) \intersect OwnedBy(u))
    BY <1>2, <2>1
  <2>2. ASSUME NEW s \in Holders(key) \intersect OwnedBy(u),
               workspaces' = [workspaces EXCEPT ![s].shared = TRUE], Answer(u, 200)
        PROVE  L!Next
    <3>1. s \in Slots /\ Stored(s) /\ workspaces[s].id = key /\ s[1] = u
      BY DEF Holders, OwnedBy
    <3>2. workspaces[s] \in Row /\ key \in Ids
      BY <1>f, <3>1 DEF Stored, Row
    <3>3. /\ Stored(s)' /\ workspaces'[s].shared = TRUE /\ workspaces'[s].id = key
          /\ \A t \in Slots \ {s} : workspaces'[t] = workspaces[t]
      <4> DEFINE r == [workspaces[s] EXCEPT !.shared = TRUE]
      <4>1. r \in Row /\ r.id = key /\ r.shared = TRUE
        BY <3>1, <3>2 DEF Row
      <4>2. workspaces' = [workspaces EXCEPT ![s] = r]
        BY <2>2
      <4> HIDE DEF r
      <4> QED
        BY <1>f, <3>1, <4>1, <4>2, RowNotNil DEF Stored
    <3>4. LeadsTo(key) = s
      BY <3>1, <3>2 DEF LinkFact
    <3>5. \A id \in Ids : LeadsTo(id)' = LeadsTo(id)
      <4>1. \A id \in Ids, t \in Slots : LeadsTo(id)' = t <=> LeadsTo(id) = t
        BY <3>1, <3>3 DEF LinkFact, Stored
      <4> QED
        BY <4>1 DEF LinkFact
    <3>6. Opened' = Opened \union {s}
      BY <3>1, <3>3, RowOpens
    <3>7. L!Share(s, key)
      BY <2>2, <3>1, <3>2, <3>4, <3>5, <3>6 DEF L!Share, L!Shows, Answer
    <3> QED
      BY <3>1, <3>2, <3>7 DEF L!Next
  <2> QED
    BY <1>3, <2>1, <2>2 DEF ShareWorkspace
<1>4. ASSUME NEW u \in Users, NEW key \in Ids \union {Garbled}, GetWorkspaceByKey(u, key) PROVE L!Next
  <2> DEFINE seen == {s \in Holders(key) : s[1] = u \/ workspaces[s].shared = TRUE}
  <2>1. CASE KeyFails(u, key, seen)
    BY <1>2, <2>1
  <2>2. ASSUME NEW s \in seen, AnswerSlot(u, key, s), UNCHANGED workspaces PROVE L!Next
    <3>1. s \in Slots /\ Stored(s) /\ (s[1] = u \/ workspaces[s].shared = TRUE)
      BY DEF Holders
    <3> QED
      BY <1>r, <2>2, <3>1 DEF AnswerSlot
  <2> QED
    BY <1>4, <2>1, <2>2 DEF GetWorkspaceByKey
<1>5. ASSUME NEW s \in Slots, NEW t \in Tables,
             ClearDoc(t, s) \/ (\E content \in Contents : SetDoc(t, s, content))
      PROVE  L!Next
  <2>1. UNCHANGED workspaces /\ reply'.to = s[1] /\ reply'.slot = Nil
    BY <1>5 DEF ClearDoc, SetDoc, Answer
  <2> QED
    BY <1>o, <1>s, <2>1
<1>6. ASSUME NEW s \in Slots, NEW id \in Ids, NEW shared \in BOOLEAN \union {Nil},
             NEW content \in Contents,
             SaveWithId(s, id, shared, content) \/ SaveWithoutId(s, id, shared, content)
      PROVE  L!Next
  <2> DEFINE r == [id |-> id, shared |-> shared, content |-> content]
  <2>1. r \in Row /\ r.id = id /\ r.shared = shared
    BY DEF Row
  <2>2. workspaces' = [workspaces EXCEPT ![s] = r] /\ reply'.to = s[1] /\ reply'.slot = s
    BY <1>6 DEF SaveWithId, SaveWithoutId, Put, AnswerSlot
  <2> HIDE DEF r
  <2>3. /\ Stored(s)' /\ workspaces'[s] = r
        /\ \A t \in Slots \ {s} : workspaces'[t] = workspaces[t]
    BY <1>f, <2>1, <2>2, RowNotNil DEF Stored
  <2>4. LeadsTo(id) \in {s, Nil}
    <3>1. CASE SaveWithId(s, id, shared, content)
      <4>1. \A t \in Slots : Stored(t) /\ workspaces[t].id = id => t = s
        BY <3>1 DEF SaveWithId, Holders
      <4> QED
        BY <4>1 DEF LinkFact
    <3>2. CASE SaveWithoutId(s, id, shared, content) /\ Stored(s)
      BY <3>2 DEF SaveWithoutId, LinkFact
    <3>3. CASE SaveWithoutId(s, id, shared, content) /\ ~Stored(s)
      <4>1. \A t \in Slots : Stored(t) => workspaces[t].id # id
        BY <3>3 DEF SaveWithoutId, IInv, IdsAreUsed
      <4> QED
        BY <4>1 DEF LinkFact
    <3> QED
      BY <1>6, <3>1, <3>2, <3>3
  <2>5. L!Moved(s, {id})
    BY <2>1, <2>3, <2>4, RowMoves
  <2>6. Opened' \in {Opened \union {s}, Opened \ {s}}
    BY <2>3, RowOpens
  <2>7. L!Save(s, id)
    BY <2>2, <2>4, <2>5, <2>6 DEF L!Save, L!Shows
  <2> QED
    BY <2>7 DEF L!Next
<1>7. ASSUME NEW s \in Slots, ClearWorkspace(s) PROVE L!Next
  <2>1. ~Stored(s)' /\ \A t \in Slots \ {s} : workspaces'[t] = workspaces[t]
    BY <1>7, <1>f DEF ClearWorkspace, Stored
  <2>2. L!Moved(s, {})
    BY <2>1, RowMoves
  <2>3. Opened' = Opened \ {s}
    BY <2>1, RowOpens
  <2>4. L!Delete(s)
    BY <1>7, <2>2, <2>3 DEF ClearWorkspace, Answer, L!Delete, L!Shows
  <2> QED
    BY <2>4 DEF L!Next
<1>8. ASSUME NEW s \in Slots, GetWorkspaceByName(s) PROVE L!Next
  <2>1. UNCHANGED workspaces /\ reply'.to = s[1]
        /\ reply'.slot = (IF Stored(s) THEN s ELSE Nil)
    BY <1>8 DEF GetWorkspaceByName, Answer, AnswerSlot
  <2> QED
    BY <1>o, <1>r, <1>s, <2>1
<1> QED
  BY <1>1, <1>2, <1>3, <1>4, <1>5, <1>6, <1>7, <1>8 DEF Next, UserStep, SlotStep

\* For any number of users, names and ids the workspaces are a directory of links:
\* no save takes another's link, nothing is shown to others that is not open then,
\* and nobody but its owner opens, closes or deletes a workspace.
THEOREM DatabaseImplementsLinks == Spec => ImplementsLinks
<1>1. Init => L!Init
  <2> SUFFICES ASSUME Init PROVE L!Init
    OBVIOUS
  <2>1. \A s \in Slots : ~Stored(s)
    BY DEF Init, Stored
  <2>2. \A id \in Ids : LeadsTo(id) = Nil
    BY <2>1 DEF LeadsTo, Holders
  <2>3. Opened = {}
    BY <2>1 DEF Opened
  <2> QED
    BY <2>2, <2>3 DEF Init, L!Init
<1>2. IInv => LinkFact
  BY LinksLead DEF IInv
<1>3. IInv /\ LinkFact /\ LinkFact' /\ [Next]_vars => [L!Next]_(L!vars)
  BY LinkStep
<1> QED
  BY DatabaseInvariant, <1>1, <1>2, <1>3, PTL DEF Spec, ImplementsLinks, L!Spec

=============================================================================
