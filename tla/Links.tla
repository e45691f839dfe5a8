------------------------------- MODULE Links -------------------------------
(***************************************************************************)
(* What the database promises of workspaces, as their links show them: a   *)
(* directory in which every link leads to one workspace or to none.  Its   *)
(* owner gives a workspace a link, opens it to others, closes and deletes  *)
(* it; a reader is shown what a link leads to, when it is the reader's own *)
(* or open at that moment, or is refused.                                  *)
(***************************************************************************)
CONSTANTS
  Readers,
  Workspaces,  \* pairs of an owner and a name
  Keys,        \* what links are made of
  Nowhere

VARIABLES
  leads,  \* the workspace each link leads to, or Nowhere
  open,   \* the workspaces that others may read
  shown   \* the last answer: to whom, and the workspace it shows

vars == <<leads, open, shown>>

Init ==
  /\ leads = [k \in Keys |-> Nowhere]
  /\ open = {}
  /\ shown = [to |-> Nowhere, workspace |-> Nowhere]

Shows(u, w) == shown' = [to |-> u, workspace |-> w]

\* What leads elsewhere or nowhere afterwards; a workspace has one link.
Moved(w, links) ==
  leads' = [k \in Keys |-> IF k \in links THEN w
                           ELSE IF leads[k] = w THEN Nowhere ELSE leads[k]]

\* Only to a link that leads nowhere else.
Save(w, k) ==
  /\ Shows(w[1], w)
  /\ leads[k] \in {w, Nowhere}
  /\ Moved(w, {k})
  /\ open' \in {open \union {w}, open \ {w}}

Delete(w) ==
  /\ Shows(w[1], Nowhere)
  /\ Moved(w, {})
  /\ open' = open \ {w}

\* By its owner, through the link.
Share(w, k) ==
  /\ Shows(w[1], Nowhere)
  /\ leads[k] = w
  /\ open' = open \union {w}
  /\ UNCHANGED leads

Read(u, w, k) ==
  /\ Shows(u, w)
  /\ leads[k] = w
  /\ w[1] = u \/ w \in open
  /\ UNCHANGED <<leads, open>>

\* Refusals, and requests for other things.
Other(u) ==
  /\ Shows(u, Nowhere)
  /\ UNCHANGED <<leads, open>>

Next ==
  \/ \E u \in Readers : Other(u) \/ \E w \in Workspaces, k \in Keys : Read(u, w, k)
  \/ \E w \in Workspaces : Delete(w) \/ \E k \in Keys : Save(w, k) \/ Share(w, k)

Spec == Init /\ [][Next]_vars
=============================================================================
