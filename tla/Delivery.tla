------------------------------ MODULE Delivery ------------------------------
(***************************************************************************)
(* What a session promises whoever sends: a message that a line accepts is *)
(* delivered at the line's end, once, or lost only because the connection  *)
(* at that end is over; and a line never keeps more than a bounded number  *)
(* of messages.  A carrier takes the oldest message of its line and has    *)
(* one at a time: a line with one carrier delivers in the order of         *)
(* acceptance, a line with two may not, and a line with none delivers      *)
(* nothing.  Several lines may lead to one end, and what is accepted on    *)
(* different lines has no order.                                           *)
(***************************************************************************)
EXTENDS Naturals, Sequences

CONSTANTS
  Messages,
  Lines,
  Carriers,
  Ends,
  First,     \* the line, carrier and end that are there from the beginning
  Room,      \* how many messages a line keeps at most
  None

VARIABLES
  accepted,  \* the messages some line has accepted
  queue,     \* what waits in each line, the oldest first
  end,       \* where each line leads
  line,      \* the line each carrier serves
  carried,   \* the message each carrier has
  state,     \* each end: "none", "open" or "closed"
  delivered  \* the messages each end has got

vars == <<accepted, queue, end, line, carried, state, delivered>>

Init ==
  /\ accepted = {}
  /\ queue = [l \in Lines |-> <<>>]
  /\ end = [l \in Lines |-> IF l = First THEN First ELSE None]
  /\ line = [t \in Carriers |-> IF t = First THEN First ELSE None]
  /\ carried = [t \in Carriers |-> None]
  /\ state = [k \in Ends |-> IF k = First THEN "open" ELSE "none"]
  /\ delivered = [k \in Ends |-> {}]

Open(k) ==
  /\ state[k] = "none"
  /\ state' = [state EXCEPT ![k] = "open"]
  /\ UNCHANGED <<accepted, queue, end, line, carried, delivered>>

\* One event may end several connections.
Close ==
  /\ state' \in [Ends -> {"none", "open", "closed"}]
  /\ \A k \in Ends : state'[k] # state[k] => state[k] = "open" /\ state'[k] = "closed"
  /\ UNCHANGED <<accepted, queue, end, line, carried, delivered>>

\* A line leads to one end for good, and to none before that end was open.
Attach(l, k) ==
  /\ end[l] = None /\ queue[l] = <<>>
  /\ state[k] # "none"
  /\ end' = [end EXCEPT ![l] = k]
  /\ UNCHANGED <<accepted, queue, line, carried, state, delivered>>

\* A carrier serves one line for good.
Join(t, l) ==
  /\ line[t] = None /\ end[l] # None
  /\ line' = [line EXCEPT ![t] = l]
  /\ UNCHANGED <<accepted, queue, end, carried, state, delivered>>

Accept(a, l) ==
  /\ a \notin accepted
  /\ end[l] # None
  /\ Len(queue[l]) < Room
  /\ accepted' = accepted \union {a}
  /\ queue' = [queue EXCEPT ![l] = Append(@, a)]
  /\ UNCHANGED <<end, line, carried, state, delivered>>

Take(t, l) ==
  /\ line[t] = l /\ carried[t] = None
  /\ queue[l] # <<>>
  /\ carried' = [carried EXCEPT ![t] = Head(queue[l])]
  /\ queue' = [queue EXCEPT ![l] = Tail(@)]
  /\ UNCHANGED <<accepted, end, line, state, delivered>>

Deliver(t, k) ==
  /\ carried[t] # None /\ end[line[t]] = k
  /\ state[k] = "open"
  /\ carried[t] \notin delivered[k]
  /\ carried' = [carried EXCEPT ![t] = None]
  /\ delivered' = [delivered EXCEPT ![k] = @ \union {carried[t]}]
  /\ UNCHANGED <<accepted, queue, end, line, state>>

Lose(t) ==
  /\ carried[t] # None
  /\ state[end[line[t]]] = "closed"
  /\ carried' = [carried EXCEPT ![t] = None]
  /\ UNCHANGED <<accepted, queue, end, line, state, delivered>>

Next ==
  \/ Close
  \/ \E k \in Ends : Open(k)
  \/ \E l \in Lines : \/ \E k \in Ends : Attach(l, k)
                      \/ \E a \in Messages : Accept(a, l)
  \/ \E t \in Carriers : \/ \E l \in Lines : Join(t, l) \/ Take(t, l)
                         \/ \E k \in Ends : Deliver(t, k)
                         \/ Lose(t)

Spec == Init /\ [][Next]_vars
=============================================================================
