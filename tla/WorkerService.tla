--------------------------- MODULE WorkerService ---------------------------
(***************************************************************************)
(* What carta-spawn promises to its clients, with no process tables, no    *)
(* HTTP handlers and no locks: a worker that was requested is either       *)
(* served or refused, and the service loses track of a worker - it refuses *)
(* the request or retires the entry - only when the worker's process is    *)
(* over, unless the operating system does not let the service signal it.   *)
(* Spawner.tla implements this specification.                              *)
(***************************************************************************)
CONSTANT Workers

VARIABLES
  up,          \* the service process is running
  running,     \* the workers whose process is running
  status,      \* what the service says of each worker
  protected    \* the workers whose process the service may not signal

vars == <<up, running, status, protected>>

Status == {"unknown", "requested", "serving", "retired", "refused"}

TypeOK ==
  /\ up \in BOOLEAN
  /\ running \subseteq Workers
  /\ status \in [Workers -> Status]
  /\ protected \subseteq Workers

Init ==
  /\ up = TRUE
  /\ running = {}
  /\ status = [w \in Workers |-> "unknown"]
  /\ protected \in SUBSET Workers

SetStatus(w, from, to) ==
  /\ up
  /\ status[w] = from
  /\ status' = [status EXCEPT ![w] = to]
  /\ UNCHANGED <<up, protected>>

\* The worker's process starts when it is requested.
Request(w) == SetStatus(w, "unknown", "requested") /\ running' = running \union {w}

Reject(w) == SetStatus(w, "unknown", "refused") /\ UNCHANGED running

Serve(w) == SetStatus(w, "requested", "serving") /\ UNCHANGED running

\* The service gives up a worker: its process is over by then.
MayForget(w) == w \notin running \/ w \in protected

\* A refusal may itself be what ends the process.
Refuse(w) ==
  /\ SetStatus(w, "requested", "refused")
  /\ running' \in {running, running \ {w}}
  /\ MayForget(w)'

Retire(w) == SetStatus(w, "serving", "retired") /\ MayForget(w) /\ UNCHANGED running

\* A process may end at any time, also after the service is gone.
End(w) ==
  /\ w \in running
  /\ running' = running \ {w}
  /\ UNCHANGED <<up, status, protected>>

Stop == up /\ up' = FALSE /\ UNCHANGED <<running, status, protected>>

Next ==
  \/ \E w \in Workers : \/ Request(w) \/ Reject(w) \/ Serve(w)
                        \/ Refuse(w) \/ Retire(w) \/ End(w)
  \/ Stop

Spec == Init /\ [][Next]_vars
=============================================================================
