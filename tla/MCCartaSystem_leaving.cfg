\* One worker of the session and one of somebody else, who may be given its port
\* when it is over, the session's own DELETE and one more.
CONSTANTS
  reg = reg
  alien = alien
  other = other
  Msgs = {reg}
  Posts = {reg, alien}
  Replies = {}
  Files = {}
  Kind <- OneKind
  File <- OneFile
  Cap = 1
  Client = Client
  None = None
  Ports = {n1}
  Main = Main
  Leave = Leave
  Deletes = {Leave, other}
SPECIFICATION FairSystemSpec
ACTION_CONSTRAINT Narrow
INVARIANTS HeldIsListed DoneIsOver
PROPERTIES ImplementsSession LeavingEndsWorker
CHECK_DEADLOCK FALSE
