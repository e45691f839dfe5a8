\* Two workers, two DELETEs and two ports, which are given out again.
CONSTANTS
  Posts = {p1, p2}
  Deletes = {d1, d2}
  Ports = {n1, n2}
  None = None
  Main = Main
SPECIFICATION Spec
INVARIANTS TypeOK NoStrayWorker StoppedIsOver WaitsEnd
PROPERTY ImplementsService
SYMMETRY Symmetry
CHECK_DEADLOCK FALSE
