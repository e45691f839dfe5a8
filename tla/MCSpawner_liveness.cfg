\* Two workers, a DELETE and a signal; no symmetry, the properties are temporal.
CONSTANTS
  Posts = {p1, p2}
  Deletes = {d1}
  Ports = {n1}
  None = None
  Main = Main
SPECIFICATION FairSpec
PROPERTIES SignalStopsWorkers SignalEndsSpawner PostAnswered DeleteAnswered
CHECK_DEADLOCK FALSE
