\* One worker and a signal (main.go:228).
CONSTANTS
  Posts = {p1}
  Deletes = {}
  Ports = {n1}
  None = None
  Main = Main
SPECIFICATION Spec
PROPERTY GracefulFirst
CHECK_DEADLOCK FALSE
