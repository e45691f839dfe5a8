\* A client that leaves while its worker sends (session.go:104).
CONSTANTS
  reg = reg
  reg2 = reg2
  open = open
  open2 = open2
  prox = prox
  plain = plain
  stat = stat
  Byte = 4
  IcdVersion = 9
  EmptyEvent = 0
  RegisterViewer = 1
  OpenFile = 4
  SetCursor = 6
  SetContours = 9
  SetRegion = 14
  FileIdType <- FileIdTypes
  Msgs = {reg}
  Replies = {r1}
  Others = {}
  Files <- ScriptIds
  Frames <- ScriptFrames
  Kind <- ScriptKind
  File <- ScriptFile
  Cap = 1
  Client = Client
  Nil = Nil
SPECIFICATION Spec
INVARIANT ClosedChannelsAreQuiet
CHECK_DEADLOCK FALSE
