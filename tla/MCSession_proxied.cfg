\* A message right behind REGISTER_VIEWER (session.go:91).
CONSTANTS
  reg = reg
  reg2 = reg2
  open = open
  open2 = open2
  prox = prox
  plain = plain
  stat = stat
  Byte = 4
  IcdVersion = 9
  EmptyEvent = 0
  RegisterViewer = 1
  OpenFile = 4
  SetCursor = 6
  SetContours = 9
  SetRegion = 14
  FileIdType <- FileIdTypes
  Msgs = {reg, plain}
  Replies = {}
  Others = {}
  Files <- ScriptIds
  Frames <- ScriptFrames
  Kind <- ScriptKind
  File <- ScriptFile
  Cap = 1
  Client = Client
  Nil = Nil
SPECIFICATION FairSpec
PROPERTY ProxiedIsSent
CHECK_DEADLOCK FALSE
