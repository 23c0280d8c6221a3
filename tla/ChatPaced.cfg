SPECIFICATION FairChatSpec
CONSTANTS
  Procs = {p1, p2}
  MaxClient = 2
  MaxUnread = 1
  Names = {"a"}
  Stored <- ShortNames
  Cmds = {"name", "tell", "yell", "who", "piped", "exit"}
  Crashes = {p1}
  MasterEnds = FALSE
  Overlap = FALSE
  None = None
PROPERTY CallsReturn
PROPERTY MessagesArrive
CHECK_DEADLOCK FALSE
