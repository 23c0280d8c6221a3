SPECIFICATION ChatSpec
CONSTANTS
  Procs = {p1, p2}
  MaxClient = 2
  MaxUnread = 1
  Names = {"a", "b"}
  Stored <- ShortNames
  Cmds = {"name", "tell", "exit", "yell", "who", "piped"}
  Crashes = {p1, p2}
  MasterEnds = TRUE
  Overlap = TRUE
  None = None
SYMMETRY Sym
CONSTRAINT UntilFailure
INVARIANT ChatTypeOK
INVARIANT ExclusionUnlessFailed
INVARIANT LockNeverLost
INVARIANT BodyUninterrupted
INVARIANT NamesUnique
INVARIANT NoLostWakeup
INVARIANT ClearsOnlyPrinted
INVARIANT SlotExclusive
PROPERTY SlotKept
PROPERTY LockSpec
CHECK_DEADLOCK FALSE
