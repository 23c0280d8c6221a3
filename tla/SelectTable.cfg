SPECIFICATION SelectSpec
CONSTANTS
  Sessions = {c1, c2, c3}
  MaxClient = 2
  MaxChange = 1
  Names = {"a"}
  Stored <- ShortNames
  Vars = {"PATH"}
  Values = {"1"}
  Packets <- TablePackets
  MaxPackets = 2
  Paced = TRUE
  Leaves = TRUE
  None = None
SYMMETRY Sym
INVARIANT SelectTypeOK
INVARIANT WatchedAreValid
INVARIANT SlotIsOwn
CHECK_DEADLOCK FALSE
