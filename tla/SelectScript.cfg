SPECIFICATION FairDelaySpec
CONSTANTS
  Sessions = {c1, c2}
  MaxClient = 2
  MaxChange = 1
  Names = {"a"}
  Stored <- ShortNames
  Vars = {"X"}
  Values = {"1"}
  Packets <- SaidPackets
  MaxPackets = 2
  Paced = TRUE
  Leaves = FALSE
  None = None
  Users = {1, 2}
  Relogs = FALSE
  PauseSuffices = TRUE
INVARIANT NeverWaits
PROPERTY LinesServed
PROPERTY ScriptGoesOn
CHECK_DEADLOCK FALSE
