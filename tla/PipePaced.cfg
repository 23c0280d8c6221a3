SPECIFICATION FairPipeSpec
CONSTANTS
  Procs = {p1, p2}
  Ids = {i1, i2}
  Stages <- PlainStages
  MaxFifo = 4
  Overlap = FALSE
  MasterEnds = FALSE
  None = None
PROPERTY KeepsOutputs
INVARIANT ReadersMatch
PROPERTY WriterReturns
CHECK_DEADLOCK FALSE
