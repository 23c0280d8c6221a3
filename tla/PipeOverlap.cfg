SPECIFICATION PipeSpec
CONSTANTS
  Procs = {p1, p2}
  Ids = {i1, i2}
  Stages <- AllStages
  MaxFifo = 2
  Overlap = TRUE
  MasterEnds = TRUE
  None = None
SYMMETRY Sym
INVARIANT PipeTypeOK
 
CHECK_DEADLOCK FALSE
