SPECIFICATION FairServerPipeSpec
CONSTANTS
  Ids = {1, 2}
  Numbers = {1, 2, 101}
  Stages <- PlainStages
  MaxFifo = 5
  None = None
INVARIANT Settled
PROPERTY KeepsOutputs
PROPERTY ServerReturns
CHECK_DEADLOCK FALSE
