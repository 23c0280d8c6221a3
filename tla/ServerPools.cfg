SPECIFICATION ServerSpec
CONSTANTS
  MaxFd = 10
  MaxCount = 2
  MaxChunks = 2
  Texts = {a, b}
  Clients = {c1, c2}
  Lines <- ShortLines
SYMMETRY Sym
INVARIANT PoolsApart
PROPERTY ServedAlone
CHECK_DEADLOCK FALSE
