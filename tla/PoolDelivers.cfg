SPECIFICATION PoolSpec
CONSTANTS
  MaxFd = 12
  MaxCount = 2
  MaxChunks = 2
  Texts = {a, b}
  Lines <- MixedLines
INVARIANT PoolOpen
INVARIANT NoHang
INVARIANT NoFdLeak
PROPERTY Delivers
CHECK_DEADLOCK FALSE
