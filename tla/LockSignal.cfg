SPECIFICATION LockSpec
CONSTANT Procs = {p1, p2}
SYMMETRY Sym
INVARIANT HandlerNeverUnderLock
CHECK_DEADLOCK FALSE
