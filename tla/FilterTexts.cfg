SPECIFICATION FilterSpec
CONSTANTS
  MaxLength = 6
  TagSize = 3
INVARIANT TextKept
INVARIANT IllegalTold
INVARIANT LinesNumbered
CHECK_DEADLOCK FALSE
