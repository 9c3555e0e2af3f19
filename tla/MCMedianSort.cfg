SPECIFICATION SortSpec
CONSTANT
  Inputs <- MCInputs
  MAX_PRICE = 4
  I128Max = 8
  Trap = Trap
CHECK_DEADLOCK FALSE
INVARIANTS
  SortedPrefix
  ReturnsMedian
