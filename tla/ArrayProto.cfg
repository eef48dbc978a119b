SPECIFICATION Spec
CONSTANTS
  e1 = e1
  Elem = {e1}
  NULL = NULL
  Junk = Junk
  Self = Self
  DefaultCap = 2
  SmallCap = 2
  MaxLen = 4
  Operands <- MCOperands
  MaxArgs = 2
  MaxLost = 1
  ShiftedCalls = FALSE
  SelfMerge = FALSE
INVARIANTS RefBalance NoOverrun MergeConcatenates SpliceReplaces
CHECK_DEADLOCK FALSE
