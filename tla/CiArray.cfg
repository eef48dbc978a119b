SPECIFICATION Spec
CONSTANTS
  Elem = {e1}
  NULL = NULL
  Junk = Junk
  NoArr = NoArr
  DefaultCap = 2
  SmallCap = 2
  MaxLen = 3
  AppendMax = 1
INVARIANTS TypeOK RefBalance
PROPERTY RefinesSequence
