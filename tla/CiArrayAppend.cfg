SPECIFICATION Spec
CONSTANTS
  Elem = {e1}
  NULL = NULL
  Junk = Junk
  NoArr = NoArr
  DefaultCap = 2
  SmallCap = 2
  MaxLen = 3
  AppendMax = 2
PROPERTY AppendConcatenates
