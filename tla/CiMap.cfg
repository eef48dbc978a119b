SPECIFICATION Spec
CONSTANTS
  a = a
  b = b
  c = c
  d = d
  e = e
  f = f
  g = g
  x = x
  Keys <- MCKeys
  Vals <- MCVals
  NULL = NULL
  Same <- MCSame
  Setups <- MCSetups
INVARIANTS TypeOK NoDuplicateKeys EveryEntryFound
PROPERTY RefinesMap
VIEW Visible
