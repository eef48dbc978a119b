SPECIFICATION Spec
CONSTANTS
  a = a
  b = b
  c = c
  d = d
  e = e
  f = f
  g = g
  x = x
  Keys <- MCKeys
  Vals <- MCVals
  NULL = NULL
  Same <- MCSame
  Setups <- MCLost
INVARIANT EveryEntryFound
