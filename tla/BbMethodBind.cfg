SPECIFICATION Spec
CONSTANTS
  RefMax = 65535
  FrameCap = 10
  Bit17 = {TRUE}
  RegLimit = 254
  Sources <- MCRebound
INVARIANT FunctionsLive
