SPECIFICATION Spec
CONSTANTS
  Cap = 3
  MaxStripes = 2
  MaxCount = 4
  MaxDepth = 2
INVARIANTS TypeOK OneOwner LiveCount NoSlotLost ChainAndStack
PROPERTIES CleanupKeepsLive LinkedServes CallsReturn
