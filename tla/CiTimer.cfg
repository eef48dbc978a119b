SPECIFICATION Spec
CONSTANTS
  Timers <- MCTimers
  Plans <- MCPlans
  Batch = 1
  FirstCap = 2
  Realloc = {TRUE}
  Careful = TRUE
  MaxNow = 6
INVARIANTS TypeOK InOnePlace
PROPERTIES FiresOnlyDue NotEarly AllFire
CHECK_DEADLOCK FALSE
