SPECIFICATION Spec
CONSTANTS
  Chunk = 2
  CMA_INF = 1000
  Null = Null
  RefMax = 65535
  Plans <- MCPlans
  Words <- MCWords
  Literals <- MCLiterals
  Filler <- MCFiller
  Ranges <- MCRanges
  Marks <- MCMarks
  Counts = {2}
  Rooms = {1}
  MaxRefs = 2
  Specs <- MCSpecs
  Reps <- MCReps
  Inputs <- MCInputs
  Texts <- MCTexts
  Simds = {TRUE, FALSE}
  Moves = {TRUE, FALSE}
  Careful = TRUE
  Statics <- MCStatics
  Root = 107
  MaxStrs = 4
  MaxLen = 8
INVARIANTS TypeOK StringsRead OpsAlive MatchesPeg StreamSound SplitJoins
CHECK_DEADLOCK FALSE
