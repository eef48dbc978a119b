SPECIFICATION Spec
CONSTANTS
    Keys = {1, 2, 3, 4, 5, 6, 7, 8, 9, 10, 11, 12, 13, 14, 15, 16, 17, 18}
    Touched = {9, 11, 14, 17}
    InLoop = {14}
    LoopHints = {1}
    Vals <- MCVals
    NULL = NULL
    MaxItems = 4
    HintBytes = 2
    Prefilled <- MCPrefilled
    MaxMallocs = 3
INVARIANTS TypeOK LoopInOrder
PROPERTIES TreeIsMap
VIEW Visible
