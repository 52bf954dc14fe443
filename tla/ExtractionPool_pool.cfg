SPECIFICATION FairSpec
CONSTANTS
    N = 3
    NumCPU = 1
    Lookahead = 1
    WarmupTicks = 1
    CooldownLen = 1
    Cancels = TRUE
INVARIANTS SleeperIsWoken SlotsCounted ResultsReadAfterwards
PROPERTIES StageSpec StageReturns NoGoroutineLeft
CHECK_DEADLOCK FALSE
