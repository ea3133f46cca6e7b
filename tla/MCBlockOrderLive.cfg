CONSTANTS
    MaxBlocks = 3
    MaxFanOut = 3
    IntMax = 3
SPECIFICATION FairSpec
PROPERTY ImplementsOrder
PROPERTY LoopEnds
CHECK_DEADLOCK FALSE
