CONSTANTS
    MaxBlocks = 4
    MaxFanOut = 2
    IntMax = 4
SPECIFICATION Spec
INVARIANT TypeOK
INVARIANT DepthIsDistance
INVARIANT NearerFirst
INVARIANT OnlyUnreachedHalts
INVARIANT UnreachedNeverAnalysed
CHECK_DEADLOCK FALSE
