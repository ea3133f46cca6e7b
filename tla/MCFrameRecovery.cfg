SPECIFICATION MCSpec
CONSTANTS
    Code <- MCCode
    MaxInstructions = 6
    Moves <- MCMoves
    Indices <- MCIndices
INVARIANTS RecoveryTypeOK DriftIsPushes FoundWhereAddressed EachPlaceInOneVariable KeysInOrder
CHECK_DEADLOCK FALSE
