SPECIFICATION Spec
CONSTANTS
    Code <- MCCode
    MaxInstructions = 8
    Moves = {}
INVARIANT BeliefIsDistance
CHECK_DEADLOCK FALSE
