CONSTANTS
    MaxLength = 3
    Outside = 1
    Misread = {"ijmp", "jcxz", "stop"}
    IntMax = 7
SPECIFICATION Spec
INVARIANTS  DepthForLiveBlocks
PROPERTY WellFormedAnalysed
CHECK_DEADLOCK FALSE
