SPECIFICATION Spec
CONSTANTS
    NULL = NULL
    Quads = {"EAX"}
    Singles = {}
    Oldest = 7
    FirstNew = 10
    Branches = 3
INVARIANTS MergeTypeOK HalvesAgree MergeIsNewer NeverSingle EveryBranchCounts AgreementKept
CHECK_DEADLOCK FALSE
