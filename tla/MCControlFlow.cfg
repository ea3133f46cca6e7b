CONSTANTS
    MaxLength = 4
    Outside = 1
    Misread = {"ijmp", "stop"}
SPECIFICATION CfgSpec
INVARIANT CfgTypeOK
INVARIANT MatrixIsControlFlow
INVARIANT BlocksAreStraight
CHECK_DEADLOCK FALSE
