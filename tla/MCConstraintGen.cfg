SPECIFICATION Spec
CONSTANTS
    NULL = NULL
    Quads = {"EAX", "EDX"}
    Singles = {"ESI"}
    StackOffsets <- MCStackOffsets
    AbsoluteOffsets <- MCAbsoluteOffsets
    Code <- MCCode
    MaxInstructions = 5
INVARIANTS GenTypeOK HalvesAgree
PROPERTIES NothingFromNowhere FreshResults NumberedIsHeld
CHECK_DEADLOCK FALSE
