SPECIFICATION Spec
CONSTANTS
    NULL = NULL
    Quads = {"EAX", "EDX"}
    Singles = {"ESI"}
    StackOffsets <- MCStackOffsets
    AbsoluteOffsets <- MCAbsoluteOffsets
    Code <- MCCode
    MaxInstructions = 5
PROPERTIES FrameAddressFound
CHECK_DEADLOCK FALSE
