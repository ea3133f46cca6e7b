SPECIFICATION MCSpec
CONSTANTS
    NULL = NULL
    Quads = {"EAX"}
    Singles = {"ESI"}
    MaxLength = 11
    Outside = 0
    Misread = {}
    IntMax = 23
    StackOffsets <- MCStackOffsets
    AbsoluteOffsets = {}
    Bodies <- MCBodies
INVARIANTS StandsForItsPaths FlagsOfSomePath
CHECK_DEADLOCK FALSE
