SPECIFICATION MCSpec
CONSTANTS
    MaxLength = 5
    Outside = 0
    Misread = {}
    IntMax = 11
    Bodies <- MCBodies
INVARIANTS EspOfSomePath LookupsFind
CHECK_DEADLOCK FALSE
