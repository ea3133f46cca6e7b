SPECIFICATION Spec
CONSTANTS
    NULL = NULL
    m1 = m1
    m2 = m2
    m3 = m3
    t1 = t1
    t2 = t2
    Stranger = Stranger
    MemoryVars <- MCMemory
    TempVars <- MCTemp
    Constraints <- MCConstraints
    MaxConstraints = 3
INVARIANTS SolverTypeOK OneNamePerClass NamedByMemory PairsLeadToName BoundIsTightest
CHECK_DEADLOCK FALSE
