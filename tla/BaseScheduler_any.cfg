\* Keys registered again, actions that throw, a shutdown at any moment, two handlers.
CONSTANTS
    k1 = k1
    k2 = k2
    c1 = c1
    c2 = c2
    Keys <- MCKeys
    Callers <- MCCallers
    MaxReg = 2
    MaxTask = 2
    MonitorLife = 2
    ReuseKeys = TRUE
    MayThrow = TRUE
    MayDispose = TRUE
SPECIFICATION Spec
SYMMETRY Symmetry
INVARIANTS
    EntriesHaveMonitor
    InterruptedOnce
    SoleRegistrationServed
