\* Two mobs, three animations, two handlers; a shutdown at any moment.
CONSTANTS
    k1 = k1
    k2 = k2
    c1 = c1
    c2 = c2
    Keys <- MCKeys
    Callers <- MCCallers
    MaxReg = 3
    MaxTask = 3
    MonitorLife = 2
    ReuseKeys = TRUE
    MayThrow = FALSE
    MayDispose = TRUE
SPECIFICATION AnimFairSpec
INVARIANTS
    NoStuckMob
    OneAnimationPerMob
    MonitoredOnce
PROPERTIES
    ImplementsAnimationMode
    ImplementsAnimationFairness
CHECK_DEADLOCK FALSE
