\* Two threads that each invite twice and answer or remove twice.
CONSTANTS
    c1 = c1
    c2 = c2
    Callers <- MCCallers
    MaxAdds = 2
    MaxRemoves = 2
    Timeout = 2
SPECIFICATION FairSpec
INVARIANTS
    TypeOK
PROPERTIES
    AgesDrain
CHECK_DEADLOCK FALSE
