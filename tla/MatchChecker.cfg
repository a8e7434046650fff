\* Three players, two overlapping matches, five answers or dismissals, two calls
\* in the coordinator at a time.
CONSTANTS
    p1 = p1
    p2 = p2
    p3 = p3
    Players <- MCPlayers3
    Permits = 2
    MaxMatch = 2
    MaxAnswers = 5
    AnswerOnce = FALSE
    MayDeny = TRUE
    MayDismiss = TRUE
SPECIFICATION Spec
SYMMETRY Symmetry3
INVARIANTS
    AcceptedByAll
    RefusalIsFinal
    OneResult
CHECK_DEADLOCK FALSE
