\* Two matches of three players, two calls in the coordinator at a time, three
\* answers; nobody answers again after accepting, nobody dismisses.
CONSTANTS
    p1 = p1
    p2 = p2
    p3 = p3
    Players <- MCPlayers3
    Permits = 2
    MaxMatch = 2
    MaxAnswers = 3
    AnswerOnce = TRUE
    MayDeny = TRUE
    MayDismiss = FALSE
SPECIFICATION FairSpec
INVARIANTS
    TypeOK
PROPERTIES
    ReturnsUnlessStuck
    FullMatchComesOff
CHECK_DEADLOCK FALSE
