\* Two players: the leader dismisses while the last member accepts.
CONSTANTS
    p1 = p1
    p2 = p2
    p3 = p3
    Players <- MCPlayers2
    Permits = 7
    MaxMatch = 1
    MaxAnswers = 2
    AnswerOnce = FALSE
    MayDeny = FALSE
    MayDismiss = TRUE
SPECIFICATION FairSpec
PROPERTIES
    EveryCallReturns
CHECK_DEADLOCK FALSE
