\* A player or the server cancels at any moment.
CONSTANTS
    left = left
    right = right
    sword = sword
    potion = potion
    coins = coins
    Left = left
    Right = right
    Warper = warper
    Items = {sword, potion}
    Mesos = {coins}
    Owner <- MCOwner
    Kind <- MCKind
    AfterTear = FALSE
SPECIFICATION FairSpec
INVARIANTS
    TypeOK
    SettledOnce
    ConservedWhileBothStay
    OneOutcome
PROPERTIES
    ConfirmedIsSettled
CHECK_DEADLOCK FALSE
