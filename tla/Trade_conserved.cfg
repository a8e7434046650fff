\* One player leaves while the other moves goods.
CONSTANTS
    left = left
    right = right
    sword = sword
    potion = potion
    coins = coins
    Left = left
    Right = right
    Warper = warper
    Items = {sword, potion}
    Mesos = {coins}
    Owner <- MCOwner
    Kind <- MCKind
    AfterTear = TRUE
SPECIFICATION Spec
INVARIANTS
    Conserved
CHECK_DEADLOCK FALSE
