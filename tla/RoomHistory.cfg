SPECIFICATION Spec

CONSTANTS
    Clients = {o, c}
    Owner = o
    o = o
    c = c
    x = x
    k1 = k1
    k12 = k12
    Texts = {x}
    Cards = {k1, k12}
    Time <- MCTime
    Limit = 5
    Alike <- MCAlike
    Bounds <- MCBounds

CHECK_DEADLOCK FALSE

INVARIANT NothingMissed
INVARIANT DeletionReachesAll
INVARIANT ReactionsAgree
INVARIANT PageIsCurrent
