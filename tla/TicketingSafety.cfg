SPECIFICATION Spec
CONSTANTS
    u1 = u1
    u2 = u2
    s1 = s1
    s2 = s2
    Users = {u1, u2}
    Seats = {s1, s2}
    Keys = {k1}
    Requests = {r1, r2, r3}
    HoldIds = {h1, h2}
    NoUser = NoUser
    NoKey = NoKey
    NoHold = NoHold
    SeatLists <- MCSeatLists
    MaxPerUser = 2
    ReleaseLimit = 1
    CountMayFail = TRUE
SYMMETRY Symmetry
INVARIANTS
    TypeOK
    SeatLedger
    CheckoutSellsOwnSeats
PROPERTY SeatsChangeHandsAtOnce
