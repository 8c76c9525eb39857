SPECIFICATION Spec
CONSTANTS
    s1 = s1
    s2 = s2
    Users = {u1}
    Seats = {s1, s2}
    Keys = {k1, k2}
    Requests = {r1, r2}
    HoldIds = {h1, h2}
    NoUser = NoUser
    NoKey = NoKey
    NoHold = NoHold
    SeatLists <- ClaimSeatLists
    MaxPerUser = 4
    ReleaseLimit = 100
    CountMayFail = FALSE
INVARIANT OneActiveHoldPerUser
