SPECIFICATION LiveSpec
CONSTANTS
    s1 = s1
    s2 = s2
    Users = {u1, u2}
    Seats = {s1, s2}
    Keys = {k1}
    Requests = {r1, r2}
    HoldIds = {h1, h2}
    Worker = Worker
    NoUser = NoUser
    NoKey = NoKey
    NoHold = NoHold
    SeatLists <- MCSeatLists
    MaxPerUser = 2
    ReleaseLimit = 1
    CountMayFail = FALSE
PROPERTIES
    ExpiredHoldsAreReleased
    RequestsEnd
