SPECIFICATION Spec
CONSTANTS
    Users = {u1, u2, u3}
    NoUser = NoUser
    Requests = {r1, r2}
    WaitingRoomCap = 3
    AdmitPerMinute = 2
    MaxAdmit = 3
    MaxLosses = 0
INVARIANT ZeroInversions
