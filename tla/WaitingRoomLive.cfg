SPECIFICATION FairSpec
CONSTANTS
    Users = {u1, u2}
    NoUser = NoUser
    Requests = {r1}
    WaitingRoomCap = 2
    AdmitPerMinute = 6
    MaxAdmit = 2
    MaxLosses = 1
PROPERTY EveryEntryIsReached
