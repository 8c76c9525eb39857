SPECIFICATION Spec
CONSTANTS
    Users = {u1, u2, u3}
    NoUser = NoUser
    Requests = {r1, r2}
    WaitingRoomCap = 2
    AdmitPerMinute = 24
    MaxAdmit = 2
    MaxLosses = 1
SYMMETRY Symmetry
INVARIANTS
    TypeOK
    OnePositionPerUser
    CapOvershootBounded
    LatecomersStayBehind
    AdmittedInOrder
    TokensWithinDrip
PROPERTIES
    AdmissionNotRevoked
    ServedAsATicketLine
