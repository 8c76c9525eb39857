SPECIFICATION Spec
CONSTANTS
    Users = {u1}
    Ips = {i1}
    NoUser = NoUser
    NoIp = NoIp
    NoToken = NoToken
    Requests = {r1, r2}
    Tokens = {t1}
    AdmissionTTL = 2
    UserTTL = 4
    Window = 2
    IpJoin = 2
    UserJoin = 1
    IpCheckout = 1
    UserCheckout = 2
    MaxPause = 1
    MaxLosses = 1
SYMMETRY Symmetry
INVARIANTS
    TypeOK
    TokenUsedOnce
    UsesSpaced
    WindowLimit
