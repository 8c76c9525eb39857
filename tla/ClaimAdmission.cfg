SPECIFICATION Spec
CONSTANTS
    Users = {u1}
    Ips = {i1}
    NoUser = NoUser
    NoIp = NoIp
    NoToken = NoToken
    Requests = {r1}
    Tokens = {t1}
    AdmissionTTL = 2
    UserTTL = 4
    Window = 2
    IpJoin = 1
    UserJoin = 1
    IpCheckout = 1
    UserCheckout = 1
    MaxPause = 1
    MaxLosses = 0
INVARIANT CheckoutNeedsAdmission
