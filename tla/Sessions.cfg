SPECIFICATION Spec
CONSTANTS
    User = {u1}
    Device = {d1, d2}
    Request = {r1, r2}
    Token = {t1, t2, t3}
    None = None
    Faults = TRUE
SYMMETRY Symmetry
INVARIANTS
    TypeOK
    OneLiveTokenPerLogin
    ActiveDeviceLoggedIn
    CookieFromOwnLogin
PROPERTIES
    ImplementsLifecycle
