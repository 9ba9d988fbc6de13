SPECIFICATION Spec
CONSTANTS
    u1 = u1
    d1 = d1
    d2 = d2
    k1 = k1
    k2 = k2
    r1 = r1
    r2 = r2
    User = {u1}
    Device = {d1, d2}
    Login = {k1, k2}
    Owner <- MCOwner
    Home <- MCHome
    Request = {r1, r2}
    Call = {r2}
    TTL = 3
    None = None
INVARIANTS TypeOK ServedInGoodStanding
PROPERTIES ClosedSessionFades
