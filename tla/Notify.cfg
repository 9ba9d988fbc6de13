SPECIFICATION Spec
CONSTANTS
    User = {u1}
    Phone = {p1, p2}
    Code = {c1, c2}
    Request = {r1, r2}
    Alert = {a1}
    None = None
SYMMETRY Symmetry
INVARIANTS TypeOK VerifiedNumberProved AlertsToProvedNumbers CodeUsedUp
