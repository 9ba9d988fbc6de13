SPECIFICATION Spec
CONSTANTS
    User = {u1}
    Device = {d1}
    Request = {r1, r2}
    Token = {t1, t2, t3}
    None = None
    Faults = FALSE
INVARIANT
    NoTheftResponseToBenignRace
