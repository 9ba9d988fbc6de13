SPECIFICATION Spec
CONSTANTS
    User = {u1, u2}
    Admin = {a1, a2}
    Event = {e1}
    Trx = {x1, x2}
    RegId = {g1, g2}
    File = {f1, f2}
    Request = {r1, r2, r3}
    None = None
SYMMETRY Symmetry
INVARIANTS
    TypeOK
    OneRegistrationEach
    ReviewerIffDecided
    CardSound
    NotifiedHasCard
PROPERTIES
    ImplementsEnrolment
