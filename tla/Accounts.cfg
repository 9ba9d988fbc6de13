SPECIFICATION Spec
CONSTANTS
    User = {u1}
    Code = {c1, c2}
    Details = {t1, t2}
    Doc = {d1, d2}
    Request = {r1, r2}
    Submission = {s1, s2}
    None = None
    MaxInFlight = 2
SYMMETRY Symmetry
ACTION_CONSTRAINT Bounded
INVARIANTS
    TypeOK
    VerifiedEmailProved
    AdmittedWithProof
    DecisionOnDocument
    OnboardedHasDocument
    VerifiedAsReviewed
