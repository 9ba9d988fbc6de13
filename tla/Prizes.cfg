SPECIFICATION Spec
CONSTANTS
    junior = junior
    senior = senior
    Event = {e1, e2}
    Level = {junior, senior}
    Input <- SmallInput
    PrizeId = {i1, i2, i3}
    Request = {r1, r2}
    None = None
SYMMETRY Symmetry
INVARIANTS
    TypeOK
    TidyUnlessCareless
