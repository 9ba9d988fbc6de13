SPECIFICATION Spec
CONSTANTS
    u1 = u1
    u2 = u2
    junior = junior
    senior = senior
    i1 = i1
    i2 = i2
    i3 = i3
    r1 = r1
    r2 = r2
    Level = {junior, senior}
    RoundId = {i1, i2, i3}
    Request = {r1, r2}
    Student = {u1, u2}
    Profile <- AdminProfile
    Input <- AdminInput
    Batch <- AdminBatch
    Duration = 1
    MaxTime = 1
    MaxRank = 1
    None = None
SYMMETRY Symmetry
INVARIANTS TypeOK SequencesSound DecisionsAfterEnd RanksSound EntryInOrder ReadyIffMayEnter
