SPECIFICATION JourneySpec
CONSTANTS
    u1 = u1
    junior = junior
    senior = senior
    t1 = t1
    t2 = t2
    i1 = i1
    i2 = i2
    User = {u1}
    Admin = {a1}
    Event = {e1}
    File = {}
    Held = e1
    Level = {junior, senior}
    Details = {t1, t2}
    Doc = {d1}
    Trx = {x1}
    RegId = {g1}
    RoundId = {i1, i2}
    Input <- MCInput
    Batch <- MCBatch
    LevelOf <- MCLevelOf
    Edit = {s1, s2}
    Request = {k1}
    Gate = {r1}
    RoundCall = {"insert", "loadEnded", "enter"}
    Duration = 1
    MaxTime = 1
    MaxRank = 1
    None = None
SYMMETRY Symmetry
VIEW View
ACTION_CONSTRAINT Bounded
INVARIANTS EntrantVetted
PROPERTIES ImplementsRounds
