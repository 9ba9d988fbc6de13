SPECIFICATION FairSpec
CONSTANTS
    i1 = i1
    i2 = i2
    i3 = i3
    ip1 = ip1
    r1 = r1
    r2 = r2
    Instance = {i1, i2, i3}
    LastFile = 2
    Carried <- MCCarried
    MaxFaults = 2
    IP = {ip1}
    Request = {r1, r2}
    Burst = 2
    Refill = 1
    StaleAfter = 2
    MaxHold = 1
    None = None
INVARIANTS AppliedOnceInOrder ServesMigrated
PROPERTIES PruningInvisible StartedServes
