SPECIFICATION FairSpec
CONSTANTS
    p1 = p1 p2 = p2 c1 = c1 c2 = c2 r1 = r1 r2 = r2
    Procs = {p1}
    Ceremonies = {c1, c2}
    Roles = {r1, r2}
    None = None
    MaxStaleLocks = 2
    MaxCorrupt = 1
    MaxFaults = 2
PROPERTY StagingEnds
