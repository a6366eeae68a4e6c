SPECIFICATION FairSpec
CONSTANTS
    c1 = c1  c2 = c2
    Null = Null
    Ceremonies = {c1, c2}
    MaxFaults = 3
CHECK_DEADLOCK FALSE
INVARIANTS
    OneCeremonyIsSigned
    DoneIsKept
PROPERTIES
    FirstCeremonyResumes
    ArtifactIsReused
    SignedWhileApproved
