SPECIFICATION FairSpec
CONSTANTS
    i1 = i1 i2 = i2 c1 = c1 c2 = c2
    Intents = {i1, i2}
    Credentials = {c1, c2}
    None = None
    Slots = 2
    MaxCeremonies = 3
    MaxFaults = 2
INVARIANTS
    NoCredentialForgotten
    ProfileIsFinal
    MemoryIsDurable
    CancelledIsNeverFinalized
PROPERTIES
    CreationIsSettled
    FinalizationCompletes
