SPECIFICATION Spec
CONSTANTS
    i1 = i1  i2 = i2  n1 = n1  n2 = n2
    Inputs = {i1, i2}
    Null = Null
    Nullifier <- MCNullifier
    Expiry <- MCExpiry
    UnlockInputs = {i1, i2}
    AdapterCallers = {"relay", "anyone"}
    MaxMessages = 1
    MaxDepth = 2
    MaxTime = 2
INVARIANTS
    OneEffectPerNullifier
    EffectsRestOnVerifiedFacts
    MirroredWasAnchored
