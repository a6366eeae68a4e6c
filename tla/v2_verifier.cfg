SPECIFICATION Spec
CONSTANTS
    a1 = a1  a2 = a2  k1 = k1
    p0 = p0  h1 = h1  i2 = i2  q0 = q0
    intent1 = intent1  intent2 = intent2
    Null = Null
    Addresses <- MCAddresses
    KeyBindings <- MCKeyBindings
    Commitments <- MCCommitments
    DescriptorRole <- MCDescriptorRole
    DescriptorEncoding <- MCDescriptorEncoding
    Coalitions <- MCCoalitions
    Intents = {intent1, intent2}
    Requests <- MCRequests
    Envelopes <- MCEnvelopes
    RecoveryDelay = 1
    RecoveryExpiry = 2
    MaxEpoch = 2
CHECK_DEADLOCK FALSE
INVARIANTS
    AcceptedIsAuthorized
    AuthorizedIsAccepted
