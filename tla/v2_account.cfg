SPECIFICATION FairSpec
CONSTANTS
    a1 = a1  a2 = a2  k1 = k1  k2 = k2
    p0 = p0  h1 = h1  i2 = i2  n1 = n1
    act1 = act1
    Null = Null
    Addresses <- MCAddresses
    KeyBindings <- MCOneKeyBinding
    Commitments <- MCCommitments
    DescriptorRole <- MCDescriptorRole
    Coalitions <- MCCoalitions
    InitialValidator <- MCInitialValidator
    InitialConfig <- MCInitialConfig
    ActionIds = {act1}
    RecoveryDelay = 1
    RecoveryExpiry = 2
    MaxEpoch = 2
    MaxTotalFee = 1
    MaxBalance = 1
    MaxNonce = 2
    MaxBundle = 2
    MaxTime = 3
CHECK_DEADLOCK FALSE
INVARIANTS
    ConfigurationValid
    PendingMatchesEpochs
    FreezeLeaksOnlyInRequestBundle
PROPERTIES
    TransitionsUseCurrentAuthority
    NoExecutionUnderReplacedValidator
    LockFreezesAuthority
    ImplementsAuthority
    RequestsEnd
