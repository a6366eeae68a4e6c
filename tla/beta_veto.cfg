SPECIFICATION Spec
CONSTANTS
    a = a  b = b  c = c
    Addresses <- MCAddresses
    EntryPoint = EntryPoint
    Null = Null
    RecoveryDelay = 1
    RecoveryExpiry = 2
    MaxTime = 2
    MaxBundle = 1
SYMMETRY MCSymmetry
INVARIANT OtherPartyMayCancel
