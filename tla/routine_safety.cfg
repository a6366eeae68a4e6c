SPECIFICATION Spec
CONSTANTS
    r1 = r1  r2 = r2
    Null = Null
    Requests <- MCRequests
    FlushFaults = {"lost", "torn"}
    OpenReconcile = TRUE
SYMMETRY MCSymmetry
INVARIANTS
    MemoryIsDurable
    SubmittedOnce
    GivenUpNeverSubmitted
    RecordedOutcomeIsTrue
    OneInFlight
PROPERTY
    KeepsPromise
