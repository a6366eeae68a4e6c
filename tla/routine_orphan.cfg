SPECIFICATION Spec
CONSTANTS
    r1 = r1  r2 = r2
    Null = Null
    Requests <- MCRequests
    FlushFaults = {}
    OpenReconcile = FALSE
INVARIANT StoredRequestsRestore
