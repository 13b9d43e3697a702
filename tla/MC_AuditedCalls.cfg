CONSTANTS
    p1 = p1
    p2 = p2
    r1 = r1
    r2 = r2
    NoProc = NoProc
    Procs <- MCProcs
    Requests <- MCRequests
    Beginnings <- MCCleanPrefixes
    MaxRecords = 3
    PartialWrites = TRUE
SPECIFICATION Spec
SYMMETRY MCSymmetry
INVARIANTS
    VerifiesUnlessTorn
    DamageIsLast
    RecordsAreTrue
PROPERTIES
    TrailIsKept
