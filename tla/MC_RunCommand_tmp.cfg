CONSTANTS
    s1 = s1
    s2 = s2
    f1 = f1
    f2 = f2
    c1 = c1
    c2 = c2
    Absent = Absent
    Torn = Torn
    NoFile = NoFile
    Servers <- MCServers
    Files <- MCFiles
    Contents <- MCContents
    Commands <- MCCommands
    Thresholds <- MCThresholds
SPECIFICATION Spec
SYMMETRY MCSymmetry
INVARIANTS
    ReadOnlyWithoutLease
