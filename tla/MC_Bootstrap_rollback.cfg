CONSTANTS
    i1 = i1
    i2 = i2
    v1 = v1
    v2 = v2
    d1 = d1
    d2 = d2
    Installers <- MCOne
    Versions <- MCVersions
    Digests <- MCDigests
    HistoryLimit = 2
SPECIFICATION Spec
PROPERTIES
    RollbackLeavesCurrent
