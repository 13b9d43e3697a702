CONSTANTS
    p1 = p1
    p2 = p2
    n1 = n1
    w1 = w1
    w2 = w2
    a1 = a1
    NoProc = NoProc
    Unbound = Unbound
    NoToken = NoToken
    Procs <- MCProcs
    Nonces <- MCNonces
    Workspaces <- MCWorkspaces
    WorkspaceOf <- MCWorkspaceOf
    Risks <- MCRisks
    Actions <- MCActions
    TTLs <- MCOneSecond
    MaxTime = 2
    MaxUses = 2
    PartialWrites = TRUE
SPECIFICATION FairSpec
INVARIANTS
    SingleUseUnlessCut
    GrantIsDurable
    SpentIsAccounted
PROPERTIES
    KeepsPromise
    CallReturns
