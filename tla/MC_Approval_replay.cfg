CONSTANTS
    p1 = p1
    p2 = p2
    n1 = n1
    w1 = w1
    w2 = w2
    a1 = a1
    NoProc = NoProc
    Unbound = Unbound
    NoToken = NoToken
    Procs <- MCProcs
    Nonces <- MCNonces
    Workspaces <- MCOneWorkspace
    WorkspaceOf <- MCWorkspaceOf
    Risks <- MCOneRisk
    Actions <- MCActions
    TTLs <- MCOneSecond
    MaxTime = 0
    MaxUses = 2
    PartialWrites = TRUE
SPECIFICATION Spec
INVARIANTS
    SingleUse
