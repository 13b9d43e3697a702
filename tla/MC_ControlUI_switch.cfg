CONSTANTS
    u1 = u1
    u2 = u2
    s1 = s1
    ui = ui
    wa = wa
    wb = wb
    ha = ha
    hb = hb
    NoHandle = NoHandle
    None = None
    Risks <- MCRisks
    Handles <- MCHandles
    Servers <- MCServers
    WorkspaceOf <- MCServerOf
    MaxAge = 0
    Threads <- MCThreads
    HandleOf <- MCHandleOf
    UIThreads <- MCTwoTabs
    TypedHashes <- MCNoHashes
    MaxTime = 0
    Hashes <- MCHashes
    Workspaces <- MCBothWorkspaces
    Trusted <- MCBothWorkspaces
SPECIFICATION Spec
PROPERTIES
    IssuedWasRequested
