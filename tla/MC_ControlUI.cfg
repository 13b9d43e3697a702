CONSTANTS
    u1 = u1
    u2 = u2
    s1 = s1
    ui = ui
    wa = wa
    wb = wb
    ha = ha
    hb = hb
    NoHandle = NoHandle
    None = None
    Risks <- MCRisks
    Handles <- MCHandles
    Servers <- MCServers
    WorkspaceOf <- MCServerOf
    MaxAge = 0
    Threads <- MCPair
    HandleOf <- MCPairHandleOf
    UIThreads <- MCOneTab
    Hashes <- MCTwoHashes
    TypedHashes <- MCTypedHash
    Workspaces <- MCBothWorkspaces
    Trusted <- MCBothWorkspaces
    MaxTime = 1
SPECIFICATION Spec
PROPERTIES
    IssuedWasRequested
    QueueIsAtomic
    RequestsLeaveApproved
