CONSTANTS
    i1 = i1
    i2 = i2
    v1 = v1
    v2 = v2
    d1 = d1
    d2 = d2
    s1 = s1
    s2 = s2
    c1 = c1
    c2 = c2
    w1 = w1
    w2 = w2
    t1 = t1
    t2 = t2
    t3 = t3
    Installers <- MCInstallers
    Versions <- MCVersions
    Digests <- MCDigests
    HistoryLimit = 2
    Kinds = {"ui", "doctor"}
    MaxSecond = 2
    Servers <- MCServers
    Commands <- MCCommands
    Workspaces <- MCWorkspaces
    Home = w1
    HandWritten <- MCHandWritten
    MaxLease = 1
    MaxNow = 3
    MaxPolicies = 2
    VersionFiles = {"pyproject", "init"}
    Pyproject = "pyproject"
    Texts = {"x", "y"}
    MaxCommits = 2
    Callers <- MCCallers
    Rate = 2
    Window = 2
    Slots = 1
    MaxTime = 4
SPECIFICATION MCSpec
INVARIANTS
    LocalTypeOK
    LauncherWorks
    OneWheelPerVersion
    UpgradeCanBeUndone
    InstallIsUndone
    TrustWasGiven
    AuthorityWasMeant
    AuthorityEnds
    OneKey
    ReleaseWasReviewed
    LimitsAreKept
    LaunchIsUndone
