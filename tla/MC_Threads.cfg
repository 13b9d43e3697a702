CONSTANTS
    u1 = u1
    u2 = u2
    s1 = s1
    s2 = s2
    ui = ui
    k1 = k1
    k2 = k2
    NoHandle = NoHandle
    Threads <- MCThreads
    Handles <- MCHandles
    HandleOf <- MCHandleOf
    MaxBytes = 2
    MaxLength = 7
    MaxLines = 2
    Uses <- MCUses
    Root = Root
    Kids <- MCKids
    CanEscape = TRUE
    MaxOutput = 3
    ChunkSize = 2
    PipeSize = 2
    MaxWritten = 5
SPECIFICATION MCSpec
INVARIANTS
    MutualExclusion
    NoLeakedLock
    AnswersFollowLines
    GroupIsGone
    OutputIsExact
PROPERTIES
    LockIsFreed
    LoopEnds
    CallEnds
CHECK_DEADLOCK FALSE
