CONSTANTS
    p1 = p1
    p2 = p2
    f1 = f1
    c1 = c1
    c2 = c2
    Host = Host
    Procs <- MCProcs
    Names <- MCNames
    Contents <- MCContents
    Proposed <- MCProposed
    DirSyncs = TRUE
    MaxUnsynced = 2
    MaxPreviews = 1
SPECIFICATION Spec
SYMMETRY MCSymmetry
INVARIANTS
    AnswersAreDurable
PROPERTIES
    ReplacesWhatWasShownUnlessRaced
    PreviewsAreOneTime
    WritesAreAtomic
