SPECIFICATION Spec
CONSTANTS
    h1 = h1
    h2 = h2
    f1 = f1
    f2 = f2
    Absent = Absent
    Partial = Partial
    Hash = {h1, h2}
    File = {f1, f2}
    Urls <- OnlyHttp
    KeyRefresh = FALSE
    OutputStats = TRUE
    SourcePath <- Absolute
    MaxChanges = 1
SYMMETRY Symmetry
INVARIANTS RetainLocksAll UniqueHashes OneAnnouncerEach GoodbyesSoFar QuietListIsPresent RemovedIsFound
PROPERTIES WalkSeesOneList RemovedAfterStopped ImplementsLifecycle
