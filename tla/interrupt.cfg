SPECIFICATION FairSpec
CONSTANTS
    h1 = h1
    h2 = h2
    f1 = f1
    f2 = f2
    Absent = Absent
    Partial = Partial
    Hash = {h1}
    File = {f1}
    Urls <- OnlyHttp
    KeyRefresh = TRUE
    OutputStats = FALSE
    SourcePath <- Absolute
    MaxChanges = 0
CHECK_DEADLOCK FALSE
PROPERTY InterruptExits
