SPECIFICATION FairSpec
CONSTANTS
    h1 = h1
    h2 = h2
    f1 = f1
    f2 = f2
    Absent = Absent
    Partial = Partial
    Hash = {h1}
    File = {f1, f2}
    Urls <- OnlyUdp
    KeyRefresh = FALSE
    OutputStats = FALSE
    SourcePath <- Absolute
    MaxChanges = 3
PROPERTY RemovedIsForgotten
