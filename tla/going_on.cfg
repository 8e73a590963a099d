SPECIFICATION FairSpec
CONSTANTS
    h1 = h1
    h2 = h2
    f1 = f1
    f2 = f2
    Absent = Absent
    Partial = Partial
    Hash = {h1}
    File = {f1}
    Urls <- OnlyUdp
    KeyRefresh = TRUE
    OutputStats = FALSE
    SourcePath <- Absolute
    MaxChanges = 2
INVARIANTS Inv OnlyRenewalsDeadlock
PROPERTIES InterruptExits SchedulerGoesOn KeyIsRenewed WatcherKeepsUp CompleteFileIsListed
