SPECIFICATION Spec
CONSTANTS
    TrackerLists <- SomeLists
    Rates <- SomeRates
    Intervals <- TwoIntervals
    Peers <- SomePeers
    U16 = 4
    U64 = 64
    MaxTime = 4
    MaxAnnounces = 3
INVARIANTS LedgerInv CreditWithinRate TotalIsBacked UdpTotalIsExact
PROPERTY TrackerIntervalKept
