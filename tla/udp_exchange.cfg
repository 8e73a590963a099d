SPECIFICATION Spec
CONSTANTS
    Nanos = 3
    U32 = 8
    Sizes <- SomeSizes
    Buffer = 1024
    MaxClock = 5
    MaxExchanges = 2
INVARIANTS UdpInv SuccessIsOwn
PROPERTY ImplementsRequest
