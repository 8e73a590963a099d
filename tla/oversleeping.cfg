SPECIFICATION Spec
CONSTANTS
    a = a
    b = b
    Torrent = {a, b}
    Intervals <- SomeIntervals
    U64 = 4
    Herd = 2
    Slow = 1
INVARIANT SleepsToTheFirst
