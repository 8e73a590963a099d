SPECIFICATION FairSpec
CONSTANTS
    f1 = f1
    f2 = f2
    f3 = f3
    File = {f1, f2, f3}
    Inputs <- SomeInputs
    Parsed <- ParsedUrl
    Sha1 <- Same
    ByteOrder <- AllBytes
    Garbage <- NoUtf8
    U16 = 3
    U32 = 8
    U64 = 16
    I64 = 8
    USize = 64
    StackDepth = 4
    DefaultMin = 2
    DefaultMax = 6
INVARIANTS TypeOK DisorderNeedsBadMax LoadedAsWritten DecoderInBounds DecodesTheGrammar UrlsClean ParsedAsDescribed HashIsOfTheFile NoTorrentTwice ListsTheDirectory
PROPERTIES DecoderAdvances StartEnds
