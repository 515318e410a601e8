CONSTANTS
    Parts = {"walks", "clears", "bitmaps", "samples", "workspaces", "narrow", "memory"}
    KeyBytes = 2
    PayloadBytes = 2
    Align = 2
    BatchSizes = {1}
    MaxSubmaps = 3
    MaxRefusals = 1
    HostBits = 8
    DeviceBits = 6
    Primes <- MCPrimes
    Requests <- MCRequests
    BucketSizes <- MCBucketSizes
    Hashes <- MCHashes
    ByteBits = 2
    SerialCookieNoRun = 10
    SerialCookie = 11
    NoOffsetThreshold = 4
    BinarySearchThreshold = 3
    r1 = r1
    r2 = r2
    s1 = s1
    s2 = s2
SPECIFICATION AnyArithmetic
INVARIANT TypesOK
INVARIANT WalksSeeAll
INVARIANT CapacitiesServe
INVARIANT WorkIsShared
INVARIANT ParserIsExact
INVARIANT LookupsAreExact
INVARIANT OneOwner
INVARIANT KernelsGetMemory
INVARIANT HashesAgree
INVARIANT SketchMathHolds
PROPERTY SlotsAreAtomic
PROPERTY WalksEnd
