CONSTANTS
    ka = ka
    kb = kb
    kc = kc
    kd = kd
    ke = ke
    F = F
    G = G
    Filter = {F, G}
    Key = {ka, kb, kc, kd, ke}
    Hash <- Hashes
    HashBits = 3
    Words = 2
    Salts <- OddSalts
    IndexBits = 2
    Layouts <- LayoutsChecked
    Calls <- HostCalls
    Ahead = 1
    MinAggregated = 2
    MinPrivate = 3
    MaxIndex = 3
    MaxSlots = 1
    SegmentRecords = 1
    LocalSlots = 1
    StencilKeys = 2
    CoreThreads = 2
    Cores = 2
    h1 = h1
    h2 = h2
SPECIFICATION AnySketch
SYMMETRY Symmetry
INVARIANT TypeOK
INVARIANT FilterIsExact
INVARIANT AnswersAreExact
INVARIANT RegistersAreExact
PROPERTY RegistersOnlyGrow
