CONSTANTS
    a = a  b = b  c = c  v = v  w = w  none = none  gone = gone  novalue = novalue
    s1 = s1  s2 = s2  t1 = t1  t2 = t2
    Key = {a, b}
    Val = {v, w}
    EmptyKey = none
    EmptyVal = novalue
    ErasedKey = gone
    N = 2
    Path <- Path2
    Layout = "packed"
    Stream = {s1, s2}
    Thread = {t1, t2}
    StreamOf <- TwoStreams
    Rank <- OneRank
    TotalThreads = 1
    Calls = {"insert", "upsert", "insertfind", "assign", "erase", "find", "foreach", "clear"}
    MayOverlap <- DisciplinedOverlap
    Synchronous = {}
    MaxBatch = 1
SPECIFICATION Spec
SYMMETRY OverlapSymmetry
INVARIANT TypeOK
INVARIANT TableInv
INVARIANT UniqueKeys
INVARIANT Reachable
PROPERTY SlotsAreGivenOnce
