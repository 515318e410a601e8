CONSTANTS
    a = a  b = b  c = c  v = v  w = w  none = none  gone = gone  novalue = novalue
    s1 = s1  s2 = s2  t1 = t1  t2 = t2
    Key = {a, b}
    Val = {v, w}
    EmptyKey = none
    EmptyVal = novalue
    ErasedKey = gone
    N = 3
    Path <- Path3
    Layout = "packed"
    Stream = {s1}
    Thread = {t1, t2}
    StreamOf <- OneStream
    Rank <- TwoRanks
    TotalThreads = 2
    Calls = {"insert", "upsert", "insertfind", "erase", "clear"}
    MayOverlap <- NoOverlap
    Synchronous = {"upsert"}
    MaxBatch = 2
SPECIFICATION MapOrSet
SYMMETRY PayloadSymmetry
PROPERTY BothAreBulkMaps
