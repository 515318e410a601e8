CONSTANTS
    a = a  b = b  c = c  v = v  w = w  none = none  gone = gone  novalue = novalue
    s1 = s1  s2 = s2  t1 = t1  t2 = t2
    Key = {a, b}
    Val = {v}
    EmptyKey = none
    EmptyVal = novalue
    ErasedKey = gone
    N = 2
    Path <- Path2
    Layout = "wide"
    Stream = {s1}
    Thread = {t1, t2}
    StreamOf <- OneStream
    Rank <- TwoRanks
    TotalThreads = 2
    Calls = {"insert", "upsert", "insertfind", "assign", "erase", "find", "foreach", "clear"}
    MayOverlap <- NoOverlap
    Synchronous = {"insert", "upsert", "erase"}
    MaxBatch = 2
SPECIFICATION MapAlone
PROPERTY IsBulkMap
PROPERTY CallsReturn
