CONSTANTS
    a = a  b = b  c = c  v = v  w = w  none = none  gone = gone  novalue = novalue
    s1 = s1  s2 = s2  t1 = t1  t2 = t2
    Key = {a, b}
    Val = {}
    EmptyKey = none
    EmptyVal = novalue
    ErasedKey = none
    N = 3
    Path <- Path3
    Layout = "set"
    Stream = {s1}
    Thread = {t1, t2}
    StreamOf <- OneStream
    Rank <- TwoRanks
    TotalThreads = 2
    Calls = {"insert", "erase", "find"}
    MayOverlap <- NoOverlap
    Synchronous = {"insert", "erase"}
    MaxBatch = 2
SPECIFICATION Spec
INVARIANT LookupsMissNothing
