CONSTANTS
    a = a  b = b  c = c  v = v  w = w  novalue = novalue
    ka = ka  kb = kb  x = x  y = y  none = none  gone = gone
    Containers = {"DynamicMap", "StaticMap", "StaticSet"}
    Key = {a, b}
    Val = {v, w}
    NoVal = novalue
    InitialCapacity = 3
    MakeValidExtent <- PairSlots
    MinInsertSize = 1
    MaxBatch = 2
    Reservations = {2, 5}
    Calls = {"insert", "upsert", "append", "async", "find", "erase", "eraseasync", "clear", "reserve"}
    MaxSubmaps = 3
    MaxSize = 5
    MaxTombstones = 2
SPECIFICATION AnyMap
SYMMETRY Symmetry
INVARIANT TypesOK
INVARIANT KeyInOneSubmap
INVARIANT OneChunk
INVARIANT CountsAreSound
INVARIANT AnswersComeInOrder
INVARIANT CountsAreOwn
PROPERTY IsGrowingMap
