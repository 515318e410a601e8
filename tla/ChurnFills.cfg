CONSTANTS
    a = a  b = b  c = c  v = v  w = w  novalue = novalue
    ka = ka  kb = kb  x = x  y = y  none = none  gone = gone
    Containers = {"DynamicMap"}
    Key = {a, b}
    Val = {v}
    NoVal = novalue
    InitialCapacity = 4
    MakeValidExtent <- SingleSlots
    MinInsertSize = 1
    MaxBatch = 1
    Reservations = {}
    Calls = {"insert", "erase", "find"}
    MaxSubmaps = 2
    MaxSize = 4
    MaxTombstones = 6
SPECIFICATION AnyMap
PROPERTY InsertStoresAll
