CONSTANTS
    LogLanes = 1
    WarpsPerBlock = 1
    Blocks = 2
    SmallInsertLimit = 3
    Key <- Keys4
    EmptyKey <- Sentinel
    Capacity = 3
    Hash <- Collide
    Batches <- Insertions
    Queries <- Questions
    Rooms <- OutputSizes
SPECIFICATION AnyBag
INVARIANT TypeOK
INVARIANT CountsAreExact
INVARIANT ThreadsKeepApart
INVARIANT TableHoldsAccepted
PROPERTY IsOrderedBag
PROPERTY MultimapsArePairBags
