SPECIFICATION FairSpec
CONSTANTS
    e1 = e1
    other = other
    bad = bad
    r1 = r1
    r2 = r2
    Events = {e1, other, bad}
    Observation <- OwnKey
    Kind <- KindOf
    Relays = {r1, r2}
    BatchSize = 2
    MaxCrashes = 1
CHECK_DEADLOCK FALSE
INVARIANTS
    TypeOK
    PublishedIsIngested
PROPERTIES
    IngestionSpec
    EveryPriceIngested
    QueueDrains
