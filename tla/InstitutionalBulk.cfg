SPECIFICATION BulkFairSpec
CONSTANTS
    Accessions <- MCAccessions
    Ciks = {1, 2, 3}
    Floor = 1
    Divisor = 10
    None = None
    Worlds <- MCWorlds
    Early = {1, 3, 4}
    Period = 1
    TopN = 2
    FlushEvery = 2
    Singles = {3}
    MaxSingles = 1
    MaxFaults = 2
INVARIANTS
    StoreMatchesTheArchive
    DerivationsHold
PROPERTIES
    UniverseIsTheRanking
    BulkFinishes
CHECK_DEADLOCK FALSE
