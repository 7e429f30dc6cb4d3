SPECIFICATION AggregateSpec
CONSTANTS
    Ciks = {1, 2, 3}
    Quarters = {1, 2, 3}
    Offers <- MCOffers
    FiledOn <- MCFiledOn
    Deadline <- MCDeadline
    Predecessors <- MCPredecessors
    Named <- MCNamed
    Managers <- MCManagers
    PopulationFloor = 2
    TopN = 1
    RankCap = 1
    Base = 3
    Digits = 3
    MaxInt = 12
    None = None
INVARIANTS
    PathsAgree
    BooksBalance
    QuietBooksAreHeld
    SurfacesAgree
CHECK_DEADLOCK FALSE
