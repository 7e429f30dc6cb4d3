SPECIFICATION RegistrySpec
CONSTANTS
    Values = {1, 2}
    LastDay = 4
    Order <- MCOrder
    Provisional <- MCProvisional
    Registries <- MCRegistries
    Files <- MCFiles
    Lists <- MCLists
    Quarter <- MCQuarter
    Holdings <- MCHoldings
    Horizon = 3
    MaxRuns = 3
    None = None
INVARIANTS
    ConvergesLikeACleanBuild
    HoldingsFollowTheAuthority
    IdsKeepTheirMeaning
CHECK_DEADLOCK FALSE
