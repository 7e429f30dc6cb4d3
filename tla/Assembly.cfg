SPECIFICATION AssemblyFairSpec
CONSTANTS
    Versions = {1, 2, 3}
    Joined = {1, 3}
    old = old
    new = new
    inline = inline
    none = none
    InstSources <- MCInst
    External <- MCExternal
    Verdict <- MCVerdict
    Expected = TRUE
    MaxBuild = 3
    Faults = 1
    Hands = 2
    Torn = Torn
    None = None
INVARIANTS
    SealedBuildsAreWhole
    DeployedSiteIsCounted
    LifecycleIsChained
PROPERTY
    NightsCatchUp
CHECK_DEADLOCK FALSE
