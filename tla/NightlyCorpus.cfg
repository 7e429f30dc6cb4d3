SPECIFICATION NightlyFairSpec
CONSTANTS
    None = None
    h1 = h1
    s1 = s1
    s2 = s2
    k1 = k1
    House <- HouseOnly
    Senate <- TwoReports
    Kadoa <- OneSeed
    Twin <- SeedOfHouse
    Amends <- SecondAmends
    Punctual <- OneReport
    Rescan = 1
    MaxStaleness = 1
    MaxDay = 2
    MaxRows = 1
    Early <- HouseOnly
    MaxRuns = 1
    LastBoot = 2
    EraEnd = 1
    Allowances <- NoAllowance
    Eras <- AnyRun
PROPERTY ReleasesAreSound
PROPERTY ReleasesAreFresh
PROPERTY ReleasesCatchUp
CHECK_DEADLOCK FALSE
