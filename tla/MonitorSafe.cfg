SPECIFICATION MonitorFairSpec
CONSTANTS
    None = None
    Corrupt = Corrupt
    Garbage = Garbage
    b1 = b1
    b2 = b2
    Builds <- MCBuilds
    Manifests <- MCManifests
    Pointers <- MCPointers
    Attested <- MCAttested
    Hazards <- AllHazards
    Skew = 0
    MaxFailures = 3
    MaxClock = 1
INVARIANT SecondFailureAlerts
PROPERTY BaselineIsEarned
PROPERTY OutageIsNoticed
