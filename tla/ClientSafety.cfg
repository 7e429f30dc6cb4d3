SPECIFICATION FairSpec
CONSTANTS
    None = None
    Corrupt = Corrupt
    Garbage = Garbage
    c1 = c1
    c2 = c2
    b1 = b1
    b2 = b2
    Builds <- TwoBuilds
    Clients <- TwoClients
    ClientVersion <- SameVersion
    Manifests <- HostileManifests
    Pointers <- HostilePointers
    Attested <- HostileAttested
    Newest <- P3
    Faults <- AllFaults
    Skew = 0
    MaxTime = 1
INVARIANT ServesOnlyWhatIsCommitted
PROPERTY KeepsThePromise
PROPERTY PollingConverges
