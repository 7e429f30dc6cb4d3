SPECIFICATION ResolutionSpec
CONSTANTS
    None = None
    Corrupt = Corrupt
    Garbage = Garbage
    c1 = c1
    c2 = c2
    b1 = b1
    b2 = b2
    b3 = b3
    Server = c1
    Builds <- MCBuilds
    Clients <- MCClients
    ClientVersion <- MCVersions
    Manifests <- MCManifests
    Pointers <- MCPointers
    Attested <- MCAttested
    Newest <- Back
    Faults <- NoFaults
    Skew = 0
    MaxTime = 0
INVARIANT UnlockedReadsAreAtomic
PROPERTY ServingIsSteady
