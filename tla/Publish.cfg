SPECIFICATION PubFairSpec
CONSTANTS
    runner = runner
    operator = operator
    Workers <- BothWorkers
    Nightly <- JustRunner
    InstContents <- OnlyFirst
    Settings <- HostedAndLocal
    MaxBuilds = 3
    MaxContents = 3
    MaxVersion = 3
INVARIANT NeverTorn
INVARIANT InFlightIsUnambiguous
PROPERTY ImplementsFeed
PROPERTY NightlyNeverRepoints
PROPERTY InFlightCompletes
