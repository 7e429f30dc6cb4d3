SPECIFICATION RunnerFairSpec
CONSTANTS
    daemon = daemon
    operator = operator
    uv = uv
    node = node
    first = first
    second = second
    Daemon = daemon
    Operator = operator
    MaxJobs = 2
    MaxDeaths = 1
    Tools <- BothTools
    Path <- ManifestPath
    Gated <- ManifestDirs
    Layouts <- ToolLayouts
INVARIANT WipesAreSafe
PROPERTY OneJobClean
PROPERTY RunnerComesBack
CHECK_DEADLOCK FALSE
