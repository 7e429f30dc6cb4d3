SPECIFICATION SecFairSpec
CONSTANTS
    archive = archive
    live = live
    Null = Null
    Threads = {t1, t2}
    Urls <- MCUrls
    TTL <- MCTTL
    MinInterval = 2
    Threshold = 2
    Backoff <- MCBackoff
    RetryAfterCap = 2
INVARIANT NoNeedlessRequest
PROPERTY ImplementsPoliteness
PROPERTY EveryCallReturns
