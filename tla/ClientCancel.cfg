CONSTANTS
    Req = {r1, r2}
    Auth = {}
    NumIds = 2
    MaxRounds = 1
    Cancellable = {r1}
    AllowClose = FALSE
    Retries = 1
    Timeout = 1
    Backoff = 2
    MaxWait = 2
    JitterPct = 50
SPECIFICATION FairSpec
PROPERTIES EveryFutureResolves
