CONSTANTS
    Req = {r1, r2, r3}
    Auth = {r1}
    NumIds = 2
    MaxRounds = 1
    Cancellable = {r2}
    AllowClose = TRUE
    Retries = 1
    Timeout = 2
    Backoff = 1
    MaxWait = 2
    JitterPct = 0
SPECIFICATION FairSpec
INVARIANTS TypeOK PendingIdsDistinct ResolvedByOwnReply TimeoutAfterAllRetries WakesInTime
PROPERTIES ResolvesWhileSwept
