CONSTANTS
    Key <- MCKey
    Raw <- MCRaw
    Scenarios <- MCRenewed
    Delays <- MCDelays
    Absent = Absent
    Retries = 2
    Timeout = 1
    Backoff = 2
    MaxWait = 2
    JitterPct = 0
    MaxDelay = 2
    MaxRounds = 2
    MaxSends = 2
    TTL = 8
    MaxEntries = 4
    MaxNow = 20
    IN_FLIGHT = IN_FLIGHT
    NONE = NONE
SPECIFICATION FairSpec
INVARIANTS TypeOK HandledOnce AnswersThisRound CallerPacketRestored
PROPERTIES SendReturns
CHECK_DEADLOCK FALSE
