CONSTANTS
    Key = {k1, k2}
    Worker = {w1, w2}
    AllowDefer = TRUE
    MaxArrivals = 3
    Raw = {1, 2, 3}
    TTL = 1
    MaxEntries = 2
    MaxNow = 2
    IN_FLIGHT = IN_FLIGHT
    NONE = NONE
SPECIFICATION Spec
INVARIANTS InFlightOwned RepliesMatchRequests
CHECK_DEADLOCK FALSE
