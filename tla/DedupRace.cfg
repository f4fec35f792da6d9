CONSTANTS
    Key = {k1, k2}
    Worker = {w1, w2}
    AllowDefer = FALSE
    MaxArrivals = 3
    Raw = {1, 2, 3}
    TTL = 1
    MaxEntries = 1
    MaxNow = 2
    IN_FLIGHT = IN_FLIGHT
    NONE = NONE
SPECIFICATION Spec
PROPERTIES DuplicatesDroppedWhileProcessing
CHECK_DEADLOCK FALSE
