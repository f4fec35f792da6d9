CONSTANTS
    s1 = s1
    s2 = s2
    Sender = {s1, s2}
    Configs <- CancelConfigs
    UserName = "user"
    Password = "right"
    EapIds = 2
    ServerVersions <- Versions
    Attempts = 2
    MaxPackets = 3
    TokenSpace = 8
    TokenStarts = {2, 7}
    Slots = {1, 2, 3}
SPECIFICATION Spec
INVARIANTS RepliesMatchTokens
CHECK_DEADLOCK FALSE
