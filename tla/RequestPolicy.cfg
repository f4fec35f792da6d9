CONSTANTS
    Servers = {"sync", "async"}
SPECIFICATION Spec
INVARIANTS TypeOK HandlersGetAuthenticRequests RepliesVerify AccessRepliesCarryMac ServersAgree
CHECK_DEADLOCK FALSE
