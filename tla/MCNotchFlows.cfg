\* One prompt thread, one request, two logins, a timeout of a minute or never.
SPECIFICATION FlowsSpec
CONSTANTS
    Tasks = {t1}
    BatchSizes = {1}
    APPROVAL_TTL = 2
    MaxRequests = 1
    MaxTime = 2
    AutoLockMinutes = {0, 1}
    MaxSessions = 2
    None = None
PROPERTIES
    LogoutIsFinal
    IdleWalletLocks
    LatchComesOff
    PagesSettle
    GrantIsNoticed
CHECK_DEADLOCK FALSE
