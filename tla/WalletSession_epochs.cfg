\* Who owns an approval, when the idle timer is applied by a look at the session.
SPECIFICATION Spec
CONSTANTS
    Tasks = {t1}
    BatchSizes = {1}
    APPROVAL_TTL = 2
    MaxRequests = 1
    MaxTime = 2
    AutoLockMinutes = {1}
    MaxSessions = 2
    None = None
PROPERTIES
    ReleasedInItsOwnSession
