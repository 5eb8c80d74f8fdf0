\* Two orders: one that the owner may bar, one whose entries are archived; pages of
\* one id, no more than a tick takes; two pages a tick; one restart.  In the app one
\* wish, a name and an address, two orders, and what others change meanwhile.
SPECIFICATION OrdersSpec
CONSTANTS
    LastId = 2
    Refusable = {1}
    Archivable = {2}
    MaxPerTick = 1
    MaxListLimit = 1
    MaxPagesPerTick = 2
    MaxDueScan = 2
    MaxRestarts = 1
    None = None
    Names = {"bob"}
    Addresses = {"A"}
    Flows = {"f1"}
    Amounts = {1, 2}
    Limits = {2}
    MAX_SCHEDULES = 2
    REPEAT_RUNS = 2
    MaxIds = 2
    MaxTime = 1
INVARIANTS
    FatesAreKnown
PROPERTIES
    DueIsAttempted
    
