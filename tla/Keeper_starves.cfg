\* Three orders that run, pages of up to two ids, one run per tick.
SPECIFICATION FairSpec
CONSTANTS
    LastId = 3
    Refusable = {}
    Archivable = {}
    MaxPerTick = 1
    MaxListLimit = 2
    MaxPagesPerTick = 2
    MaxDueScan = 2
    MaxRestarts = 0
    None = None
PROPERTIES
    DueIsAttempted
