\* The in-flight latch against what its comment says it is for.
SPECIFICATION GateSpec
CONSTANTS
    Tasks = {t1, t2}
    BatchSizes = {1}
    APPROVAL_TTL = 1
    MaxRequests = 1
    MaxTime = 1
    None = None
INVARIANTS
    OnePromptPerRequest
