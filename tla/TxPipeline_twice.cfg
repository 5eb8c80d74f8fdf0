\* A spoken payment beside a plan of two transactions.
SPECIFICATION PipelineSpec
CONSTANTS
    Voices = {v}
    Plans = {p}
    PlanLength = 2
    MaxSaves = 1
INVARIANTS
    PaidOnce
CHECK_DEADLOCK FALSE
