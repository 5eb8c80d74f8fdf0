\* One owner with two orders that compete for a day's budget over more than
\* two days, and a clock that reaches the largest u64: lateness, skipped slots
\* and an advance that overflows; a keeper's page holds one id.
SPECIFICATION Spec
CONSTANTS
    Owners = {o1}
    Names = {}
    Addrs = {a1}
    Null = Null
    usdc = usdc
    xlm = xlm
    Assets = {usdc}
    Executors = {}
    RuleChoices <- ScheduleRules
    Amounts = {1}
    AllowanceChoices = {0, 3}
    StartTimes = {0, 1}
    Intervals = {0, 2, 3}
    RunCounts = {1, 3}
    MaxTime = 6
    DAY_SECS = 3
    MAX_ACTIVE_PER_OWNER = 2
    MAX_DUE_SCAN = 1
    U32Max = 3
    U64Max = 6
INVARIANTS
    RunsAccounted
    OneRunPerSlot
    CounterMatchesDebits
    IndexIsExact
    SweepMeetsEveryDueOrder
PROPERTIES
    InactiveIsFinal
