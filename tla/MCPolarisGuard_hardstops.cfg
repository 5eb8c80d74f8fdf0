\* The payments instance with one owner and a second token.
SPECIFICATION Spec
CONSTANTS
    Owners = {o1}
    Names = {n1}
    Addrs = {a1}
    Null = Null
    usdc = usdc
    xlm = xlm
    Assets = {usdc, xlm}
    Executors = {e1}
    RuleChoices <- PaymentRules
    Amounts = {0, 1, 2}
    AllowanceChoices = {0, 3}
    StartTimes = {}
    Intervals = {}
    RunCounts = {}
    MaxTime = 3
    DAY_SECS = 2
    MAX_ACTIVE_PER_OWNER = 1
    MAX_DUE_SCAN = 1
    U32Max = 1
    U64Max = 9
INVARIANTS
    HardStopsStayHard
