\* Aliases: two owners; three names over two addresses, so that two names share an
\* address and a third is re-pointed between them.  Gate: two prompt threads, three
\* requests (singles, or two of them a batch), a TTL of one tick and one tick more, so
\* that what was begun first can lapse.  Agent: two turns, one of short answers.
\* Ramps: a deposit and two withdrawals, two of them started, one restart.  Lessons:
\* ages in tenths of the real limits, and one more than the longest of them.
SPECIFICATION DeskSpec
CONSTANTS
    None = None
    Null = Null
    Owners = {o1, o2}
    Names = {"n1", "n2", "n3"}
    Addrs = {"a1", "a2"}
    Tasks = {t1, t2}
    t2 = t2
    BatchSizes = {2}
    APPROVAL_TTL = 1
    MaxRequests = 3
    MaxTime = 2
    MaxInbox = 1
    MaxNativeCalls = 1
    Setups = {s1, s2}
    Proposals <- SomeProposals
    Contacts = {"c"}
    Largest = 3
    MaxOther = 1
    NotSet = NotSet
    Unset = Unset
    Malformed = Malformed
    Turns = {u1, u2}
    Terse = {u2}
    Calls <- SomeCalls
    MaxCalls = 2
    Served <- SomeServed
    Allowed = {"ledger.info"}
    Denied = {}
    MaxPages = 20
    Provider = "openai"
    DIALOG_TTL = 1
    MaxClock = 1
    MAX_EXCHANGES = 1
    Deposits = {dep}
    Withdrawals = {w1, w2}
    w2 = w2
    Amounts = {1, 2}
    MaxFlows = 2
    MaxRestarts = 1
    Offsets <- SomeOffsets
    Shifts <- SomeShifts
    Asked <- WallClocks
    Clocks <- SomeClocks
    Lead = 1
    Controls = {"left"}
    OtherKeys = {"option", "shift", "letter"}
    MIN_HOLD = 3
    ARM_DELAY = 2
    MAX_TAP_HOLD = 2
    TAP_GAP = 2
    Old = 4
    MaxFaults = 1
    MaxRuns = 4
    DEFAULT_WINDOW_DAYS = 3
    DEFAULT_MIN_PAYMENTS = 3
    DEFAULT_MIN_SPAN_DAYS = 1
    DAY_SECONDS = 2
    ROUNDING_STEP = 5
    DAILY_LIMIT_MIN_ACTIVE_DAYS = 2
    RECURRENCE_MIN_OCCURRENCES = 3
    RECURRENCE_MAX_INTERVAL_JITTER_PCT = 10
    RECURRENCE_AMOUNT_TOLERANCE_PCT = 10
    MAX_FIRST_RUN_ADVANCE_STEPS = 1
    DORMANT_DAYS = 1
    UNUSUAL_WINDOW_DAYS = 1
    UNUSUAL_MULTIPLIER = 3
    DEFAULT_DISPLAY_ASSET = "XLM"
    Payments <- SomePayments
    Contexts <- SomeContexts
    MaxPayments = 4
    LastTime = 3
    Owner = "o"
    Accounts = {"o", "a", "b", "c"}
    Payees = {"a"}
    AliasNames <- SomeNames
    Books <- SomeBooks
    Incoming <- SomeIncoming
    Topics = {"incoming"}
    Lanes <- SomeLanes
    Stores <- SomeStores
    TURN_LOG_LIMIT = 2
    PAGE_SIZE = 1
    MAX_ROWS = 4
    DAY = 1
    MaxTurns = 2
    MaxRecords = 2
    LastTick = 1
    MaxVisits = 2
INVARIANTS
    RefsCountAliases
    ReleaseNeedsConsent
    ReleasedOnce
    BatchMovesTogether
    QuietCardIsTrue
    ShellIsSettled
    AgentStaysInBounds
    WallClockIsRead
    
    AdviceRestsOnHistory
    HistoryIsTold
    TapLessonTeachesTheGesture
    
PROPERTIES
    SetupKeepsConsent
CHECK_DEADLOCK FALSE
