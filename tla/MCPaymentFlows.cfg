\* The escrow has two traders; an offer opened at LastOpening (2) and taken in its
\* last second (3) can be reclaimed from 5 on, so its clock goes that far.
\* This user's wallet is one of them and may change once.
\* Two recordings and two agent runs.  A spoken payment runs beside a plan of two transactions.
SPECIFICATION FlowsSpec
CONSTANTS
    Traders = {p1, p2}
    Escrow = Escrow
    Tokens = {usdc}
    Amounts = {0, 1, 2}
    Ttls = {0, 1, 2}
    Endowment = 2
    MIN_TTL_SECS = 1
    MAX_TTL_SECS = 2
    PAY_WINDOW_SECS = 1
    MAX_PAGE = 2
    MaxTime = 5
    MaxOffers = 2
    LastOpening = 2
    None = None
    Voices = {voice}
    Plans = {plan}
    PlanLength = 2
    MaxSaves = 1
    Texts = {"t", "u", "blank"}
    Blank = "blank"
    MaxTakes = 2
    MaxRuns = 2
    Wallets = {p1}
    PAGE_SIZE = 2
    TtlAsked = 1
    MaxSwitches = 1
INVARIANTS
    PlansLandInOrder
    BalancesFollowOffers
    OrderBookIsActionable
    OfferedActionsWork
PROPERTIES
    EveryTurnEnds
    PaymentIsNotSuperseded
    EveryRunEnds
    CallEnds
    
    NoTokensStuck
CHECK_DEADLOCK FALSE
