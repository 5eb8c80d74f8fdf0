\* One deposit and two withdrawals, two of which are started; the application stops once.
SPECIFICATION RampSpec
CONSTANTS
    Deposits = {d}
    Withdrawals = {w1, w2}
    Amounts = {1}
    MaxFlows = 2
    MaxRestarts = 1
INVARIANTS
    NoPayoutIsForgotten
CHECK_DEADLOCK FALSE
