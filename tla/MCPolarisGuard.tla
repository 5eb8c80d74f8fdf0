--------------------------- MODULE MCPolarisGuard ---------------------------
(* Instances of PolarisGuard for TLC: the rules an owner submits.           *)
EXTENDS PolarisGuard

CONSTANTS usdc, xlm

\* The contract treats all owners alike.
Interchangeable == Permutations(Owners)

R(auto, perTx, daily, assets, knownOnly) ==
    [auto_approve_limit |-> auto, per_tx_limit |-> perTx, daily_limit |-> daily,
     allowed_assets |-> assets, known_recipients_only |-> knownOnly]

\* A usual rule, a tighter one that lets the agent pay nobody, and two that
\* validate_rule must refuse.
PaymentRules ==
    {R(1, 2, 3, {usdc}, TRUE), R(0, 1, 2, {}, FALSE),
     R(3, 2, 3, {usdc}, FALSE), R(1, 2, 3, {usdc, xlm}, FALSE)}

\* A rule with room for one run or two a day, and one that bars the asset.
ScheduleRules ==
    {R(0, 2, 2, {usdc}, FALSE), R(0, 1, 1, {}, FALSE)}
=============================================================================
