SPECIFICATION FairSpec
CONSTANTS
    e1 = e1
    e2 = e2
    x1 = x1
    Scripts = {k}
    Escrows = {e1, e2}
    ScriptOf <- MCScriptOf
    Deposits = {x1}
    PaysTo <- MCPaysTo
    ExactFor <- MCExactFor
    Failing = {x1}
    Blocks = {b1, b2}
    ChanCap = 1
    None = None
INVARIANTS
    TypeOK
    BoundIsDeposit
PROPERTIES
    SpentIsForgotten
    EventuallyReported
CHECK_DEADLOCK FALSE
