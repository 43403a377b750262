SPECIFICATION Spec
CONSTANTS
    e1 = e1
    e2 = e2
    x1 = x1
    Scripts = {k}
    Escrows = {e1}
    ScriptOf <- MCScriptOf
    Deposits = {x1}
    PaysTo <- MCPaysTo
    ExactFor <- MCExactFor
    Failing = {}
    Blocks = {b1, b2}
    ChanCap = 8
    None = None
INVARIANT NoStaleBinding
CHECK_DEADLOCK FALSE
