CONSTANTS
    p1 = p1
    p2 = p2
    Runs = {r1, r2}
    NoRun = NoRun
    Plans = {p1, p2}
    PlanOf <- PlanEach
    NumSettlements = 2
    Monitoring = {}
    Blockable = {1}
    Closable = {}
    Workers = {w1, w2}
    BatchSize = 2
    MaxEdits = 0
    MaxDiscards = 0
SPECIFICATION Spec
CHECK_DEADLOCK FALSE
SYMMETRY Symmetry
INVARIANT
    EverySettlementAccounted
