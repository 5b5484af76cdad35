CONSTANTS
    p1 = p1
    p2 = p2
    Runs = {r1, r2}
    NoRun = NoRun
    Plans = {p1, p2}
    PlanOf <- PlanEach
    NumSettlements = 3
    Monitoring = {2}
    Blockable = {1}
    Closable = {3}
    Workers = {w1, w2}
    BatchSize = 2
    MaxEdits = 1
    MaxDiscards = 1
SPECIFICATION Spec
CHECK_DEADLOCK FALSE
SYMMETRY Symmetry
INVARIANTS
    NoOrphanBill
    PostedOnlyOnceClaimed
PROPERTY
    ReadyAtCurrentPricing
    RunsKeepBillLife
