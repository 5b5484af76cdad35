CONSTANTS
    NumBills = 1
    NumPayments = 3
    Accts = {a1}
    MaxAmount = 2
    MaxPenalty = 0
    Cashiers = {c1, c2}
    Nobody = Nobody
    LastDay = 2
    h1 = h1
    h2 = h2
    Houses = {h1, h2}
    LastMonth = 2
    NumBatches = 2
    MostOwed = 1
    NoHouse = NoHouse
    Kinds = {k1, k2}
    LastNo = 3
    MaxTries = 2
    BookEnd = 3
    Clerks = {t1, t2}
    Amount = 2
    MostFunds = 2
    LastScan = 2
    Scanners = {s1}
SPECIFICATION DeskSpec
CHECK_DEADLOCK FALSE
SYMMETRY Symmetry
INVARIANTS
    CloseSplitsItsTotal
    CloseCountsItsMembers
    DebitsBookedOnce
    CountersLead
    BookInOrder
    
PROPERTY
    DueKeepsItsLife
