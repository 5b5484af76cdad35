CONSTANTS
  NumBills = 2
  NumPayments = 3
  Accts = {a1, a2}
  MaxAmount = 2
  MaxPenalty = 1
  k1 = k1
  k2 = k2
  LastPeriod = 3
  MaxDial = 2
  MaxEstimate = 1
  Clerks = {k1, k2}
  Scopes <- MCScopes
SPECIFICATION AccountSpec
CHECK_DEADLOCK FALSE
CONSTRAINT Orderly
INVARIANTS
  TypeOK LedgerRows LotsSolvent   
  
PROPERTY
   BillsKeepTheirLife
