CONSTANTS
  home1 = home1
  home2 = home2
  dial1 = dial1
  dial2 = dial2
  order1 = order1
  order2 = order2
  offence1 = offence1
  Accounts = {home1, home2}
  Meters = {dial1, dial2}
  Orders = {order1, order2}
  Violations = {offence1}
  Staff = {s1}
  Workers = {w1, w2}
  Jobs <- MCJobs
  Kinds <- MCKinds
  Starts <- MCStarts
  MaxInstallations = 3
  MaxHandlings = 1
  Warehoused = TRUE
SPECIFICATION PartSpec
CHECK_DEADLOCK FALSE
SYMMETRY Symmetry
INVARIANTS
  ClosedHasNoMeter MeterInOnePlace DoneOnce DoneMeansDone OpenTaskIsDue
