CONSTANTS
  Books = {b1, b2}
  SysBook = sys
  NoBook = none
  Homes = {h1, h2}
  Readers = {r1, r2}
  PlansPerBook = 2
  Budgets <- MCBudgets
  key1 = key1
  key2 = key2
  Messages <- MCMessages
  Items = {item1}
  LastInstant = 1
  MaxBindings = 1
  MaxReadings = 2
  Workers = {r1, r2}
  LastMonth = 3
  YearEnd = 2
  Ladder <- MCLadder
  Unbounded = unbounded
  FlatPrice = 11
  Fixed = 9
  Percent = 25
  MostUsage = 2
  Habits <- MCHabits
  Versions = {b1, b2}
  TariffMonths = 1
  Facts = {f1}
  NoTiers = untiered
  Editors = {r1, r2}
  Window = 1
  Quotes = {q1}
SPECIFICATION ReadingSpec
CHECK_DEADLOCK FALSE
SYMMETRY MCSymmetry
CONSTRAINT Calm
INVARIANTS
  ReadingTypes
   OneGeneratedPlan CompletedPlanIsFinished ReadingKeepsItsItem
  ConvertedOnce ItemPointsAtHead
    QuotedFactsStay
