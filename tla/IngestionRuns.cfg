CONSTANTS
  p1 = p1
  p2 = p2
  Proc = {p1, p2}
  MinInterval = 1
  StaleAfter = 0
  MaxRecords = 2
  MaxRuns = 2
  MaxTime = 2
  LastStart = 1
SPECIFICATION FairSpec
INVARIANTS TypeOK VerdictsAreTrue WithinBudget
PROPERTIES VerdictsStand RunsEnd
CHECK_DEADLOCK FALSE
