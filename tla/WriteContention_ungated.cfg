CONSTANTS
  MaxPolls = 3
  MaxRecords = 3
  MaxMarkets = 3
  RateGated = FALSE
SPECIFICATION Spec
INVARIANTS TypeOK DetectionStartsClean
PROPERTY CyclesResume
