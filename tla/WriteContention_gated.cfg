CONSTANTS
  MaxPolls = 3
  MaxRecords = 3
  MaxMarkets = 3
  RateGated = TRUE
SPECIFICATION Spec

PROPERTY CyclesResume
