CONSTANTS
  s1 = s1
  bet1 = bet1
  bet2 = bet2
  Stream = {s1}
  Provider = {bet1, bet2}
  Price = {100, 150}
  MaxTime = 3
  Lag <- MCLag
  Threshold = 40
  MaxWindow = 1
  Retention = 2
  MaxReadings = 4
SPECIFICATION Spec
INVARIANTS TypeOK MovementsAreTransitions
PROPERTIES MovementsJoinNewest RaisesOnlyOnDisorder
