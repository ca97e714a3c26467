CONSTANTS
  p1 = p1
  p2 = p2
  e1 = e1
  m1 = m1
  home = home
  away = away
  Proc = {p1, p2}
  Event = {e1}
  Market = {m1}
  Identity <- TwoSignals
  MaxEdge = 2
  MaxTime = 3
SPECIFICATION Spec
INVARIANTS TypeOK ColumnsAgree ClaimsAreJournalled
SYMMETRY Alike
CHECK_DEADLOCK FALSE
