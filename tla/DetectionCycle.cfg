CONSTANTS
  e1 = e1
  m1 = m1
  m2 = m2
  Event = {e1}
  Market = {m1, m2}
  Identity <- TwoSignals
  MaxEdge = 2
  MaxTime = 3
  SignalTTL = 1
  HistoryRetention = 1
  Kickoff = {0, 9}
SPECIFICATION Spec
INVARIANTS TypeOK JournalOrder JournalMirror JournalEpisodes RowColumns
PROPERTIES KeepsPromise UnjudgedUntouched
