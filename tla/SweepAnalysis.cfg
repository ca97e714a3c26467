CONSTANTS
  b1 = b1
  b2 = b2
  b3 = b3
  b4 = b4
  over = over
  under = under
  Bookmaker <- Four
  Order <- Totals
  Odds <- EdgeOdds
  Unit = 10
  MaxTime = 2
  MaxQuotes = 4
  MaxSnapshotAge = 1
  MaxSpread = 0
  Skew = 0
  Ahead = 1
  Threshold = 900
  MinBookmakers = 3
  Scale = 1000
  Ulps <- ThreeDigits
  Ulp = 10
  Bets <- EdgeBets
SPECIFICATION Spec
SYMMETRY Alike
INVARIANTS NoArbitrageMissed LaggardsDoNotMatter CandidatesAreJudged
