CONSTANTS
  Provider = {"api", "bet", "moz"}
  Reference = "api"
  Name <- Names
  Alias <- Aliases
  Ratio <- Ratios
  FuzzyThreshold = 85
  AmbiguityMargin = 5
  Country = {"England", "Russia"}
  SourceId = {"L1", "T1", "T2", "T3", "T4", "T5", "E1", "E2"}
  Tolerance = 1
  Sighting <- Countryless
  Reviewed = {}
  Called <- CalledBy
  League <- LeagueOf
  MaxTeams = 12
  MaxCompetitions = 4
  MaxEvents = 6
  MaxReviews = 0
SPECIFICATION Spec
INVARIANT AcceptsEverySighting
