CONSTANTS
  Processes = {p1}
  Deployed = {18}
  Together = {}
  Legacy <- LeftRows
  Live = {"odds_snapshots", "source_team_id_mappings"}
  MaxCrashes = 1
  MaxWrites = 0
SPECIFICATION Spec
INVARIANTS RetriesComeUp
