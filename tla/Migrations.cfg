CONSTANTS
  Processes = {p1, p2}
  Deployed = {0, 4, 10, 14, 18, 21}
  Together = {18}
  Legacy <- LeftRows
  Live = {"odds_snapshots", "source_team_id_mappings"}
  MaxCrashes = 2
  MaxWrites = 1
SPECIFICATION Spec
INVARIANTS TypeOK RowsSurvive RetriesConverge OnlyRebuildsGetStuck
