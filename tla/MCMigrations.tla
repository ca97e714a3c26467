----------------------------- MODULE MCMigrations -----------------------------
EXTENDS Migrations

(* A row, with a value for each column its table ever has.                 *)
Row(values) ==
  [c \in {"market_rules", "market_specifier", "confidence", "created_at", "parser_version",
          "source_payload", "reference_provider", "reference_provider_id", "country",
          "start_time_provider", "rejection_reason", "rejected_at"} |-> Null]
    @@ values
    @@ [market_phase |-> "live", provider_id |-> "api", identity_status |-> "REFERENCE",
        trust_state |-> "VERIFIED", resolver_version |-> "2", resolution_method |-> Null,
        sport |-> "football", collector_run_id |-> "run"]

Mapping(id, source, method, trust, refers) ==
  Row(refers @@ [id |-> id, source |-> source, resolution_method |-> method, trust_state |-> trust])

Team(t) == "team_id" :> t
Event(e) == "event_id" :> e

(* Two API-Football ids for one team and for one event; a fuzzy mapping of *)
(* API-Football's, a mapping found suspect, and since release 21 one that  *)
(* a human rejected; a league nobody registered before release 5; a peak   *)
(* above the last edge; a quote with and one without its source's time.    *)
LeftRows(t, v) ==
  CASE t \in {"teams", "collector_runs", "raw_payloads", "signal_history", "movements"} ->
         {Row([id |-> "run"])}
    [] t = "events" ->
         {Row([id |-> "derby", league |-> "premier", home_team_id |-> "run",
               away_team_id |-> "run", competition_id |-> "premier"])}
    [] t = "competitions" -> {Row([id |-> "cup"])} \cup (IF v < 5 THEN {} ELSE {Row([id |-> "premier"])})
    [] t = "signals" -> {Row([id |-> "s", edge_percent |-> "3", peak_edge_percent |-> "5"])}
    [] t = "odds_snapshots" ->
         {Row([id |-> "o1", source_timestamp |-> "10", observed_at |-> "11", quote_time |-> "10"]),
          Row([id |-> "o2", source_timestamp |-> Null, observed_at |-> "12", quote_time |-> "12"])}
    [] t = "source_team_mappings" ->
         {Mapping("n1", "api-football", "fuzzy", "VERIFIED", Team("run") @@ ("competition_id" :> "cup")),
          Mapping("n2", "mozzart", "exact", IF v < 21 THEN "SUSPECT" ELSE "REJECTED",
                  Team("run") @@ ("competition_id" :> "cup"))}
    [] t = "source_competition_mappings" ->
         {Mapping("c1", "mozzart", "alias", "UNVERIFIED",
                  [competition_id |-> "cup", country_key |-> "england"])}
    [] t = "source_team_id_mappings" ->
         {Mapping("t1", "api-football", "legacy", "VERIFIED", Team("run")),
          Mapping("t2", "api-football", "legacy", "VERIFIED", Team("run")),
          Mapping("t3", "mozzart", "legacy", "SUSPECT", Team("run"))}
    [] t = "source_competition_id_mappings" ->
         {Mapping("l1", "api-football", "legacy", "VERIFIED", "competition_id" :> "cup")}
    [] t = "source_event_mappings" ->
         {Mapping("e1", "api-football", "id", "VERIFIED", Event("derby")),
          Mapping("e2", "api-football", "id", "VERIFIED", Event("derby"))}
    [] t = "team_competitions" -> {Row([id |-> <<"run", "premier">>])}
    [] OTHER -> {}
=============================================================================
