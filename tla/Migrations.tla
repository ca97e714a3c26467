------------------------------ MODULE Migrations ------------------------------
(***************************************************************************)
(* storage/migrations.py: migrate() brings a database file from the        *)
(* version recorded in PRAGMA user_version to the newest one.  The model   *)
(* executes the twenty-one migrations statement by statement, as Python's  *)
(* sqlite3 module does:                                                    *)
(*                                                                         *)
(*   - CREATE, ALTER, DROP and PRAGMA open no transaction: each is durable *)
(*     at once, unless one is already open, which it then joins;           *)
(*   - INSERT and UPDATE open one, which lasts until a commit;             *)
(*   - executescript() commits first, and then runs each of its            *)
(*     statements, the INSERTs too, durably on its own.                    *)
(*                                                                         *)
(* The process may die between any two statements and is started again;    *)
(* several processes start together; one may still run an older release    *)
(* and write rows while another migrates.                                  *)
(*                                                                         *)
(* A table has the columns that some migration names, adds or fills; a row *)
(* is a function from them to values.  Of an index only the columns that   *)
(* migrations changed are kept.                                            *)
(***************************************************************************)
EXTENDS Naturals, FiniteSets, SequencesExt, TLC

CONSTANTS
  Processes,     \* processes that open the database file
  Deployed,      \* the versions the file may have been left at
  Legacy(_, _),  \* Legacy(t, v): the rows of table t in a file left at version v,
                 \* with a value for every column the table ever has
  Live,          \* tables that a process of an older release still writes to
  Together,      \* versions of a file on which startups may overlap, in behaviours that
                 \* then have no crash and no write
  MaxCrashes,    \* kills of a process
  MaxWrites      \* rows that running processes write

Latest == 21

ASSUME MigrationsAssumption ==
  /\ Together \subseteq Deployed /\ Deployed \subseteq 0 .. Latest
  /\ MaxCrashes \in Nat /\ MaxWrites \in Nat

-----------------------------------------------------------------------------
(* Statements.                                                             *)

Null == "NULL"

CreateIf(t, cols, fk) ==
  [op |-> "create if", script |-> TRUE, table |-> t, cols |-> cols, fk |-> fk]
Create(t, cols, fk) ==
  [op |-> "create", script |-> FALSE, table |-> t, cols |-> cols, fk |-> fk]
Drop(t) == [op |-> "drop", script |-> FALSE, table |-> t]
Rename(t, u) == [op |-> "rename", script |-> FALSE, table |-> t, to |-> u]
IndexIf(i, t, by) == [op |-> "index if", script |-> FALSE, index |-> i, table |-> t, by |-> by]
Index(i, t, by) == [op |-> "index", script |-> FALSE, index |-> i, table |-> t, by |-> by]
DropIndex(i) == [op |-> "drop index", script |-> FALSE, index |-> i]
(* INSERT and UPDATE: "change" names the operator below that computes it.  *)
Change(name) == [op |-> "change", script |-> FALSE, change |-> name]
(* INSERT INTO u SELECT ... FROM t, the rows carried over by "change".     *)
Copy(t, u, name) == [op |-> "copy", script |-> FALSE, table |-> t, to |-> u, change |-> name]

Script(statements) == [i \in DOMAIN statements |-> [statements[i] EXCEPT !.script = TRUE]]

(* Python's own tests: a body that runs only if a table (a column of it)   *)
(* exists, or only if it does not.                                         *)
When(what, body) == <<[op |-> "test", what |-> what, holds |-> TRUE, body |-> Len(body)]>> \o body
Unless(what, body) == <<[op |-> "test", what |-> what, holds |-> FALSE, body |-> Len(body)]>> \o body

_add_column_if_missing(t, c, default) ==
  Unless(<<t, c>>, <<[op |-> "add column", script |-> FALSE, table |-> t, column |-> c,
                      default |-> default]>>)

(* The same columns for several tables, in order.                          *)
AddColumns(tables, columns, default) ==
  FlattenSeq([i \in DOMAIN tables |->
    FlattenSeq([j \in DOMAIN columns |-> _add_column_if_missing(tables[i], columns[j], default)])])

Rebuilt(i, t, by) == <<DropIndex(i), Index(i, t, by)>>

-----------------------------------------------------------------------------
(* The migrations.                                                         *)

RunColumns == {"id"}
OddsColumns == {"id", "source_timestamp", "observed_at", "market_rules", "market_specifier"}
PayloadColumns == {"id", "collector_run_id"}
MarketColumns == {"market_rules", "market_specifier"}

_migration_1_initial_schema ==
  Script(
    <<CreateIf("odds_snapshots", OddsColumns, {}),
      IndexIf("idx_odds_event", "odds_snapshots", {}),
      IndexIf("idx_odds_event_time", "odds_snapshots", {"observed_at"}),
      IndexIf("idx_odds_event_market", "odds_snapshots", {}),
      IndexIf("uq_odds_snapshot_dedupe", "odds_snapshots", {"observed_at"}),
      CreateIf("collector_runs", RunColumns, {}),
      IndexIf("idx_collector_runs_source", "collector_runs", {}),
      CreateIf("raw_payloads", PayloadColumns, {}),
      IndexIf("idx_raw_payloads_run", "raw_payloads", {"collector_run_id"}),
      CreateIf("teams", {"id"}, {}),
      IndexIf("uq_teams_name_sport", "teams", {}),
      CreateIf("events", {"id", "league", "home_team_id", "away_team_id"}, {"teams"}),
      IndexIf("idx_events_teams_time", "events", {"home_team_id", "away_team_id"}),
      CreateIf("source_team_mappings", {"id", "source", "team_id"}, {"teams"}),
      CreateIf("signals", {"id", "edge_percent"}, {}),
      IndexIf("uq_signals_identity", "signals", {}),
      IndexIf("idx_signals_status", "signals", {}),
      CreateIf("movements", {"id"}, {}),
      IndexIf("uq_movements_transition", "movements", {}),
      IndexIf("idx_movements_event", "movements", {})>>)

MarketIndexes(by) ==
  Rebuilt("idx_odds_event_market", "odds_snapshots", by)
    \o Rebuilt("uq_odds_snapshot_dedupe", "odds_snapshots", by \cup {"observed_at"})
    \o Rebuilt("uq_signals_identity", "signals", by)
    \o Rebuilt("uq_movements_transition", "movements", by)

_migration_2_full_market_identity ==
  AddColumns(<<"signals", "movements">>, <<"market_rules", "market_specifier">>, Null)
    \o MarketIndexes(MarketColumns)

_migration_3_competitions ==
  Script(
    <<CreateIf("competitions", {"id"}, {}),
      IndexIf("uq_competitions_name_sport", "competitions", {}),
      CreateIf("source_competition_mappings", {"id", "source", "competition_id"},
               {"competitions"})>>)

_migration_4_market_phase ==
  AddColumns(<<"odds_snapshots", "signals", "movements">>, <<"market_phase">>, "pre_match")
    \o MarketIndexes(MarketColumns \cup {"market_phase"})

_migration_5_event_competition_id ==
  _add_column_if_missing("events", "competition_id", Null)
    \o <<Change("register leagues"), Change("link leagues")>>

_migration_6_collector_run_provenance ==
  AddColumns(<<"collector_runs">>, <<"provider_id", "parser_version", "source_payload">>, Null)

_migration_7_bookmaker_catalog ==
  Script(
    <<CreateIf("bookmakers", {"id"}, {}),
      IndexIf("uq_bookmakers_normalized_name", "bookmakers", {}),
      CreateIf("source_bookmaker_mappings", {"id"}, {"bookmakers"})>>)

_migration_8_odds_snapshot_provenance ==
  _add_column_if_missing("odds_snapshots", "collector_run_id", Null)

_migration_9_event_status == Script(<<CreateIf("event_status", {"id"}, {})>>)

_migration_10_source_event_mappings ==
  Script(<<CreateIf("source_event_mappings", {"id", "source", "event_id"}, {"events"})>>)

(* Mutant: the rows are copied only by the startup that made the copy.     *)
RebuildOnce(t, new, cols, fk) ==
  Unless(<<new>>, <<Create(new, cols, fk), Copy(t, new, "all")>>)
    \o When(<<t>>, <<Drop(t)>>)
    \o <<Rename(new, t)>>

(* Mutant: the copy is made without a look whether it exists.              *)
RebuildBlindly(t, new, cols, fk) ==
  <<Create(new, cols, fk)>>
    \o When(<<t>>, <<Copy(t, new, "all"), Drop(t)>>)
    \o <<Rename(new, t)>>

(* A rebuild by execute(): the copy opens a transaction that the DROP, the *)
(* RENAME and whatever follows join.                                       *)
Rebuild(t, new, cols, fk) ==
  Unless(<<new>>, <<Create(new, cols, fk)>>)
    \o When(<<t>>, <<Copy(t, new, "all"), Drop(t)>>)
    \o <<Rename(new, t)>>

_migration_11_collector_run_running_status ==
  Rebuild("collector_runs", "collector_runs_new",
          RunColumns \cup {"provider_id", "parser_version", "source_payload"}, {})
    \o <<IndexIf("idx_collector_runs_source", "collector_runs", {})>>

_migration_12_mapping_resolution_audit ==
  AddColumns(<<"source_team_mappings", "source_competition_mappings">>,
             <<"resolution_method", "confidence", "created_at">>, Null)

_migration_13_odds_snapshot_and_raw_payload_foreign_keys ==
  Rebuild("odds_snapshots", "odds_snapshots_new",
          OddsColumns \cup {"market_phase", "collector_run_id"}, {"collector_runs"})
    \o <<IndexIf("idx_odds_event", "odds_snapshots", {}),
         IndexIf("idx_odds_event_time", "odds_snapshots", {"observed_at"}),
         IndexIf("idx_odds_event_market", "odds_snapshots", MarketColumns \cup {"market_phase"}),
         IndexIf("uq_odds_snapshot_dedupe", "odds_snapshots",
                 MarketColumns \cup {"market_phase", "observed_at"})>>
    \o Rebuild("raw_payloads", "raw_payloads_new", PayloadColumns, {"collector_runs"})
    \o <<IndexIf("idx_raw_payloads_run", "raw_payloads", {"collector_run_id"})>>

_migration_14_signal_history ==
  Script(<<CreateIf("signal_history", {"id"}, {"signals"}),
           IndexIf("idx_signal_history_signal", "signal_history", {})>>)

(* Mutant: the values are filled in only along with the new column.        *)
PeaksWithTheColumn ==
  Unless(<<"signals", "peak_edge_percent">>,
         <<[op |-> "add column", script |-> FALSE, table |-> "signals",
            column |-> "peak_edge_percent", default |-> "0"], Change("peaks")>>)

_migration_15_signal_peak_edge_percent ==
  _add_column_if_missing("signals", "peak_edge_percent", "0") \o <<Change("peaks")>>

_migration_16_retention_cleanup_indexes ==
  Script(<<IndexIf("idx_odds_snapshots_observed_at", "odds_snapshots", {"observed_at"}),
           IndexIf("idx_raw_payloads_received_at", "raw_payloads", {}),
           IndexIf("idx_movements_detected_at", "movements", {}),
           IndexIf("idx_signal_history_recorded_at", "signal_history", {}),
           IndexIf("idx_collector_runs_finished_at", "collector_runs", {})>>)

_migration_17_odds_snapshot_quote_time ==
  _add_column_if_missing("odds_snapshots", "quote_time", "")
    \o <<Change("quote times"), IndexIf("idx_odds_latest", "odds_snapshots", {"quote_time"})>>

_migration_18_source_id_mappings ==
  Script(
    <<CreateIf("source_team_id_mappings", {"id", "source", "team_id"}, {"teams"}),
      CreateIf("source_competition_id_mappings", {"id", "source", "competition_id"},
               {"competitions"})>>)

(* A rebuild by executescript(), guarded only by a test for one of the new *)
(* columns made before the script starts: every statement is durable on    *)
(* its own.                                                                *)
ScriptRebuild(t, column, copy, cols, fk, name) ==
  Unless(<<t, column>>,
         Script(<<Create(copy, cols, fk), Copy(t, copy, name), Drop(t), Rename(copy, t)>>))

IdentityColumns ==
  FlattenSeq([i \in 1 .. 2 |->
      LET t == <<"teams", "competitions">>[i]
      IN AddColumns(<<t>>, <<"reference_provider", "reference_provider_id">>, Null)
           \o _add_column_if_missing(t, "identity_status", "PROVISIONAL")])
    \o _add_column_if_missing("competitions", "country", Null)
    \o <<DropIndex("uq_competitions_name_sport"),
         IndexIf("uq_competitions_name_sport_country", "competitions", {"country"}),
         IndexIf("uq_teams_reference_identity", "teams", {"reference_provider_id"}),
         IndexIf("uq_competitions_reference_identity", "competitions", {"reference_provider_id"})>>

TrustColumns ==
  FlattenSeq([i \in 1 .. 2 |->
      LET t == <<"source_team_mappings", "source_competition_mappings">>[i]
      IN _add_column_if_missing(t, "trust_state", "UNVERIFIED")
           \o _add_column_if_missing(t, "resolver_version", Null)])
    \o <<Change("trust team names"), Change("trust competition names")>>

IdRebuilds ==
  ScriptRebuild("source_team_id_mappings", "sport", "source_team_id_mappings_v19",
                {"id", "source", "team_id", "sport", "trust_state"}, {"teams"}, "legacy ids")
    \o ScriptRebuild("source_competition_id_mappings", "sport",
                     "source_competition_id_mappings_v19",
                     {"id", "source", "competition_id", "sport", "trust_state"},
                     {"competitions"}, "legacy ids")
    \o ScriptRebuild("source_event_mappings", "trust_state", "source_event_mappings_v19",
                     {"id", "source", "event_id", "trust_state"}, {"events"}, "legacy events")

_migration_19_reference_identity_and_mapping_trust ==
  IdentityColumns \o TrustColumns \o IdRebuilds
    \o <<Change("reference teams"), Change("reference competitions")>>

NameRebuilds ==
  ScriptRebuild("source_team_mappings", "competition_id", "source_team_mappings_v20",
                {"id", "source", "team_id", "competition_id", "resolution_method",
                 "confidence", "created_at", "trust_state", "resolver_version"},
                {"teams"}, "no context")
    \o ScriptRebuild("source_competition_mappings", "country_key",
                     "source_competition_mappings_v20",
                     {"id", "source", "competition_id", "country_key", "resolution_method",
                      "confidence", "created_at", "trust_state", "resolver_version"},
                     {"competitions"}, "no context")

_migration_20_contextual_fixture_identity ==
  <<DropIndex("uq_teams_name_sport"), IndexIf("idx_teams_name_sport", "teams", {})>>
    \o Script(<<CreateIf("team_competitions", {"id"}, {"teams", "competitions"}),
                IndexIf("idx_team_competitions_competition", "team_competitions", {})>>)
    \o <<Change("memberships")>>
    \o NameRebuilds
    \o AddColumns(<<"events">>,
                  <<"start_time_provider", "reference_provider", "reference_provider_id">>, Null)
    \o <<IndexIf("uq_events_reference_identity", "events", {"reference_provider_id"}),
         Change("conflicting events"), Change("reference events"),
         Change("distrust fuzzy names"), Change("conflicting teams"),
         Change("conflicting competitions")>>

_migration_21_rejection_audit_trail ==
  AddColumns(<<"source_team_mappings", "source_competition_mappings", "source_team_id_mappings",
               "source_competition_id_mappings", "source_event_mappings">>,
             <<"rejection_reason", "rejected_at">>, Null)

MIGRATIONS ==
  <<_migration_1_initial_schema, _migration_2_full_market_identity, _migration_3_competitions,
    _migration_4_market_phase, _migration_5_event_competition_id,
    _migration_6_collector_run_provenance, _migration_7_bookmaker_catalog,
    _migration_8_odds_snapshot_provenance, _migration_9_event_status,
    _migration_10_source_event_mappings, _migration_11_collector_run_running_status,
    _migration_12_mapping_resolution_audit,
    _migration_13_odds_snapshot_and_raw_payload_foreign_keys, _migration_14_signal_history,
    _migration_15_signal_peak_edge_percent, _migration_16_retention_cleanup_indexes,
    _migration_17_odds_snapshot_quote_time, _migration_18_source_id_mappings,
    _migration_19_reference_identity_and_mapping_trust,
    _migration_20_contextual_fixture_identity, _migration_21_rejection_audit_trail>>

-----------------------------------------------------------------------------
(* What INSERT and UPDATE do to a file d.                                  *)

Rows(d, t) == d.tables[t].rows
Update(d, t, NewRow(_)) == [d EXCEPT !.tables[t].rows = {NewRow(r) : r \in @}]
HasColumn(d, t, c) == t \in DOMAIN d.tables /\ c \in d.tables[t].cols

(* INSERT INTO competitions ... WHERE NOT EXISTS: one row per league that  *)
(* has none; a competition's id stands for its name.                       *)
RegisterLeagues(d) ==
  LET known == {c["id"] : c \in Rows(d, "competitions")}
      New(league) == [c \in d.tables["competitions"].cols |-> IF c = "id" THEN league ELSE Null]
  IN [d EXCEPT !.tables["competitions"].rows =
        @ \cup {New(e["league"]) : e \in {x \in Rows(d, "events") : x["league"] \notin known}}]

LinkLeagues(d) ==
  Update(d, "events",
         LAMBDA e : IF e["competition_id"] = Null THEN [e EXCEPT !["competition_id"] = e["league"]]
                                                  ELSE e)

TrustNames(d, t) ==
  Update(d, t, LAMBDA m :
    [m EXCEPT !["trust_state"] =
                 IF \/ m["source"] = "api-football"
                    \/ m["resolution_method"] \in {"exact", "alias", "unknown"}
                 THEN "VERIFIED" ELSE "UNVERIFIED",
              !["resolver_version"] = IF @ = Null THEN "1" ELSE @])

DistrustFuzzyNames(d, t) ==
  Update(d, t, LAMBDA m : IF m["resolution_method"] \in {"fuzzy", "ambiguous"}
                          THEN [m EXCEPT !["trust_state"] = "UNVERIFIED"] ELSE m)

(* The API-Football ids of an entity: rows of the mapping table that refer *)
(* to it.                                                                  *)
ReferenceIds(d, mappings, column, entity) ==
  {m["id"] : m \in {x \in Rows(d, mappings) : x["source"] = "api-football" /\ x[column] = entity}}

ReferenceEntities(d, t, mappings, column) ==
  Update(d, t, LAMBDA e :
    LET ids == ReferenceIds(d, mappings, column, e["id"])
    IN IF ids = {} THEN e
       ELSE [e EXCEPT !["reference_provider"] = "api-football",
                      !["reference_provider_id"] = CHOOSE i \in ids : TRUE,
                      !["identity_status"] = "REFERENCE"])

VerifiedEventIds(d, event) ==
  {m["id"] : m \in {x \in Rows(d, "source_event_mappings") :
      x["source"] = "api-football" /\ x["event_id"] = event /\ x["trust_state"] = "VERIFIED"}}

ReferenceEvents(d) ==
  Update(d, "events", LAMBDA e :
    LET ids == VerifiedEventIds(d, e["id"])
    IN IF ids = {} THEN e
       ELSE [e EXCEPT !["reference_provider"] = "api-football",
                      !["reference_provider_id"] = CHOOSE i \in ids : TRUE,
                      !["start_time_provider"] = "api-football"])

Suspect(d, mappings, column, entities) ==
  Update(d, mappings, LAMBDA m : IF m["source"] = "api-football" /\ m[column] \in entities
                                 THEN [m EXCEPT !["trust_state"] = "SUSPECT"] ELSE m)

(* The loop over conflicting events, whose UPDATEs share a transaction.    *)
QuarantineEvents(d) ==
  LET torn == {e["id"] : e \in {x \in Rows(d, "events") :
                 Cardinality(VerifiedEventIds(d, x["id"])) > 1}}
  IN Update(Suspect(d, "source_event_mappings", "event_id", torn), "events",
            LAMBDA e : IF e["id"] \in torn
                       THEN [e EXCEPT !["reference_provider"] = Null,
                                      !["reference_provider_id"] = Null,
                                      !["start_time_provider"] = Null]
                       ELSE e)

QuarantineEntities(d, t, mappings, column) ==
  LET torn == {e["id"] : e \in {x \in Rows(d, t) :
                 Cardinality(ReferenceIds(d, mappings, column, x["id"])) > 1}}
  IN Update(Suspect(d, mappings, column, torn), t,
            LAMBDA e : IF e["id"] \in torn THEN [e EXCEPT !["identity_status"] = "CONFLICT"] ELSE e)

(* INSERT OR IGNORE INTO team_competitions, from both teams of every event *)
(* that has a competition.                                                 *)
Memberships(d) ==
  LET linked == {e \in Rows(d, "events") : e["competition_id"] # Null}
      pairs == UNION {{<<e["home_team_id"], e["competition_id"]>>,
                       <<e["away_team_id"], e["competition_id"]>>} : e \in linked}
  IN [d EXCEPT !.tables["team_competitions"].rows = @ \cup {[c \in {"id"} |-> p] : p \in pairs}]

Changed(d, name) ==
  CASE name = "register leagues" -> RegisterLeagues(d)
    [] name = "link leagues" -> LinkLeagues(d)
    [] name = "peaks" ->
         Update(d, "signals", LAMBDA s : [s EXCEPT !["peak_edge_percent"] = s["edge_percent"]])
    [] name = "quote times" ->
         Update(d, "odds_snapshots", LAMBDA o :
           [o EXCEPT !["quote_time"] = IF o["source_timestamp"] = Null THEN o["observed_at"]
                                                                      ELSE o["source_timestamp"]])
    [] name = "trust team names" -> TrustNames(d, "source_team_mappings")
    [] name = "trust competition names" -> TrustNames(d, "source_competition_mappings")
    [] name = "reference teams" ->
         ReferenceEntities(d, "teams", "source_team_id_mappings", "team_id")
    [] name = "reference competitions" ->
         ReferenceEntities(d, "competitions", "source_competition_id_mappings", "competition_id")
    [] name = "memberships" -> Memberships(d)
    [] name = "conflicting events" -> QuarantineEvents(d)
    [] name = "reference events" -> ReferenceEvents(d)
    [] name = "distrust fuzzy names" ->
         DistrustFuzzyNames(DistrustFuzzyNames(d, "source_team_mappings"),
                            "source_competition_mappings")
    [] name = "conflicting teams" ->
         QuarantineEntities(d, "teams", "source_team_id_mappings", "team_id")
    [] name = "conflicting competitions" ->
         QuarantineEntities(d, "competitions", "source_competition_id_mappings", "competition_id")

(* The columns without which SQLite refuses the statement.                 *)
Needs(name) ==
  CASE name = "link leagues" -> {<<"events", "competition_id">>}
    [] name = "peaks" -> {<<"signals", "peak_edge_percent">>}
    [] name = "quote times" -> {<<"odds_snapshots", "quote_time">>}
    [] name = "trust team names" -> {<<"source_team_mappings", "trust_state">>}
    [] name = "trust competition names" -> {<<"source_competition_mappings", "trust_state">>}
    [] name \in {"reference teams", "conflicting teams"} ->
         {<<"source_team_id_mappings", "sport">>}
    [] name \in {"reference competitions", "conflicting competitions"} ->
         {<<"source_competition_id_mappings", "sport">>}
    [] name \in {"conflicting events", "reference events"} ->
         {<<"source_event_mappings", "trust_state">>, <<"events", "reference_provider">>}
    [] name = "distrust fuzzy names" -> {<<"source_team_mappings", "trust_state">>,
                                         <<"source_competition_mappings", "trust_state">>}
    [] OTHER -> {}

(* A row as the INSERT ... SELECT of a rebuild carries it over.            *)
Carried(r, name, to, cols) ==
  CASE name = "all" -> r
    [] name = "legacy ids" ->
         [c \in cols |-> CASE c = "sport" -> "football"
                           [] c = "trust_state" -> IF r["source"] = "api-football"
                                                   THEN "VERIFIED" ELSE "UNVERIFIED"
                           [] OTHER -> r[c]]
    [] name = "legacy events" ->
         [c \in cols |-> IF c = "trust_state" THEN "UNVERIFIED" ELSE r[c]]
    [] name = "no context" ->
         [c \in cols |-> IF <<to, c>> \in {<<"source_team_mappings_v20", "competition_id">>,
                                           <<"source_competition_mappings_v20", "country_key">>}
                         THEN "" ELSE r[c]]

-----------------------------------------------------------------------------
(* SQLite: whether a statement succeeds on a file, and what it does.       *)

Exists(d, t) == t \in DOMAIN d.tables

Succeeds(s, d) ==
  CASE s.op = "create" -> ~Exists(d, s.table)
    [] s.op = "add column" -> Exists(d, s.table) /\ s.column \notin d.tables[s.table].cols
    [] s.op = "drop" ->
         (* foreign_keys = ON: no row may refer to a table that is dropped *)
         /\ Exists(d, s.table)
         /\ \A t \in DOMAIN d.tables : s.table \in d.tables[t].fk => Rows(d, t) = {}
    [] s.op = "rename" -> Exists(d, s.table) /\ ~Exists(d, s.to)
    [] s.op = "index" ->
         /\ s.index \notin DOMAIN d.indexes
         /\ Exists(d, s.table) /\ s.by \subseteq d.tables[s.table].cols
    [] s.op = "index if" ->
         s.index \in DOMAIN d.indexes \/ (Exists(d, s.table) /\ s.by \subseteq d.tables[s.table].cols)
    [] s.op = "copy" ->
         /\ Exists(d, s.table) /\ Exists(d, s.to)
         /\ s.change = "all" => d.tables[s.table].cols = d.tables[s.to].cols
    [] s.op = "change" -> \A n \in Needs(s.change) : HasColumn(d, n[1], n[2])
    [] OTHER -> TRUE

Without(f, names) == [x \in DOMAIN f \ names |-> f[x]]

Executed(s, d) ==
  CASE s.op \in {"create", "create if"} ->
         IF Exists(d, s.table) THEN d
         ELSE [d EXCEPT !.tables = @ @@ (s.table :> [cols |-> s.cols, fk |-> s.fk, rows |-> {}])]
    [] s.op = "add column" ->
         [d EXCEPT !.tables[s.table].cols = @ \cup {s.column},
                   !.tables[s.table].rows = {r @@ (s.column :> s.default) : r \in @}]
    [] s.op = "drop" ->
         [d EXCEPT !.tables = Without(@, {s.table}),
                   !.indexes = Without(@, {i \in DOMAIN @ : @[i].on = s.table})]
    [] s.op = "rename" ->
         [d EXCEPT !.tables = Without(@, {s.table}) @@ (s.to :> @[s.table]),
                   !.indexes = [i \in DOMAIN @ |-> IF @[i].on = s.table
                                                   THEN [@[i] EXCEPT !.on = s.to] ELSE @[i]]]
    [] s.op \in {"index", "index if"} ->
         [d EXCEPT !.indexes = @ @@ (s.index :> [on |-> s.table, by |-> s.by])]
    [] s.op = "drop index" -> [d EXCEPT !.indexes = Without(@, {s.index})]
    [] s.op = "copy" ->
         LET there == {r["id"] : r \in Rows(d, s.to)}
             rows == {r \in Rows(d, s.table) : r["id"] \notin there}
         IN [d EXCEPT !.tables[s.to].rows =
               @ \cup {Carried(r, s.change, s.to, d.tables[s.to].cols) : r \in rows}]
    [] s.op = "change" -> Changed(d, s.change)
    [] s.op = "version" -> [d EXCEPT !.version = s.version]

(* A test of Python's: how many of the following statements it skips.      *)
Skipped(s, d) ==
  LET found == IF Len(s.what) = 1 THEN Exists(d, s.what[1]) ELSE HasColumn(d, s.what[1], s.what[2])
  IN IF found = s.holds THEN 0 ELSE s.body

-----------------------------------------------------------------------------
(* A startup without a crash, as one function of the file.                 *)

(* A migration, and the PRAGMA user_version that records it.               *)
Program == [v \in 1 .. Latest |->
              MIGRATIONS[v] \o <<[op |-> "version", script |-> FALSE, version |-> v]>>]

(* Migrations from + 1 .. to, run one after the other on file d.           *)
Uninterrupted(d, from, to) ==
  FoldLeft(LAMBDA acc, s :
             IF acc.skip > 0 THEN [acc EXCEPT !.skip = @ - 1]
             ELSE IF s.op = "test" THEN [acc EXCEPT !.skip = Skipped(s, acc.file)]
             ELSE [acc EXCEPT !.file = Executed(s, @)],
           [file |-> d, skip |-> 0],
           FlattenSeq([i \in 1 .. to - from |-> Program[from + i]])).file

NoTables == [t \in {} |-> {}]
Empty == [version |-> 0, tables |-> NoTables, indexes |-> NoTables]

(* A file that a release with v migrations created and filled.             *)
Left == [v \in Deployed |->
  LET d == Uninterrupted(Empty, 0, v)
  IN [d EXCEPT !.tables = [t \in DOMAIN @ |->
        [@[t] EXCEPT !.rows = {[c \in d.tables[t].cols |-> r[c]] : r \in Legacy(t, v)}]]]]

Ids(d, t) == IF Exists(d, t) THEN {r["id"] : r \in Rows(d, t)} ELSE {}

(* What a startup that nothing disturbs makes of it.                       *)
Migrated == [v \in Deployed |-> Uninterrupted(Left[v], v, Latest)]

-----------------------------------------------------------------------------
VARIABLES
  origin,      \* the version the file was left at
  disk,        \* the file, as committed
  at,          \* at[p]: "down", "migrating", "up", or "raised" (a startup that failed)
  release,     \* release[p]: the migrations that p's code knows of, 0 when it is down
  current,     \* current[p]: the migration p is in (0: none)
  line,        \* line[p]: its next statement
  tx,          \* tx[p]: <<>>, or <<d>> where d is the file as p's transaction sees it
  crashes, writes,
  owed,        \* the rows, <<table, id>>, written since, unless a rebuild had a copy of
               \* their table
  overlapped   \* two startups migrated at the same time

control == <<at, release, current, line>>
vars == <<origin, disk, control, tx, crashes, writes, owed, overlapped>>

TypeOK ==
  /\ origin \in Deployed
  /\ disk.version \in 0 .. Latest
  /\ \A t \in DOMAIN disk.tables :
       \A r \in disk.tables[t].rows : DOMAIN r = disk.tables[t].cols
  /\ at \in [Processes -> {"down", "migrating", "up", "raised"}]
  /\ release \in [Processes -> 0 .. Latest]
  /\ current \in [Processes -> 0 .. Latest]
  /\ \A p \in Processes :
       /\ at[p] = "migrating" => line[p] \in DOMAIN Program[current[p]]
       /\ Len(tx[p]) \in {0, 1}
       /\ tx[p] # <<>> => at[p] = "migrating"
  (* SQLite has one writer.                                                *)
  /\ \A p, q \in Processes : tx[p] # <<>> /\ tx[q] # <<>> => p = q
  /\ crashes \in 0 .. MaxCrashes /\ writes \in 0 .. MaxWrites
  /\ overlapped \in BOOLEAN

Idle == [p \in Processes |-> 0]

Init ==
  /\ origin \in Deployed
  /\ disk = Left[origin]
  (* At most one process still runs the release that left the file.        *)
  /\ \E old \in SUBSET Processes :
       /\ Cardinality(old) <= 1 /\ (origin = 0 => old = {})
       /\ at = [p \in Processes |-> IF p \in old THEN "up" ELSE "down"]
       /\ release = [p \in Processes |-> IF p \in old THEN origin ELSE 0]
  /\ current = Idle /\ line = Idle
  /\ tx = [p \in Processes |-> <<>>]
  /\ crashes = 0 /\ writes = 0
  /\ owed = {}
  /\ overlapped = FALSE

-----------------------------------------------------------------------------
(* The file as p sees it, and p's next statement.                          *)
View(p) == IF tx[p] = <<>> THEN disk ELSE tx[p][1]
Statement(p) == Program[current[p]][line[p]]

(* Another process holds the write lock, and the statement needs it.       *)
Blocked(p) ==
  /\ \E q \in Processes \ {p} : tx[q] # <<>>
  /\ Statement(p).op \in {"create if", "index if", "drop index"} =>
       Executed(Statement(p), View(p)) # View(p)

(* p starts: it reads user_version once, and enters the first migration it *)
(* lacks.                                                                  *)
Start(p) ==
  /\ at[p] \in {"down", "raised"}
  /\ (\E q \in Processes : at[q] = "migrating") =>
       origin \in Together /\ crashes = 0 /\ writes = 0
  /\ IF disk.version < Latest
     THEN /\ at' = [at EXCEPT ![p] = "migrating"]
          /\ current' = [current EXCEPT ![p] = disk.version + 1]
          /\ line' = [line EXCEPT ![p] = 1]
          /\ overlapped' = (overlapped \/ \E q \in Processes \ {p} : at[q] = "migrating")
          /\ UNCHANGED release
     ELSE /\ at' = [at EXCEPT ![p] = "up"]
          /\ release' = [release EXCEPT ![p] = Latest]
          /\ UNCHANGED <<current, line, overlapped>>
  /\ UNCHANGED <<origin, disk, tx, crashes, writes, owed>>

Test(p) ==
  /\ at[p] = "migrating" /\ Statement(p).op = "test"
  /\ line' = [line EXCEPT ![p] = @ + 1 + Skipped(Statement(p), View(p))]
  /\ UNCHANGED <<origin, disk, at, release, current, tx, crashes, writes, owed, overlapped>>

(* executescript() commits what is pending before its first statement.     *)
CommitBeforeScript(p) ==
  /\ at[p] = "migrating" /\ Statement(p).op # "test" /\ Statement(p).script
  /\ tx[p] # <<>>
  /\ disk' = tx[p][1]
  /\ tx' = [tx EXCEPT ![p] = <<>>]
  /\ UNCHANGED <<origin, control, crashes, writes, owed, overlapped>>

Runs(p) ==
  /\ at[p] = "migrating" /\ Statement(p).op \notin {"test", "version"}
  /\ Statement(p).script => tx[p] = <<>>
  /\ ~Blocked(p)

(* One statement: inside the open transaction, or opening one, or durable  *)
(* at once.                                                                *)
Execute(p) ==
  /\ Runs(p)
  /\ Succeeds(Statement(p), View(p))
  /\ LET s == Statement(p)
         d == Executed(s, View(p))
     IN IF tx[p] # <<>> \/ (s.op \in {"change", "copy"} /\ ~s.script)
        THEN tx' = [tx EXCEPT ![p] = <<d>>] /\ UNCHANGED disk
        ELSE disk' = d /\ UNCHANGED tx
  /\ line' = [line EXCEPT ![p] = @ + 1]
  /\ UNCHANGED <<origin, at, release, current, crashes, writes, owed, overlapped>>

(* The next migration of the list, whatever the file says now.             *)
Advance(p) ==
  LET last == current[p] = Latest
  IN /\ current' = [current EXCEPT ![p] = IF last THEN 0 ELSE @ + 1]
     /\ line' = [line EXCEPT ![p] = IF last THEN 0 ELSE 1]
     /\ at' = [at EXCEPT ![p] = IF last THEN "up" ELSE @]
     /\ release' = [release EXCEPT ![p] = IF last THEN Latest ELSE @]

Records(p) ==
  /\ at[p] = "migrating" /\ Statement(p).op = "version" /\ ~Blocked(p)
  /\ Advance(p)
  /\ UNCHANGED <<origin, crashes, writes, owed, overlapped>>

(* Mutant: the version is written, and nothing committed.                  *)
RecordWithoutCommit(p) ==
  /\ Records(p)
  /\ tx' = [tx EXCEPT ![p] = <<Executed(Statement(p), View(p))>>]
  /\ UNCHANGED disk

(* PRAGMA user_version = v joins the open transaction, and commit() ends   *)
(* it.                                                                     *)
Record(p) ==
  /\ Records(p)
  /\ disk' = Executed(Statement(p), View(p))
  /\ tx' = [tx EXCEPT ![p] = <<>>]

Gone(p, how) ==
  /\ at' = [at EXCEPT ![p] = how]
  /\ release' = [release EXCEPT ![p] = 0]
  /\ current' = [current EXCEPT ![p] = 0]
  /\ line' = [line EXCEPT ![p] = 0]
  /\ tx' = [tx EXCEPT ![p] = <<>>]

(* SQLite refuses the statement: the exception leaves migrate(), the       *)
(* process ends, its transaction is rolled back.                           *)
Raise(p) ==
  /\ Runs(p)
  /\ ~Succeeds(Statement(p), View(p))
  /\ Gone(p, "raised")
  /\ UNCHANGED <<origin, disk, crashes, writes, owed, overlapped>>

(* The lock was not released within the connection's timeout.              *)
TimeOut(p) ==
  /\ at[p] = "migrating" /\ Statement(p).op # "test" /\ Blocked(p)
  /\ Gone(p, "raised")
  /\ UNCHANGED <<origin, disk, crashes, writes, owed, overlapped>>

Crash(p) ==
  /\ at[p] = "migrating" /\ crashes < MaxCrashes /\ ~overlapped
  /\ Gone(p, "down")
  /\ crashes' = crashes + 1
  /\ UNCHANGED <<origin, disk, writes, owed, overlapped>>

(* A process that is up ends.                                              *)
Stop(p) ==
  /\ at[p] = "up"
  /\ Gone(p, "down")
  /\ UNCHANGED <<origin, disk, crashes, writes, owed, overlapped>>

(* The names under which a rebuild keeps its copy of a table.              *)
CopyOf(t) ==
  CASE t = "collector_runs" -> "collector_runs_new"
    [] t = "odds_snapshots" -> "odds_snapshots_new"
    [] t = "raw_payloads" -> "raw_payloads_new"
    [] t = "source_team_id_mappings" -> "source_team_id_mappings_v19"
    [] t = "source_competition_id_mappings" -> "source_competition_id_mappings_v19"
    [] t = "source_event_mappings" -> "source_event_mappings_v19"
    [] t = "source_team_mappings" -> "source_team_mappings_v20"
    [] t = "source_competition_mappings" -> "source_competition_mappings_v20"
    [] OTHER -> t

Schema == [v \in 0 .. Latest |-> Uninterrupted(Empty, 0, v)]

(* p writes a row with the columns its release knows; a rebuilt id table   *)
(* has NOT NULL columns that an older release does not fill.               *)
Accepts(v, t) ==
  /\ Exists(Schema[v], t) /\ Exists(disk, t)
  /\ Schema[v].tables[t].cols \subseteq disk.tables[t].cols
  /\ "sport" \in disk.tables[t].cols => "sport" \in Schema[v].tables[t].cols

(* A mapping of the reference provider would make a further reference id.  *)
Foreign(r) == "source" \in DOMAIN r => r["source"] # "api-football"

Write(p) ==
  /\ at[p] = "up" /\ writes < MaxWrites /\ ~overlapped
  /\ \A q \in Processes : tx[q] = <<>>
  /\ \E t \in Live :
       /\ Accepts(release[p], t)
       /\ \E r \in {x \in Legacy(t, release[p]) : Foreign(x)} :
            LET row == [c \in disk.tables[t].cols |->
                          IF c = "id" THEN <<"new1", "new2">>[writes + 1]
                          ELSE IF c \in Schema[release[p]].tables[t].cols THEN r[c] ELSE Null]
            IN /\ disk' = [disk EXCEPT !.tables[t].rows = @ \cup {row}]
               /\ owed' = IF Exists(disk, CopyOf(t)) THEN owed ELSE owed \cup {<<t, row["id"]>>}
  /\ writes' = writes + 1
  /\ UNCHANGED <<origin, control, tx, crashes, overlapped>>

Next ==
  \E p \in Processes :
    \/ Start(p) \/ Test(p) \/ CommitBeforeScript(p) \/ Execute(p) \/ Record(p)
    \/ Raise(p) \/ TimeOut(p) \/ Crash(p) \/ Stop(p) \/ Write(p)

Spec == Init /\ [][Next]_vars

-----------------------------------------------------------------------------
(* The rows of every table are in it or, while a rebuild is under way or   *)
(* was cut short, in the copy that is to replace it, however startups,     *)
(* crashes and an older process interleave.  Excepted is a row that an     *)
(* older process wrote after a rebuild had made its copy: it may go with   *)
(* the table that the rebuild drops.                                       *)
RowsSurvive ==
  /\ \A t \in DOMAIN Left[origin].tables :
       Ids(Left[origin], t) \subseteq Ids(disk, t) \cup Ids(disk, CopyOf(t))
  /\ \A w \in owed : w[2] \in Ids(disk, w[1]) \cup Ids(disk, CopyOf(w[1]))

(* A startup that comes up, after however many that were killed, finds the *)
(* schema and the rows that an uninterrupted one would have left: a retry  *)
(* converges.  Two startups that migrate at the same time are excepted.    *)
RetriesConverge ==
  \A p \in Processes :
    at[p] = "up" /\ release[p] = Latest /\ ~overlapped =>
      /\ disk.version = Latest
      /\ disk.indexes = Migrated[origin].indexes
      /\ DOMAIN disk.tables = DOMAIN Migrated[origin].tables
      /\ \A t \in DOMAIN disk.tables :
           /\ disk.tables[t].cols = Migrated[origin].tables[t].cols
           /\ disk.tables[t].fk = Migrated[origin].tables[t].fk
           /\ Rows(Migrated[origin], t) \subseteq Rows(disk, t)

(* What a kill may cost: a startup fails only when an earlier one died in  *)
(* a rebuild by executescript() and left its copy behind.                  *)
OnlyRebuildsGetStuck ==
  \A p \in Processes :
    at[p] = "raised" /\ ~overlapped =>
      \E t \in {"source_team_id_mappings_v19", "source_competition_id_mappings_v19",
                "source_event_mappings_v19", "source_team_mappings_v20",
                "source_competition_mappings_v20"} : Exists(disk, t)

(* migrations.py, of every migration: "a crash between any two steps       *)
(* converges to the same end state on retry".                              *)
RetriesComeUp == \A p \in Processes : at[p] = "raised" => overlapped
=============================================================================
