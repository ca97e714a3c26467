---------------------------- MODULE FixtureCatalog ----------------------------
(***************************************************************************)
(* storage/fixture_catalog.py: the registry that decides which canonical   *)
(* competition, teams and event a provider's fixture is about, and creates *)
(* what it does not know.  What it decided is kept in five mapping tables  *)
(* with a trust state, and read again the next time.                       *)
(*                                                                         *)
(* match and the six operations of the reviewer (verify_... and reject_...)*)
(* are one transaction each, begun with BEGIN IMMEDIATE: one step.  Inside *)
(* a step an operator takes the tables c and returns the tables after it;  *)
(* c.ok becomes FALSE when a statement violates a unique index, which      *)
(* rolls the whole transaction back.                                       *)
(*                                                                         *)
(* There is one sport.  A name stands for all spellings with the same      *)
(* _comparison_key, after token expansion.  Ids are numbers in the order   *)
(* of creation.  Times of audit (created_at, verified_at, ...) are left    *)
(* out, and so is resolution_method but for 'manual'.                      *)
(***************************************************************************)
EXTENDS Integers, FiniteSets, FiniteSetsExt

CONSTANTS
  Provider,
  Reference,        \* REFERENCE_PROVIDER_ID
  Name,             \* names of teams and of leagues
  Alias,            \* curated aliases: a function from some names to names
  Ratio,            \* token_sort_ratio of two names, 0 if their qualifiers differ
  FuzzyThreshold,
  AmbiguityMargin,
  Country,
  SourceId,         \* provider ids of teams, leagues and fixtures
  Tolerance,        \* start_time_tolerance
  Sighting,         \* what the providers may report
  Reviewed,         \* the sightings a reviewer is asked about
  Called,           \* what a name stands for, whoever writes it: known to the curators only
  League,           \* the league of each real fixture, known to nobody
  MaxTeams, MaxCompetitions, MaxEvents, \* bound the rows
  MaxReviews        \* bounds the reviewer's decisions

None == "none"
AnyCompetition == 0     \* competition_id = '' of a manual mapping

ASSUME CatalogAssumption ==
  /\ Reference \in Provider
  /\ None \notin Name \cup Country \cup SourceId
  /\ DOMAIN Alias \subseteq Name /\ \A n \in DOMAIN Alias : Alias[n] \in Name
  /\ Ratio \in [Name \X Name -> 0 .. 100]
  /\ FuzzyThreshold \in 1 .. 100 /\ AmbiguityMargin \in 1 .. 100 /\ Tolerance \in Nat
  /\ Reviewed \subseteq Sighting /\ MaxReviews \in Nat
  /\ \A s \in Sighting :
       /\ s.provider \in Provider /\ s.start \in Nat
       /\ {s.league, s.home, s.away} \subseteq Name /\ s.home # s.away
       /\ s.country \in Country \cup {None}
       /\ {s.leagueId, s.homeId, s.awayId, s.eventId} \subseteq SourceId \cup {None}

VARIABLES
  cat,      \* the tables
  refused,  \* the sightings whose transaction was last rolled back
  about,    \* which real fixtures each event stands for (history variable)
  reviews   \* the number of the reviewer's decisions

vars == <<cat, refused, about, reviews>>

Trust == {"VERIFIED", "UNVERIFIED", "SUSPECT", "REJECTED"}
Closed == {"SUSPECT", "REJECTED"}

NoRows == [k \in {} |-> None]
Put(f, k, row) == [x \in DOMAIN f \cup {k} |-> IF x = k THEN row ELSE f[x]]
NextId(f) == Cardinality(DOMAIN f) + 1

Init ==
  /\ cat = [ok |-> TRUE,
            competitions |-> NoRows,  \* id -> [name, country, ref]
            teams |-> NoRows,         \* id -> [name, ref]
            plays |-> {},             \* team_competitions
            events |-> NoRows,        \* id -> [competition, home, away, start, by, ref]
            teamNames |-> NoRows,     \* source_team_mappings
            teamIds |-> NoRows,       \* source_team_id_mappings
            leagueNames |-> NoRows,   \* source_competition_mappings
            leagueIds |-> NoRows,     \* source_competition_id_mappings
            eventIds |-> NoRows]      \* source_event_mappings
  /\ refused = {}
  /\ about = NoRows
  /\ reviews = 0

-----------------------------------------------------------------------------
(* names_are_similar.                                                      *)
Similar(a, b) == a = b \/ Ratio[a, b] >= FuzzyThreshold

(* TeamNormalizer.normalize: an alias wins even over an equal name, and a  *)
(* merely similar name is no identity ("fuzzy" stands for "ambiguous" too).*)
Normalize(raw, pool) ==
  IF raw \in DOMAIN Alias THEN [method |-> "alias", name |-> Alias[raw]]
  ELSE IF raw \in pool THEN [method |-> "exact", name |-> raw]
  ELSE IF \E n \in pool : Similar(raw, n) THEN [method |-> "fuzzy", name |-> raw]
  ELSE [method |-> "unknown", name |-> raw]

TrustFor(method) == IF method = "fuzzy" THEN "UNVERIFIED" ELSE "VERIFIED"

(* _save_mapping, _save_competition_mapping: only an UNVERIFIED row may be *)
(* learned over.                                                           *)
SaveName(map, key, to, trust) ==
  IF key \in DOMAIN map /\ map[key].trust # "UNVERIFIED" THEN map
  ELSE Put(map, key, [to |-> to, trust |-> trust, manual |-> FALSE])

(* Mutant: a rejected id may be learned again.                             *)
SaveIdOverRejected(map, key, to, raw, trust) ==
  IF key \in DOMAIN map /\ map[key].trust = "SUSPECT" THEN map
  ELSE Put(map, key,
    [to |-> to, trust |-> trust,
     first |-> IF key \in DOMAIN map THEN map[key].first ELSE raw,
     verified |-> IF trust = "VERIFIED" THEN raw
                  ELSE IF key \in DOMAIN map THEN map[key].verified ELSE None])

(* _save_team_id_mapping, _save_competition_id_mapping: a SUSPECT or       *)
(* REJECTED row keeps its target, its trust and its names.                 *)
SaveId(map, key, to, raw, trust) ==
  IF key \in DOMAIN map /\ map[key].trust \in Closed THEN map
  ELSE Put(map, key,
    [to |-> to, trust |-> trust,
     first |-> IF key \in DOMAIN map THEN map[key].first ELSE raw,
     verified |-> IF trust = "VERIFIED" THEN raw
                  ELSE IF key \in DOMAIN map THEN map[key].verified ELSE None])

SaveIdIfAny(map, p, id, to, raw, trust) ==
  IF id = None THEN map ELSE SaveId(map, <<p, id>>, to, raw, trust)

(* _mark_..._mapping_suspect.                                              *)
MarkSuspect(map, key) == [map EXCEPT ![key].trust = "SUSPECT"]

(* What the id of a provider says before its name is looked at: nothing,   *)
(* that it is known and the name still fits, that the name has drifted, or *)
(* that it was quarantined before.                                         *)
IdSays(map, p, id, raw) ==
  IF id = None \/ <<p, id>> \notin DOMAIN map THEN "nothing"
  ELSE LET row == map[<<p, id>>]
           baseline == IF row.verified # None THEN row.verified ELSE row.first IN
       IF row.trust = "VERIFIED" THEN IF Similar(baseline, raw) THEN "known" ELSE "drifted"
       ELSE IF row.trust \in Closed THEN "quarantined"
       ELSE "nothing"

(* _team_has_different_reference_id, _competition_has_...                  *)
OtherReference(row, p, id) ==
  p = Reference /\ id # None /\ row.ref # None /\ row.ref # id

(* A row may carry the reference id only if no other row does.             *)
Unused(table, id, me) == \A k \in DOMAIN table \ {me} : table[k].ref # id
RefOfNewAnyway(table, p, id) == IF p = Reference THEN id ELSE None  \* mutant
RefOfNew(table, p, id) ==
  IF p = Reference /\ id # None /\ Unused(table, id, 0) THEN id ELSE None

-----------------------------------------------------------------------------
(* uq_competitions_name_sport_country.                                     *)
NameTaken(c, name, country, me) ==
  \E k \in DOMAIN c.competitions \ {me} :
    c.competitions[k].name = name /\ c.competitions[k].country = country

(* _create_competition.                                                    *)
CreateCompetition(c, p, name, country, id) ==
  [c EXCEPT !.ok = @ /\ ~ NameTaken(c, name, country, 0),
            !.competitions = Put(@, NextId(@),
              [name |-> name, country |-> country, ref |-> RefOfNew(@, p, id)])]

(* _promote_competition_to_reference.                                      *)
PromoteCompetition(c, p, k, id, country) ==
  LET row == c.competitions[k]
      place == IF country # None THEN country ELSE row.country IN
  IF p = Reference /\ id # None /\ row.ref \in {None, id} /\ Unused(c.competitions, id, k)
  THEN [c EXCEPT !.ok = @ /\ ~ NameTaken(c, row.name, place, k),
                 !.competitions[k] = [name |-> row.name, country |-> place, ref |-> id]]
  ELSE c

(* _find_competition_mapping: the row of this country, else a manual row   *)
(* of none.  At most one competition.                                      *)
MappedLeague(c, p, raw, country) ==
  LET Trusted(key) == key \in DOMAIN c.leagueNames /\ c.leagueNames[key].trust = "VERIFIED"
      own == <<p, raw, country>>
      any == <<p, raw, None>> IN
  IF Trusted(own) THEN {c.leagueNames[own].to}
  ELSE IF Trusted(any) /\ c.leagueNames[any].manual THEN {c.leagueNames[any].to}
  ELSE {}

(* Mutant: competitions of all countries are candidates.                   *)
CompetitionsAnywhere(c, country) == DOMAIN c.competitions

(* _competitions_for_sport.                                                *)
CompetitionsIn(c, country) ==
  {k \in DOMAIN c.competitions :
     country = None \/ c.competitions[k].country \in {None, country}}

(* _resolve_competition after the two look-ups failed: reuse the only      *)
(* competition of that name, or create one.                                *)
AdoptCompetition(c, s, k, trust) ==
  LET c1 == IF trust = "VERIFIED"
            THEN PromoteCompetition(c, s.provider, k, s.leagueId, s.country) ELSE c
  IN [id |-> k, trust |-> trust,
      cat |-> [c1 EXCEPT
        !.leagueNames = SaveName(@, <<s.provider, s.league, s.country>>, k, trust),
        !.leagueIds   = SaveIdIfAny(@, s.provider, s.leagueId, k, s.league, trust)]]

LearnCompetition(c, s, suspect) ==
  LET pool   == CompetitionsIn(c, s.country)
      result == Normalize(s.league, {c.competitions[k].name : k \in pool})
      same   == {k \in pool : c.competitions[k].name = result.name}
      trust  == IF suspect THEN "SUSPECT" ELSE TrustFor(result.method)
  IN IF /\ result.method \in {"exact", "alias"} /\ Cardinality(same) = 1
        /\ \A k \in same : ~ OtherReference(c.competitions[k], s.provider, s.leagueId)
     THEN AdoptCompetition(c, s, CHOOSE k \in same : TRUE, trust)
     ELSE AdoptCompetition(CreateCompetition(c, s.provider, result.name, s.country, s.leagueId),
                           s, NextId(c.competitions), trust)

(* _resolve_competition.                                                   *)
ResolveCompetition(c, s) ==
  LET key     == <<s.provider, s.leagueId>>
      says    == IdSays(c.leagueIds, s.provider, s.leagueId, s.league)
      suspect == says \in {"drifted", "quarantined"}
      c1      == IF says = "drifted"
                 THEN [c EXCEPT !.leagueIds = MarkSuspect(@, key)] ELSE c
      mapped  == {k \in MappedLeague(c, s.provider, s.league, s.country) :
                    ~ OtherReference(c.competitions[k], s.provider, s.leagueId)}
      trust   == IF suspect THEN "SUSPECT" ELSE "VERIFIED"
      Known(k, t, d) ==
        [id |-> k, trust |-> t,
         cat |-> [d EXCEPT !.leagueIds =
                    SaveIdIfAny(@, s.provider, s.leagueId, k, s.league, t)]]
  IN IF says = "known" THEN Known(c.leagueIds[key].to, "VERIFIED", c)
     ELSE IF mapped # {} THEN Known(CHOOSE k \in mapped : TRUE, trust, c1)
     ELSE LearnCompetition(c1, s, suspect)

-----------------------------------------------------------------------------
(* _create_team.                                                           *)
CreateTeam(c, p, name, id) ==
  [c EXCEPT !.teams = Put(@, NextId(@), [name |-> name, ref |-> RefOfNew(@, p, id)])]

(* _promote_team_to_reference.                                             *)
PromoteTeam(c, p, t, id) ==
  IF /\ p = Reference /\ id # None
     /\ c.teams[t].ref \in {None, id} /\ Unused(c.teams, id, t)
  THEN [c EXCEPT !.teams[t].ref = id]
  ELSE c

(* _find_mapping: the row of this competition, else one of any.            *)
MappedTeam(c, p, raw, k) ==
  LET Trusted(key) == key \in DOMAIN c.teamNames /\ c.teamNames[key].trust = "VERIFIED"
      own == <<p, raw, k>>
      any == <<p, raw, AnyCompetition>> IN
  IF Trusted(own) THEN {c.teamNames[own].to}
  ELSE IF Trusted(any) THEN {c.teamNames[any].to}
  ELSE {}

(* _team_country_is_compatible: a team is known to play in this country,   *)
(* or nothing is known.                                                    *)
CountryFits(c, t, k) ==
  LET here == c.competitions[k].country
      known == {c.competitions[x[2]].country : x \in {y \in c.plays : y[1] = t}} \ {None}
  IN here = None \/ known = {} \/ here \in known

(* _find_global_exact_team: the one team of that name anywhere.            *)
NamesakeOf(c, raw) ==
  LET result == Normalize(raw, {c.teams[t].name : t \in DOMAIN c.teams})
      same == {t \in DOMAIN c.teams : c.teams[t].name = result.name}
  IN IF result.method \in {"exact", "alias"} /\ Cardinality(same) = 1
     THEN [teams |-> same, method |-> result.method]
     ELSE [teams |-> {}, method |-> "unknown"]

(* The end of _resolve_team: a team of this competition has the name, or   *)
(* a new one is created.  If several have it, which one a dict keeps       *)
(* depends on the order of the rows: last is a free choice.                *)
AdoptTeam(c, p, raw, k, id, t, trust) ==
  LET c1 == IF trust = "VERIFIED" THEN PromoteTeam(c, p, t, id) ELSE c
  IN [id |-> t, trust |-> trust,
      cat |-> [c1 EXCEPT !.teamNames = SaveName(@, <<p, raw, k>>, t, trust),
                         !.teamIds = SaveIdIfAny(@, p, id, t, raw, trust)]]

LearnTeam(c, p, raw, k, id, suspect, last) ==
  LET squad  == {x[1] : x \in {y \in c.plays : y[2] = k}}
      result == Normalize(raw, {c.teams[t].name : t \in squad})
      same   == {t \in squad : c.teams[t].name = result.name}
      kept   == IF last THEN Max(same) ELSE Min(same)
      trust  == IF suspect THEN "SUSPECT" ELSE TrustFor(result.method)
  IN IF /\ result.method \in {"exact", "alias"} /\ same # {}
        /\ ~ OtherReference(c.teams[kept], p, id)
     THEN AdoptTeam(c, p, raw, k, id, kept, trust)
     ELSE AdoptTeam(CreateTeam(c, p, result.name, id), p, raw, k, id, NextId(c.teams), trust)

(* _resolve_team, followed by _record_team_competition.                    *)
ResolveTeam(c, p, raw, k, id, last) ==
  LET says     == IdSays(c.teamIds, p, id, raw)
      suspect  == says \in {"drifted", "quarantined"}
      c1       == IF says = "drifted"
                  THEN [c EXCEPT !.teamIds = MarkSuspect(@, <<p, id>>)] ELSE c
      Allowed(T) == {t \in T : ~ OtherReference(c.teams[t], p, id)}
      mapped   == Allowed(MappedTeam(c, p, raw, k))
      namesake == {t \in Allowed(NamesakeOf(c, raw).teams) : CountryFits(c, t, k)}
      Known(t, trust, d) ==
        [id |-> t, trust |-> trust,
         cat |-> [d EXCEPT !.teamIds = SaveIdIfAny(@, p, id, t, raw, trust)]]
      Plays(r) == [r EXCEPT !.cat.plays = @ \cup {<<r.id, k>>}]
  IN Plays(
       IF says = "known" THEN Known(c.teamIds[<<p, id>>].to, "VERIFIED", c)
       ELSE IF mapped # {}
         THEN Known(CHOOSE t \in mapped : TRUE, IF suspect THEN "SUSPECT" ELSE "VERIFIED", c1)
       ELSE IF namesake # {}
         THEN LET t == CHOOSE x \in namesake : TRUE IN
              Known(t, "VERIFIED",
                    [PromoteTeam(c1, p, t, id) EXCEPT
                       !.teamNames = SaveName(@, <<p, raw, k>>, t, "VERIFIED")])
       ELSE LearnTeam(c1, p, raw, k, id, suspect, last))

-----------------------------------------------------------------------------
Apart(a, b) == IF a > b THEN a - b ELSE b - a

(* uq_events_reference_identity.                                           *)
RefTaken(c, id, me) == ~ Unused(c.events, id, me)

(* _sync_event_start_time: the reference provider may always move a start, *)
(* another one only if it set it and the event has no reference.  Nothing  *)
(* looks whether the reference id is in use already.                       *)
SyncStart(c, s, e) ==
  LET row == c.events[e]
      owner == s.provider = Reference \/ (row.ref = None /\ row.by = s.provider)
      ref == IF s.provider = Reference /\ s.eventId # None THEN s.eventId ELSE row.ref
  IN IF row.start = s.start \/ ~ owner THEN c
     ELSE [c EXCEPT !.ok = @ /\ (ref = row.ref \/ ~ RefTaken(c, ref, e)),
                    !.events[e] = [row EXCEPT !.start = s.start, !.by = s.provider,
                                              !.ref = ref]]

(* _promote_event_to_reference.                                            *)
PromoteEvent(c, p, e, id) ==
  IF p = Reference /\ id # None /\ ~ RefTaken(c, id, e)
  THEN [c EXCEPT !.events[e].ref = id, !.events[e].by = Reference]
  ELSE c

(* Mutant: only the names are compared.                                    *)
EvidenceByName(c, p, raw, t, id) ==
  IF Similar(c.teams[t].name, raw) THEN 100 ELSE 0

(* _team_evidence_score.                                                   *)
Evidence(c, p, raw, t, id) ==
  IF id # None /\ <<p, id>> \in DOMAIN c.teamIds
  THEN LET row == c.teamIds[<<p, id>>] IN
       IF row.trust # "VERIFIED" THEN 0 ELSE IF row.to = t THEN 100 ELSE -1
  ELSE LET name == c.teams[t].name
           result == Normalize(raw, {name}) IN
       IF result.method = "fuzzy" THEN Ratio[raw, name]
       ELSE IF result.method # "unknown" /\ result.name = name THEN 100
       ELSE 0

(* The score of an event as the fixture of a sighting, times two; 0 if it  *)
(* is not one.  An exact side identifies an unknown other side; two sides  *)
(* that are only similar must be very similar.                             *)
Score(h, a) ==
  IF h < 0 \/ a < 0 \/ (h < 100 /\ a = 0) \/ (h = 0 /\ a < 100) THEN 0
  ELSE IF h = 0 \/ a = 0 THEN 180
  ELSE IF h < 100 /\ a < 100 /\ h + a < 180 THEN 0
  ELSE h + a

(* _match_existing_event_by_context: the clearly best event, if any.       *)
ByContext(c, s, comp) ==
  LET near  == {e \in DOMAIN c.events : /\ c.events[e].competition = comp.id
                                        /\ Apart(c.events[e].start, s.start) <= Tolerance}
      score == [e \in near |->
                  Score(Evidence(c, s.provider, s.home, c.events[e].home, s.homeId),
                        Evidence(c, s.provider, s.away, c.events[e].away, s.awayId))]
  IN {e \in near : /\ comp.trust = "VERIFIED"
                   /\ score[e] > 0
                   /\ \A f \in near \ {e} :
                        score[f] = 0 \/ score[e] - score[f] >= 2 * AmbiguityMargin}

(* _find_event, its rows.                                                  *)
Matchups(c, k, home, away, start) ==
  {e \in DOMAIN c.events :
     /\ c.events[e].competition = k
     /\ c.events[e].home = home /\ c.events[e].away = away
     /\ Apart(c.events[e].start, start) <= Tolerance}

(* _resolve_event: two rows are as good as none.                           *)
ResolveEvent(c, s, k, home, away) ==
  LET rows == Matchups(c, k, home, away, s.start)
      e    == IF Cardinality(rows) = 1 THEN CHOOSE x \in rows : TRUE ELSE NextId(c.events)
  IN [id |-> e,
      cat |-> IF Cardinality(rows) = 1
              THEN PromoteEvent(SyncStart(c, s, e), s.provider, e, s.eventId)
              ELSE [c EXCEPT !.events = Put(@, e,
                      [competition |-> k, home |-> home, away |-> away, start |-> s.start,
                       by |-> s.provider, ref |-> RefOfNew(@, s.provider, s.eventId)])]]

-----------------------------------------------------------------------------
Coalesce(a, b) == IF a # None THEN a ELSE b

(* _save_event_mapping.  What was verified (names and country) follows the *)
(* incoming trust, where the row leads and how far it is trusted do not    *)
(* change once it is quarantined.                                          *)
SaveEventId(map, s, e, trust) ==
  LET key == <<s.provider, s.eventId>>
      known == key \in DOMAIN map
      old == IF known THEN map[key]
             ELSE [to |-> e, trust |-> trust, home |-> None, away |-> None,
                   league |-> None, country |-> None,
                   homeId |-> None, awayId |-> None, leagueId |-> None]
      quarantined == old.trust \in Closed
      seen == IF trust = "VERIFIED" THEN s ELSE old
  IN Put(map, key,
       [to |-> IF quarantined THEN old.to ELSE e,
        trust |-> IF quarantined THEN old.trust ELSE trust,
        home |-> seen.home, away |-> seen.away,
        league |-> seen.league, country |-> seen.country,
        homeId |-> Coalesce(s.homeId, old.homeId),
        awayId |-> Coalesce(s.awayId, old.awayId),
        leagueId |-> Coalesce(s.leagueId, old.leagueId)])

SaveEventIdIfAny(map, s, e, trust) ==
  IF s.eventId = None THEN map ELSE SaveEventId(map, s, e, trust)

(* Two readings of _event_mapping_is_compatible: an id and a name of the   *)
(* mapping against what comes in; a mapped id or name against the event.   *)
Agrees(oldId, id, oldName, name) ==
  /\ oldId = None \/ id = None \/ oldId = id
  /\ \/ oldName = None
     \/ oldId # None /\ oldId = id
     \/ Similar(oldName, name)

LeadsTo(map, p, id, to) ==
  id # None /\ <<p, id>> \in DOMAIN map /\ map[<<p, id>>].trust = "VERIFIED"
    => map[<<p, id>>].to = to

(* _event_mapping_is_compatible.                                           *)
Compatible(c, s, row) ==
  LET event == c.events[row.to] IN
  /\ Agrees(row.homeId, s.homeId, row.home, s.home)
  /\ Agrees(row.awayId, s.awayId, row.away, s.away)
  /\ Agrees(row.leagueId, s.leagueId, row.league, s.league)
  /\ row.country = None \/ s.country = None \/ row.country = s.country
  /\ LeadsTo(c.teamIds, s.provider, s.homeId, event.home)
  /\ LeadsTo(c.teamIds, s.provider, s.awayId, event.away)
  /\ LeadsTo(c.leagueIds, s.provider, s.leagueId, event.competition)
  /\ MappedTeam(c, s.provider, s.home, event.competition) \subseteq {event.home}
  /\ MappedTeam(c, s.provider, s.away, event.competition) \subseteq {event.away}
  /\ MappedLeague(c, s.provider, s.league, s.country) \subseteq {event.competition}

(* _learn_identity_from_event_context: a resolved event tells who its      *)
(* sides and its competition are.                                          *)
LearnSide(c, p, k, raw, t, id) ==
  LET c1 == [c EXCEPT !.teamNames = SaveName(@, <<p, raw, k>>, t, "VERIFIED"),
                      !.teamIds = SaveIdIfAny(@, p, id, t, raw, "VERIFIED"),
                      !.plays = @ \cup {<<t, k>>}]
  IN PromoteTeam(c1, p, t, id)

LearnFromEvent(c, s, e) ==
  LET k  == c.events[e].competition
      c1 == LearnSide(c, s.provider, k, s.home, c.events[e].home, s.homeId)
      c2 == LearnSide(c1, s.provider, k, s.away, c.events[e].away, s.awayId)
      c3 == [c2 EXCEPT
               !.leagueNames = SaveName(@, <<s.provider, s.league, s.country>>, k, "VERIFIED"),
               !.leagueIds = SaveIdIfAny(@, s.provider, s.leagueId, k, s.league, "VERIFIED")]
  IN PromoteCompetition(c3, s.provider, k, s.leagueId, s.country)

-----------------------------------------------------------------------------
(* match, the fixture mapped to an event.  _refresh_event_mapping does to  *)
(* a VERIFIED mapping what saving it once more would.                      *)
KnownFixture(c, s, e) ==
  LET c1 == SyncStart(LearnFromEvent(c, s, e), s, e) IN
  [id |-> e, cat |-> [c1 EXCEPT !.eventIds = SaveEventId(@, s, e, "VERIFIED")]]

(* match, the fixture found by its competition, start and sides.           *)
FixtureInContext(c, s, e) ==
  LET c1 == SyncStart(LearnFromEvent(c, s, e), s, e)
      c2 == PromoteEvent(c1, s.provider, e, s.eventId) IN
  [id |-> e, cat |-> [c2 EXCEPT !.eventIds = SaveEventIdIfAny(@, s, e, "VERIFIED")]]

(* match, the fixture put together from its parts, one after the other.    *)
FixtureOfSides(s, comp, home, away) ==
  LET event == ResolveEvent(away.cat, s, comp.id, home.id, away.id)
      trust == IF {home.trust, away.trust, comp.trust} = {"VERIFIED"}
               THEN "VERIFIED" ELSE "UNVERIFIED"
  IN [id |-> event.id,
      cat |-> [event.cat EXCEPT !.eventIds = SaveEventIdIfAny(@, s, event.id, trust)]]

FixtureOfHome(s, comp, home, last) ==
  FixtureOfSides(s, comp, home,
    ResolveTeam(home.cat, s.provider, s.away, comp.id, s.awayId, last))

FixtureIn(s, comp, last) ==
  LET found == ByContext(comp.cat, s, comp) IN
  IF found # {} THEN FixtureInContext(comp.cat, s, CHOOSE e \in found : TRUE)
  ELSE FixtureOfHome(s, comp,
         ResolveTeam(comp.cat, s.provider, s.home, comp.id, s.homeId, last), last)

(* match: the event of a sighting and the tables after it.                 *)
Match(c, s, last) ==
  LET key   == <<s.provider, s.eventId>>
      tried == s.eventId # None /\ key \in DOMAIN c.eventIds
                 /\ c.eventIds[key].trust = "VERIFIED"
  IN IF tried /\ Compatible(c, s, c.eventIds[key])
     THEN KnownFixture(c, s, c.eventIds[key].to)
     ELSE FixtureIn(s, ResolveCompetition(
            IF tried THEN [c EXCEPT !.eventIds = MarkSuspect(@, key)] ELSE c, s), last)

(* match of one record; a statement that fails leaves nothing behind but a *)
(* rejected record.                                                        *)
Ingest(s, last) ==
  /\ \E r \in {Match(cat, s, last)} :
       /\ Cardinality(DOMAIN r.cat.teams) <= MaxTeams
       /\ Cardinality(DOMAIN r.cat.competitions) <= MaxCompetitions
       /\ Cardinality(DOMAIN r.cat.events) <= MaxEvents
       /\ \/ /\ r.cat.ok
             /\ cat' = r.cat
             /\ refused' = refused \ {s}
             /\ about' = Put(about, r.id,
                  {s.fixture} \cup IF r.id \in DOMAIN about THEN about[r.id] ELSE {})
          \/ /\ ~ r.cat.ok
             /\ refused' = refused \cup {s}
             /\ UNCHANGED <<cat, about>>
  /\ UNCHANGED reviews

-----------------------------------------------------------------------------
(* The reviewer speaks of a name or an id that some provider has reported, *)
(* about any row: people may be wrong.                                     *)
Decide(c) ==
  /\ reviews < MaxReviews
  /\ reviews' = reviews + 1
  /\ cat' = c
  /\ UNCHANGED <<refused, about>>

(* The manual override of _save_..._id_mapping.                            *)
OverrideId(map, key, to, raw) ==
  Put(map, key, [to |-> to, trust |-> "VERIFIED", verified |-> raw,
                 first |-> IF key \in DOMAIN map THEN map[key].first ELSE raw])
OverrideIdIfAny(map, p, id, to, raw) ==
  IF id = None THEN map ELSE OverrideId(map, <<p, id>>, to, raw)

RejectRow(map, key) ==
  IF key \in DOMAIN map THEN [map EXCEPT ![key].trust = "REJECTED"] ELSE map

Override(map, key, to) ==
  Put(map, key, [to |-> to, trust |-> "VERIFIED", manual |-> TRUE])

(* verify_team_mapping.                                                    *)
VerifyTeam(p, raw, id, k, t) ==
  Decide([cat EXCEPT !.teamNames = Override(@, <<p, raw, k>>, t),
                     !.teamIds = OverrideIdIfAny(@, p, id, t, raw),
                     !.plays = IF k = AnyCompetition THEN @ ELSE @ \cup {<<t, k>>}])

(* reject_team_mapping: at least one row must exist.                       *)
RejectTeam(p, raw, id, k) ==
  /\ <<p, raw, k>> \in DOMAIN cat.teamNames \/ <<p, id>> \in DOMAIN cat.teamIds
  /\ Decide([cat EXCEPT !.teamNames = RejectRow(@, <<p, raw, k>>),
                        !.teamIds = RejectRow(@, <<p, id>>)])

(* verify_competition_mapping.                                             *)
VerifyCompetition(p, raw, id, country, k) ==
  Decide([cat EXCEPT !.leagueNames = Override(@, <<p, raw, country>>, k),
                     !.leagueIds = OverrideIdIfAny(@, p, id, k, raw)])

(* reject_competition_mapping.                                             *)
RejectCompetition(p, raw, id, country) ==
  /\ \/ <<p, raw, country>> \in DOMAIN cat.leagueNames
     \/ <<p, id>> \in DOMAIN cat.leagueIds
  /\ Decide([cat EXCEPT !.leagueNames = RejectRow(@, <<p, raw, country>>),
                        !.leagueIds = RejectRow(@, <<p, id>>)])

(* verify_event_mapping: the row is deleted and written anew.              *)
VerifyEvent(s, e) ==
  LET others == [x \in DOMAIN cat.eventIds \ {<<s.provider, s.eventId>>} |-> cat.eventIds[x]]
  IN /\ s.eventId # None
     /\ Decide(PromoteEvent([cat EXCEPT !.eventIds = SaveEventId(others, s, e, "VERIFIED")],
                            s.provider, e, s.eventId))

(* reject_event_mapping.                                                   *)
RejectEvent(p, id) ==
  /\ <<p, id>> \in DOMAIN cat.eventIds
  /\ Decide([cat EXCEPT !.eventIds = RejectRow(@, <<p, id>>)])

(* A reviewer cites a name, an id, or both.                                *)
Review(s) ==
  \/ \E k \in {AnyCompetition} \cup DOMAIN cat.competitions :
       \/ \E id \in {None, s.homeId}, t \in DOMAIN cat.teams :
            VerifyTeam(s.provider, s.home, id, k, t)
       \/ \E raw \in {None, s.home}, id \in {None, s.homeId} :
            RejectTeam(s.provider, raw, id, k)
  \/ \E country \in {None, s.country} :
       \/ \E id \in {None, s.leagueId}, k \in DOMAIN cat.competitions :
            VerifyCompetition(s.provider, s.league, id, country, k)
       \/ \E raw \in {None, s.league}, id \in {None, s.leagueId} :
            RejectCompetition(s.provider, raw, id, country)
  \/ \E e \in DOMAIN cat.events : VerifyEvent(s, e)
  \/ RejectEvent(s.provider, s.eventId)

(* Only then can the order of rows matter.                                 *)
Homonyms ==
  \E t, u \in DOMAIN cat.teams : t # u /\ cat.teams[t].name = cat.teams[u].name

Next ==
  \/ \E s \in Sighting, last \in IF Homonyms THEN BOOLEAN ELSE {TRUE} : Ingest(s, last)
  \/ \E s \in Reviewed : Review(s)

Spec == Init /\ [][Next]_vars

-----------------------------------------------------------------------------
(* The tables are well-formed: rows lead to existing rows, and what the    *)
(* unique indexes forbid does not happen.                                  *)
TypeOK ==
  /\ cat.ok
  /\ \A k \in DOMAIN cat.competitions :
       /\ cat.competitions[k].name \in Name
       /\ cat.competitions[k].country \in Country \cup {None}
       /\ ~ NameTaken(cat, cat.competitions[k].name, cat.competitions[k].country, k)
  /\ \A t \in DOMAIN cat.teams : cat.teams[t].name \in Name
  /\ cat.plays \subseteq (DOMAIN cat.teams) \X (DOMAIN cat.competitions)
  /\ \A e \in DOMAIN cat.events :
       LET row == cat.events[e] IN
       {<<row.home, row.competition>>, <<row.away, row.competition>>} \subseteq cat.plays
  /\ \A table \in {"competitions", "teams", "events"} :
       \A k \in DOMAIN cat[table] :
         cat[table][k].ref = None \/ Unused(cat[table], cat[table][k].ref, k)
  /\ \A m \in {<<"teamNames", "teams">>, <<"teamIds", "teams">>,
               <<"leagueNames", "competitions">>, <<"leagueIds", "competitions">>,
               <<"eventIds", "events">>} :
       \A k \in DOMAIN cat[m[1]] :
         /\ cat[m[1]][k].trust \in Trust
         /\ cat[m[1]][k].to \in DOMAIN cat[m[2]]
  /\ DOMAIN about \subseteq DOMAIN cat.events
  /\ refused \subseteq Sighting
  /\ reviews \in 0 .. MaxReviews

Mappings == {"teamNames", "teamIds", "leagueNames", "leagueIds", "eventIds"}

(* What the reviewer rejected, and what was found suspect, is not learned  *)
(* again by ingestion, along whichever path the same fixture comes back:   *)
(* such a mapping keeps its target and its state until a reviewer decides. *)
ClosedDecisionsStand ==
  [][reviews' = reviews =>
       \A m \in Mappings : \A k \in DOMAIN cat[m] :
         cat[m][k].trust \in Closed =>
           /\ k \in DOMAIN cat'[m]
           /\ cat'[m][k].to = cat[m][k].to
           /\ cat'[m][k].trust = cat[m][k].trust]_vars

(* Ingestion never re-points a VERIFIED mapping and never makes it merely  *)
(* UNVERIFIED: it can only put it into quarantine.  _save_..._id_mapping   *)
(* would overwrite it; it is up to every path of match to look first.      *)
VerifiedMappingsStand ==
  [][reviews' = reviews =>
       \A m \in Mappings : \A k \in DOMAIN cat[m] :
         cat[m][k].trust = "VERIFIED" =>
           /\ k \in DOMAIN cat'[m]
           /\ cat'[m][k].to = cat[m][k].to
           /\ cat'[m][k].trust \in {"VERIFIED", "SUSPECT"}]_vars

(* What the providers must report for the catalog to tell fixtures apart.  *)
(* Sides(s) are the ids and names of the two teams of a sighting.          *)
Sides(s) == {<<s.homeId, s.home>>, <<s.awayId, s.away>>}
Namesakes(s, t) == Called[s.league] = Called[t.league]
Same(id, jd) == id # None /\ id = jd

(* An alias, or a spelling similar enough, is another name for the same.   *)
NamesAreCurated ==
  /\ \A a, b \in Name : Similar(a, b) => Called[a] = Called[b]
  /\ \A n \in DOMAIN Alias : Called[Alias[n]] = Called[n]

(* Leagues of one name are told apart by the country, or by a provider's   *)
(* id, and who gives no country keeps to leagues without namesakes.        *)
LeaguesAreCurated(T) ==
  \A s, t \in T :
    /\ Namesakes(s, t)
    /\ \/ s.country = t.country \/ None \in {s.country, t.country}
       \/ s.provider = t.provider /\ Same(s.leagueId, t.leagueId)
    => League[s.fixture] = League[t.fixture]

(* A fixture is one league's, between two clubs, and a club is not at home *)
(* (nor away) twice in its league within the tolerance.                    *)
FixturesAreCurated(T) ==
  \A s, t \in T :
    /\ s.fixture = t.fixture =>
         Namesakes(s, t) /\ Called[s.home] = Called[t.home] /\ Called[s.away] = Called[t.away]
    /\ /\ League[s.fixture] = League[t.fixture] /\ Apart(s.start, t.start) <= Tolerance
       /\ Called[s.home] = Called[t.home] \/ Called[s.away] = Called[t.away]
       => s.fixture = t.fixture

(* A team's id may be given to another club, but to one of a league where  *)
(* the former holder does not play on that side: _team_evidence_score asks *)
(* where an id leads, and not whether its name has drifted.                *)
TeamIdsAreCurated(T) ==
  \A s, t \in T : s.provider = t.provider =>
    \A x \in Sides(t), u \in T : League[u.fixture] = League[s.fixture] =>
      /\ Same(x[1], s.homeId) /\ Called[u.home] = Called[x[2]] => Called[s.home] = Called[x[2]]
      /\ Same(x[1], s.awayId) /\ Called[u.away] = Called[x[2]] => Called[s.away] = Called[x[2]]

(* A fixture's id may be given to another fixture, if that shows: in the   *)
(* country, in an id of a part, or in the name of a part without an id.    *)
Shows(id, jd, n, m) == IF jd = None THEN ~ Similar(n, m) ELSE id # None /\ id # jd
FixtureIdsAreCurated(T) ==
  \A s, t \in T :
    /\ s.provider = t.provider /\ Same(s.eventId, t.eventId) /\ s.fixture # t.fixture
    => \/ None \notin {s.country, t.country} /\ s.country # t.country
       \/ Shows(s.homeId, t.homeId, s.home, t.home)
       \/ Shows(s.awayId, t.awayId, s.away, t.away)
       \/ Shows(s.leagueId, t.leagueId, s.league, t.league)

Curated(T) ==
  /\ NamesAreCurated /\ LeaguesAreCurated(T) /\ FixturesAreCurated(T)
  /\ TeamIdsAreCurated(T) /\ FixtureIdsAreCurated(T)

(* No two real fixtures share an event, in whatever order they are seen,   *)
(* although ids are recycled, starts move, and clubs and leagues have      *)
(* namesakes abroad: as long as no reviewer has interfered, and what the   *)
(* providers report is curated.                                            *)
OneFixtureEach ==
  reviews = 0 => \A e \in DOMAIN about : Cardinality(about[e]) = 1

(* What _competitions_for_sport says of a name that several competitions   *)
(* bear: it is treated like a new one, for which a competition is created. *)
AcceptsEverySighting == refused = {}
=============================================================================
