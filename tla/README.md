# anomaly-detection-engine: models, checks and proofs

Specifications in TLA+ of the anomaly detection engine, the TLC configurations
that check them on small instances, and TLAPS proofs of most of the safety
properties for every instance. Paths of the program are relative to `src/`; `engine/` stands for
`src/anomaly_detection_engine/` there. `PROJECT.json` links every definition to the
lines it models, every property to a mutation of the code that breaks it, and
every hazard to the properties that watch it.

    tlc -workers 2 -config DetectionCycle.cfg MCDetectionCycle.tla
    tlapm DetectionCycle_proofs.tla

## 1. The system

A *poller* (`engine/poller.py`), or `app.py` run by hand or by `scripts/watch_capture.py`
for each captured file, repeats a *cycle*: **ingest**, then **detect**. All state is in
one SQLite file (WAL), which several such processes share; nobody else coordinates them.

| Component | State | Operations | Talks to |
|---|---|---|---|
| Poller loop (`poller.py`, `app.py`) | none that lasts | run a cycle, survive its exception, sleep | everything below |
| Ingestion (`ingestion/service.py`) | `collector_runs`, `raw_payloads` | start a run, collect, store each record, verdict | collectors, catalogs, odds |
| Rate gate (`pipeline.build_collectors`) | reads `collector_runs` | choose the collectors of a cycle | ingestion |
| Fixture catalog (`storage/fixture_catalog.py`) | teams, competitions, events, source mappings with a trust state | match a record, verify, reject, move a start time | ingestion, clean-up scripts |
| Bookmaker catalog | bookmakers, mappings | resolve or create | ingestion |
| Odds history (`storage/odds_repository.py`) | `odds_snapshots` | store a record atomically, latest per bookmaker, last two of a provider | analysis |
| Event status | `event_status` | last report wins | cycle filter, expiry |
| Analysis (`analysis/`) | none | freshness, best odds, arbitrage, outliers, movements | reads odds |
| Signal store (`storage/signal_repository.py`) | `signals`, `signal_history` | reconcile (insert, touch, resolve), expire | detection |
| Movements | `movements` | save once per transition | detection |
| Retention (`maintenance.py`) | deletes from five tables | run by hand | all tables |
| Identity clean-up, merge scripts | edit the catalogs' tables | run by hand | catalogs |
| Migrations (`storage/migrations.py`) | `user_version`, the schema | bring a file up to date, at every start | all tables |
| Manual captures (`collectors/manual_capture_collector.py`, `scripts/watch_capture.py`) | one file in a slot, a directory of history | take the stamp, read, move; start the app for a new file | humans, ingestion |
| Collectors over HTTP (`collectors/`, `collectors/http_retry.py`) | none that lasts | page through a listing, retry, join | providers, ingestion |
| Reporting, metrics, health | none | read and print | - |

### What is hard about it

* **Several processes, no coordination but SQLite.** Python's `sqlite3` opens a
  transaction at the first write, not at the start of a `with connection` block, so a
  read that decides a write may be older than the write (ConcurrentSweeps).
* **Failure in the middle.** A cycle can fail between any two commits, a run can die
  between its first and its last row, a write can give up on a lock
  (DetectionCycle, IngestionRuns, WriteContention).
* **Two clocks.** A price carries the time we polled it and the time the source says it
  was current; ordering by one and checking by the other (OddsMovement, SweepAnalysis).
* **"Could not tell" against "is gone".** A sweep may only resolve what it could judge.
* **Identity decided piece by piece.** A provider's fixture is recognised by ids that may be
  recycled, names that have namesakes, and start times that move; what was once decided
  steers every later decision, so a wrong step shows many sightings later (FixtureCatalog).
* **A schema changed in place.** Statements of a migration are durable one by one or all
  together depending on how they are executed and what ran before them; a startup may be
  killed anywhere, run beside another, or beside an older release (Migrations).
* **Inputs that move while they are read.** A capture may be replaced between stat, read
  and move; a provider's listing changes between the requests for its pages (Collection).
* **Boundaries**: a margin of exactly one, the median of an even number of prices, the
  count of bookmakers a consensus needs.

What makes each component correct is said property by property in section 3; the list of
hazards with their lines is in `PROJECT.json`.

## 2. Modules

| Module | Models | Kind |
|---|---|---|
| `SignalStore` | rows of `signals` and `signal_history`; `_insert`, `_touch`, `_resolve_stale`, `expire_active_signals`, the journal part of the clean-up, as functions on table contents | shared operators |
| `DetectionCycle` | `run_detection` of one process, cycle after cycle, each transaction as a private copy of the tables that is published at commit; `Fail` anywhere | state machine |
| `OpportunityTracking` | what the cycle promises about a signal: open, gone, lapsed | abstract specification, implemented by `DetectionCycle` |
| `ConcurrentSweeps` | the same transactions in several processes, with the reads that happen before the write lock is taken | state machine |
| `SweepAnalysis` | what one sweep concludes from the stored odds | pure operators and a small state machine around them |
| `OddsMovement` | odds history, comparison of the last two readings of a provider, movements table | state machine |
| `IngestionRuns` | `collector_runs` over several processes | state machine |
| `FixtureCatalog` | `match`, the verify and reject operations, teams, competitions, events and the five mapping tables | state machine |
| `Migrations` | `migrate()` and its twenty-one migrations, statement by statement, on a file left by any release | state machine; an uninterrupted startup as one function |
| `Collection` | the collectors of a cycle: manual captures and their watcher, paging, retries | state machine |
| `WriteContention` | transaction state of the poller's connection under lock time-outs | state machine |
| `DetectionCycle_proofs`, `ConcurrentSweeps_proofs`, `OddsMovement_proofs`, `IngestionRuns_proofs`, `WriteContention_proofs`, `Collection_proofs`, `FixtureCatalog_proofs`, `SweepAnalysis_proofs` | | theorems about the module of that name |
| `MC*` | small sets for TLC | |

`DetectionCycle` and `ConcurrentSweeps` extend `SignalStore`, so that both, and the proofs,
use the same row operations. `DetectionCycle` leaves open which identities a sweep can
judge and finds; `SweepAnalysis` says what decides it, for one event and market, and that
its two answers fit together (`CandidatesAreJudged`, which `reconcile` requires).

### How state and actions correspond to the code

* `db` in `DetectionCycle` and `ConcurrentSweeps` is what is committed; `work` is what the
  holder of the open transaction sees. A `with connection` block is: copy `db` to `work`,
  change `work` step by step, publish or drop it. Each turn of a loop over candidates or
  stale rows is a step, so a failure can fall between any two of them.
* A signal is its identity (type, event, market, outcome): `uq_signals_identity`. Edges are
  small integers, of which only the order matters. `details` and ids are left out.
* Journal rows carry the AUTOINCREMENT id, because readers sort by `(recorded_at, id)`.
* `now` is fixed once per cycle, as in `run_detection`; `clock` is the latest instant
  anybody has read. Two cycles never share an instant.
* In `OddsMovement` an action is one query; the transaction of `save_all` is one step. A
  reading is stored at any time after it was polled, since `observed_at` is set when a
  collection begins or taken from a file (`odds_repository.py:359-361`), and `Lag` is how far
  behind the poll, or ahead of it, a source dates its price. `ever` is a history variable:
  the rows there have ever been.
* In `IngestionRuns` each record is two steps, its odds and its raw payload, because they
  are two transactions and a process can die between them.
* In `WriteContention` the only state of the connection is whether a transaction is open,
  whether it has read, and whether what it read is still the newest commit.
* In `FixtureCatalog` a call of `match`, or of a reviewer's operation, is one step: it is one
  transaction that begins with `BEGIN IMMEDIATE`, so nothing can come between. Inside, an
  operator takes the tables and returns the tables after it, in the order of the calls of the
  code. A statement that would violate a unique index makes `ok` false, and the step leaves
  the tables as they were. Names are values; what the code computes from their letters is the
  constant `Ratio`. `last` stands for the order in which SQLite returns rows. `about` is a
  history variable: the real fixtures each event was used for.
* In `Migrations` a migration is a sequence of statements, and a startup executes one per
  step; `disk` is what is committed, `tx[p]` what p's open transaction sees. A statement is
  durable at once, opens a transaction, or joins the open one, as Python's `sqlite3` has it:
  only INSERT and UPDATE open one, `executescript` commits first. Python's tests for a table
  or a column are steps of their own, so that another startup can come between test and
  statement. `Uninterrupted` folds the same statements over a file without crashes: what a
  startup should make of `Left[v]`, the file that a release with v migrations left behind.
  Columns that no migration names are left out, and so is uniqueness, which the copied rows
  have already. Foreign keys are kept where they can make a DROP fail.
* In `Collection` each system call on the file in the slot, and each HTTP request, is a step.
  A page is given back as the listing is at that moment. What ingestion does with a record is
  one step (`Store`), which accepts the records or rejects some or all of them, as invalid or
  because the database fails (`service.py:326-337`); by then a capture is in the history. A
  file may have any of the `FileTimes`, since one that is moved into the slot keeps its own.
  `met` (at which moments of which collector the human saved a capture), `killed`, `shifted`,
  `promised`, `overwritten`, `stored` and `rejected` are history variables that only
  properties read.
* In `SweepAnalysis` odds are multiples of 1/`Unit`, above 1 and with no upper limit (the
  validator only warns of odds above 1000). A quotient and each partial sum of the margin
  are rounded half to even to 28 significant digits, as `decimal` does: `Scale` stands for
  10^28, and the last digit kept of a result stands for the less the smaller the result is
  (`LastDigit`), so that 1/1.1, 1/11.3 and their sum are rounded at different places.

## 3. Runs

States are distinct states; with two workers the runs take from a second to two minutes.
A mutant, the bug that would break a property, stands before the definition it changes.

| Run | Instance | States | Shows |
|---|---|---|---|
| `DetectionCycle` | 2 signals of one event (a value gap and a surebet, in two markets), 2 edges, 4 instants, TTL 1, retention 1 | 797,300 | `JournalOrder`, `JournalMirror`, `JournalEpisodes`, `RowColumns`, `UnjudgedUntouched`; `KeepsPromise` (refinement of `OpportunityTracking`) |
| `Concurrent` | 2 processes, 2 signals of one market, 2 edges, 4 instants | 2,251,510 (symmetry) | `ColumnsAgree`, and `ClaimsAreJournalled` when one transaction mixes stale and fresh reads |
| `OddsMovement` | 1 stream, 2 providers, 2 prices, 4 readings stored in any order, dated 1 before or after their poll | 515,839 | `MovementsAreTransitions`, `MovementsJoinNewest`, `RaisesOnlyOnDisorder` |
| `IngestionRuns` | 2 processes, 2 runs, 2 records | 638,114 | `VerdictsAreTrue`, `VerdictsStand`, `WithinBudget`, `RunsEnd` |
| `WriteContention_ungated` | no rate-gated source | 128 | `DetectionStartsClean`, `CyclesResume` |
| `SweepAnalysis` | 4 bookmakers, 2 outcomes, prices 1.1 and 11.3, 4 quotes, 3 significant digits | 63,589 (symmetry) | `NoArbitrageMissed`, `LaggardsDoNotMatter`, `CandidatesAreJudged` |
| `FixtureCatalog` | 2 providers, 3 fixtures in 5 sightings, one decision of a reviewer | 84,855 | `OneFixtureEach`, `ClosedDecisionsStand`, `VerifiedMappingsStand` |
| `Migrations` | 2 processes, files left at versions 0, 4, 10, 14, 18 and 21, 2 kills, one row written meanwhile | 514,951 | `RowsSurvive`, `RetriesConverge`, `OnlyRebuildsGetStuck` |
| `Collection` | poller and watcher, 7 worlds (which sources, which listing), 2 captures with either of 2 times, 1 change of a listing, 1 kill | 526,533 | `StampsAreTheFiles`, `NothingVanishes`, `ArchivedMeansIngested`, `CompleteMeansAll`, `WaitsAreBounded`, `CapturesAreTakenUp` |

Every passing run also checks the type invariant of its module, except `SweepAnalysis`,
where it would restate the assignments.

Runs that find the program at odds with what it says of itself (the quoted lines are in
`PROJECT.json`, under `findings`):

| Run | Property | What the counterexample does |
|---|---|---|
| `WriteContention_gated` | `CyclesResume` | a bare write gives up on the lock and leaves BEGIN open; the gate's SELECT pins a snapshot; another process commits; from then on every write fails at once, in every cycle |
| `FixtureCatalog_refused` | `AcceptsEverySighting` | a league's name is borne by a competition with a country and one without; a further provider's name fits both, so a competition is created, which the unique index refuses, in every poll |
| `Migrations_interrupted` | `RetriesComeUp` | a startup dies inside a rebuild by `executescript` (migrations 19 and 20), of which every statement is durable on its own: the copy is left behind, and `CREATE TABLE` fails in every later startup |

Behaviour met while modelling that no run states as a property. Some of it is at odds with
what the program says of itself:

* A signal that another process resolves between `_find` and the UPDATE is reopened without
  a journal row (`signal_repository.py:358`; 60-63 says that a reactivation writes one).
* A source that dates its newest price before the previous one makes the sweep raise, in
  every cycle until its dates have caught up: the previous reading is then the latest by
  `quote_time`, and was polled before the other (`movement_detector.py:46`; its comments at
  15-18 and 52-59 and `docs/architecture.md` 1013-1015 say that a clock regression is
  flagged, and raises no exception). `RaisesOnlyOnDisorder` names it as the second of the two
  reasons a sweep can have.
* A league's name first reported by a provider without countries takes in the leagues of
  that name of two countries, and clubs with namesakes end in one event
  (`fixture_catalog.py:1728`; 260-262 says that competitions prevent it).

Other behaviour is nowhere promised not to happen. A row that an older release inserts
between the copy and the DROP of a rebuild goes with the table; two startups at once may find
a table other than they expect, set the version back, and fill columns again. A provider's
listing from which something is withdrawn while it is paged through loses a fixture, and the
collection calls itself complete; meridianbet-http takes an answer of another shape for the
end of the listing. The watcher ends if the poller takes the file it is waiting for. A capture saved between
another's stat and read is dated by the file before it, older or newer. A database that fails
ingestion after a capture was moved away costs the capture's records, which nobody hands over
again, though the file remains. A start that moves onto a reference id another event has is
refused in every poll. A cycle with an older `now` may
move `last_seen_at` back, so a signal just reconfirmed by a newer one can expire; the
prices 3.00, 3.00, 3.00 have a rounded margin below one and a profit of zero; when a start
moves next to another event of the same sides, two events fit, none is chosen and a third is
created (`OneFixtureEach` speaks of fixtures that share an event, not of one with several).

### Bounds, and why they are enough

* `DetectionCycle`: four instants allow insertion, peak, resolution and reopening, with an
  expiry or a clean-up between them; two edges are what rise, fall and equality need; two
  signals in two markets are what a scope could confuse. The proofs remove the bounds.
* `ConcurrentSweeps`: a stale read needs two processes and two cycles of one of them; four
  instants give them that, and an expiry. One market and one type per process, because a
  reconcile is about one of each.
* `OddsMovement`: a wrong pairing needs two providers and three readings; the fourth comes
  between the two queries or after a clean-up. With dates one before and one after the poll,
  two readings can have equal dates, and dates in either order.
* `IngestionRuns`: `StaleAfter = 0` lets a startup recover a run that is alive; two records
  let one be accepted and the other not. `MaxRuns` and `LastStart` bound the rows.
* `SweepAnalysis`: two outcomes and two bookmakers make an arbitrage that needs both; four
  quotes are the first even number a consensus of three accepts. 1.1 and 11.3 are an
  arbitrage of a quarter of a percent; with three digits their shares are 0.909 and 0.0885,
  and the sum of these 0.998, the last but one number below 1.
* `FixtureCatalog`: the sightings are an original, its postponement, another provider's
  spelling of it (an alias, the words of a name in another order, which is as similar as can
  be and yet not the same, a start within the tolerance), its namesakes in
  another country, and a fixture for which the provider recycles the id of a fixture and of a
  team. They may come in any order and again and again; the bounds on rows are not what stops
  them, but for the twin events above. A decision of the reviewer concerns the recycled ids,
  where it matters most, and may be wrong. A provider that gives no country keeps to leagues
  without namesakes; `FixtureCatalog_refused` shows one thing that happens otherwise.
* `Migrations`: the six versions are before every migration that fills or rebuilds something,
  the empty file and the newest. Two kills let a retry be killed too. Overlapping startups
  (`Together`) are allowed on files of version 18, which have all the rebuilds by script before
  them, and then without kills and writes, because with them the states would be too many. The rows
  differ in what the updates and copies distinguish: an API-Football row and another, a fuzzy
  one, two reference ids of one entity, a league nobody has registered, NULL source times.
* `Collection`: two captures are what can be mistaken for each other, and the second may be
  the older file, or of the same time; two pages of two items
  let an item move from one page to the next; two attempts are a retry, and `RetryAfter = 9`
  exceeds the clamp. `plan.events` bounds changes, captures and kills together in each world,
  so that sources other than the capture's meet few at a time. A change of a listing is one
  that meets a collection; one at another time is another initial listing.
* `CHECK_DEADLOCK FALSE` appears in `Concurrent` and `IngestionRuns`, where a bound
  (instants, runs) really stops the model.

### Fairness

`IngestionRuns!FairSpec`: time passes, some process ends, some process starts.
`watch_capture.py` starts a process for every capture, which ends with its cycle, and the
watchdog restarts the poller. Weak fairness is on the disjunction over processes: no
particular one need end or start, and none need get on with its run. `WriteContention!Spec`:
the poller goes on (`run_forever`), and transactions of others end. No property assumes that
a write succeeds. `Collection!Spec`: the poller takes its next step, whichever it is, and is
started again after a kill. No server need ever answer well, and neither the human nor the
watcher need do anything. Waiting is part of a step, which is why `CapturesAreTakenUp` needs
`WaitsAreBounded` beside it, and each request is assumed to end. That a run's own row cannot
be written, and the cycle ends for all sources, is the matter of `WriteContention`.
`Migrations` states no liveness.

## 4. Proofs

| Module | Theorems, of every run, for all constants |
|---|---|
| `DetectionCycle_proofs` | `Typing`, `JournalKeepsOrder`, `JournalMirrorsTable`, `JournalReadsAsEpisodes`, `RowsCoherent`, `OnlyJudgedChange`, `Promise` (the refinement of `OpportunityTracking`) |
| `ConcurrentSweeps_proofs` | `Typing`, `ColumnsAlwaysAgree`, `NothingUnjournalled` |
| `OddsMovement_proofs` | `Typing`, `NeverAcrossProviders`, `NothingOutdated`, `RaisingMeansDisorder` |
| `IngestionRuns_proofs` | `Typing`, `RunsTellTheTruth`, `VerdictsAreFinal`, `RateLimit` |
| `WriteContention_proofs` | `Typing`, `DetectionIsClean` |
| `Collection_proofs` | `Typing`, `DatedByItsFile`, `NoCaptureVanishes`, `MovedOnceHandedOverOnce`, `CompleteHasAll`, `NobodyWaitsLonger` |
| `FixtureCatalog_proofs` | `Shape`, `ClosedStaysClosed`, `VerifiedStaysPut`, `RowsLeadSomewhere`; with `Curated(Sighting)` also `FixturesKeepApart` |
| `SweepAnalysis_proofs` | `Types`, `OnlyFreshQuotesCount`, `EveryCandidateIsJudged`, `NothingMissed`, `NothingLost` |

Seldom is a property inductive as it stands. Each module of proofs begins with the invariant
that is, which TLC has checked on the instance of the module's run, and says in its comments
what each part is for.

**`DetectionCycle`.** The properties speak of `db`, but a commit publishes `work`, so the
invariant must say of `work` what it says of `db`, and what an open transaction has done so
far:

    Inv == TypeOK /\ now <= clock /\ Sound(db, now) /\ Sound(work, now)
           /\ SweepSoFar /\ ExpirySoFar

`Sound(t, c)` is the conjunction of the four properties of tables
with what they need to be kept: no row or journal entry is younger than `c`. One lemma for
each row operation (`UpsertSound`, `CloseSound`, `PruneSound`, `SoundLater`) shows that it
keeps tables sound, another what it changes (`UpsertEffect`, `CloseEffect`). `SweepSoFar`
says that a reconcile has so far changed only rows it judged, that the rows it has seen are
ACTIVE at `now`, and that the others are as committed or resolved; `ExpirySoFar` says the
same of the expiry. The refinement follows: a commit of a reconcile is `Sweep(evaluated,
seen)` of `OpportunityTracking`, the commit of the expiry or a failure is `EndCycle`, all
else stutters.

**`ConcurrentSweeps`.** A process writes rows that it read before it had the write lock. The
properties hold nevertheless because tables only grow (`Grows`: no signal is deleted, and no
journal row is, in this module): what was read was once true of the tables (`ReadWasTrue`),
so its claim is in the journal still. `Serialised` says that one process at a time has a
transaction that writes.

**`OddsMovement`.** A sweep holds at most one reading, a row the table has had (`OneCurrent`).
The second query sees one moment of the table, in whatever order that was filled; the two
checks of `detect_rapid_movement`, on either clock, together order its row before the reading
held (`FoundIsPair`), so nothing that query saw can be later than that reading. Nothing is
assumed of the order of polls and dates; therefore a sweep may raise because of a source's
clock alone, and the theorem says that there is no third reason.

**`IngestionRuns`.** `Accounts` follows a live run record by record, with the one step
between its odds and its payload; `Ledger` says that a live run has a row of its own; `Budget`
is the arithmetic that turns the gate's comparison with the latest row into a bound over all
time. `MaxRuns` is at least 1.

**`WriteContention`.** `Counting`: the loops of a cycle do not count below zero, so a
transaction is open only where the code says it is.

**`Collection`.** `Paging` bounds the wait by the requests answered so far and the attempts
of the present one; `Covered` says that a promised fixture is on a page to come or was got,
at whatever place it now is; `Filed` that names in the history have suffixes no later one
gets. `Moving` says whose time and whose text a process holds, unless the human met it;
`Arrives` what became of the records of each capture in the history; and `Once`, while the
human has met nobody between a read and a move (`Calm`), that they are with one process or
were handed over, once. The worlds must have the
types of `CollectionAssumption`, and are otherwise any.

**`FixtureCatalog`.** For the decisions that stand, the invariant is slight (`Tables`); the
argument is in one step. `SaveId` and `SaveEventId` overwrite a VERIFIED row, so each of the
three paths of `match` has to be shown to have looked first. `Stands(m, n)`, that the
decisions in m still stand in n, is reflexive and transitive, so that a path is the chain of
its calls (`...Stands`, one lemma for each). `ResolveCompetitionStands` says besides that
the league's id then leads to the competition returned, on which the path by context relies;
`ContextLeads` that no event is chosen by context against the ids of its sides; in
`LearnSideStands` the base is the tables before both sides, because a provider may give both
the same id.

For `TypeOK`, the references between the tables and their unique indexes, it is `WellFormed`:

    WellFormed == Sane(cat) /\ cat.ok /\ DOMAIN about \subseteq DOMAIN cat.events /\ ...

`Sane(c)` also holds of the tables inside a transaction, where `ok` may have become false:
ids were given in order (so `NextId`, a count, is new), entities and mappings lead to rows
that exist, and `ok` implies the indexes. `Reaches(c, d)`, d is sane and has every id and
membership of c, is reflexive and transitive; each operator reaches (`...Reaches`), so that a
competition, team or event that one step of `match` found or created is still there for the
next. That is not to be taken for granted: `CreateTeam` and `RefOfNew` look at the tables of
the moment, and two sides of one fixture may carry the same id. `Reaches` needs ids never to
be taken away, which is so because nothing in the catalog deletes an entity.

That no two fixtures share an event (`FixturesKeepApart`) is not true of whatever providers
might report. The theorem takes as its hypothesis what the catalog relies on without being
able to see it, `Curated(Sighting)`, stated with two constants the code does not know: what
each name stands for (`Called`) and the league of each real fixture (`League`):

* an alias, or a spelling similar enough, is another name for the same;
* leagues of one name differ by country or by a provider's id, and who gives no country keeps
  to leagues without namesakes (otherwise see the behaviour noted in section 3);
* a club is not at home, nor away, twice in its league within the tolerance: `match` accepts
  one side as evidence for a fixture;
* the id of a team may be given to another club, but to one of a league where the former
  holder does not play on that side: `_team_evidence_score` asks where an id leads, not
  whether the name it comes with has drifted, which only `_resolve_team` does, and later;
* the id of a fixture may be given to another fixture, if that shows in what
  `_event_mapping_is_compatible` compares: the country, an id of a part, or the name of a part
  that has no id.

TLC finds that the reports of the run satisfy it, and so does `Season`, which adds the return
match, a match of the same clubs some days later, and a provider that identifies no club
(`ReportsAreCurated`, `SeasonIsCurated`). The invariant is

    Faithful == WellFormed /\ (reviews = 0 => Truthful(cat) /\ Recorded(cat, about))

`Truthful` says what a row means: a competition is the league of some sighting of its name
and country, a team is a club of its name, and a VERIFIED mapping repeats what some sighting
said of its target; a row in quarantine, or UNVERIFIED, may say anything. `Recorded` says
that each event is used for one fixture, of whose sightings one has the event's start and
is about its competition and sides, and that a VERIFIED id of a fixture was reported for the
event's fixture, with the names the row holds. `Follows(c, d)`, d is reached from c without a
lie and has not touched an event, is transitive as `Reaches` is, so each operator
is dealt with alone (`...Resolved`, `...Learned`), up to the last step of `match`, which
changes an event or creates one (`FixtureTold`). There the three paths differ in how they
know the event: by a compatible id (`IdShows`), by league, start and one side
(`ContextTrue`), or by both sides (`NearAndAlike`). A reviewer may be wrong, so nothing is
said once one has decided.

**`SweepAnalysis`.** What a sweep concludes is a function of the fresh quotes
(`SameConclusions`); for this the sum of the margin and the choice of the median are never
unfolded.

That the sweep misses no arbitrage compares a sum of quotients, all rounded, with exact bets.
The sums are functions defined by recursion on an index. Such a function has a value only if
it exists: if the equation had no solution up to some n, there would be a smallest such n
(`Least`), up to whose predecessor there is one, which can be continued (`SumUnfolds`,
`DecimalSumUnfolds`). `Rounding` says of the conversion to significant digits that it errs by
half a last digit at most and keeps to the side of one that the exact number is on, whatever
the last digit stands for. So every share and every addition errs by half of `Ulp` at most,
as long as the sum is below one (`MarginIsNear`). On the other side, `SumBound` adds up the
inequality that each bet of an arbitrage satisfies (`PayingBet`): the shares add up to less
than one by more than those errors, if the stakes are small against `Scale`
(`BetsAssumption`), and so the margin is below one (`PayingBets`, for `NothingMissed`). The
converse (`SharesPay`) holds up to those errors, for `NothingLost`: three prices of 3.00
round down to a margin just below one, and gain nothing.

The assumptions are those named in the modules: identities have a known type, an event and
a market; sightings and worlds have their types; bookmakers and outcomes are finitely many;
bounds and durations are natural numbers, of which some are not zero; a market has two or
three outcomes, as `REQUIRED_OUTCOMES` has. `Curated` is a hypothesis of the one theorem only,
and said above. Odds have no upper limit and any number of digits: `Unit` and `Ulp` are as
fine as the longest price needs. `BetsAssumption` is about the bets that `NothingMissed`
speaks of and not about the program: n * (Unit * T + 1) < 10^28 for stakes of T in all, so
with prices in hundredths and three outcomes, T may be 3 * 10^25.

Only model-checked:

* liveness (`RunsEnd`, `CyclesResume`, `CapturesAreTakenUp`), which the prover does not reach;
* `Migrations`: what a file looks like after a startup is a fold over the statements, which
  needs induction over data.

## 5. Not modelled, and the plan

Not modelled:

* Identity clean-up (`identity_cleanup.py` and its scripts). It deletes teams and
  competitions that no event, no reviewed mapping and no membership protects. But `match`
  creates each together with an event in one transaction, and the program never deletes an
  event: such entities come only from SQL typed by hand. The plan is recomputed under
  `BEGIN IMMEDIATE`. A model would have no state in which it could err.
  `scripts/merge_duplicate_identities.py` is a tool for a single use; read beside the
  catalog's model, it leaves name mappings with the context of a merged competition, and may
  meet the unique indexes of signals and odds when it merges events that have both.
* Provider health: a report computed from `collector_runs`, on which nothing acts.
* The bookmaker catalog beyond its transaction: resolve or create by an exact normalized
  name, without the trust states, ids and contexts that make the fixture catalog hard.
* The parsing of provider formats and the single requests of the-odds-api and the demo (unit
  tests cover them well); raw record validation (a predicate per field; any verdict is
  possible in `IngestionRuns`); configuration (its values are the constants); reporting,
  logging, the lag report, and scripts that only copy or print.
