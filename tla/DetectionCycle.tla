---------------------------- MODULE DetectionCycle ----------------------------
(***************************************************************************)
(* pipeline.run_detection as one process runs it, again and again: the     *)
(* poller's loop, or app.py started by hand.  A cycle fixes its instant    *)
(* now, drops the events known to be over, sweeps the markets one by one   *)
(* (a reconcile transaction for SUREBET, another for VALUE_GAP, then the   *)
(* movements) and ends with the transaction that expires signals.          *)
(*                                                                         *)
(* Each turn of the loops inside a transaction is a step on the copy work; *)
(* only the commit makes it the contents of db.  At any point the process  *)
(* can fail: an exception rolls the open transaction back and ends the     *)
(* cycle (poller.run_forever logs it and starts the next one), a crash     *)
(* does the same.  Between cycles ingestion reports what the providers say *)
(* of an event, and between transactions somebody may run the retention    *)
(* clean-up by hand.                                                       *)
(***************************************************************************)
EXTENDS SignalStore

CONSTANTS
  SignalTTL,          \* config.signal_ttl
  HistoryRetention,   \* config.signal_history_retention
  Kickoff             \* the start times providers report

ASSUME PolicyAssumption ==
  SignalTTL \in Nat /\ HistoryRetention \in Nat /\ Kickoff \subseteq Int

VARIABLES
  clock,      \* the latest instant any process has read
  start,      \* events.start_time
  over,       \* events whose event_status says FINISHED or
              \* POSTPONED_OR_CANCELED (any other status, or none, is not over)
  db,         \* the committed tables
  work,       \* the tables as the open transaction sees them
  pc,         \* where the cycle is
  now,        \* the instant of this cycle
  events,     \* the events this cycle analyses
  todo,       \* markets this cycle has still to sweep
  market,     \* the market being swept
  kind,       \* the signal type being reconciled
  evaluated,  \* evaluated_keys of the sweep being reconciled
  seen        \* seen_ids of the sweep being reconciled

world == <<start, over>>
sweep == <<market, kind>>
vars == <<clock, world, db, work, pc, now, events, todo, sweep, evaluated, seen>>

TypeOK ==
  /\ clock \in Time
  /\ start \in [Event -> Kickoff]
  /\ over \subseteq Event
  /\ db \in Tables /\ work \in Tables
  /\ pc \in {"idle", "next", "sweep", "upsert", "resolve", "movements", "expire"}
  /\ now \in Time
  /\ events \subseteq Event
  /\ todo \subseteq Market
  /\ market \in Market
  /\ kind \in {"SUREBET", "VALUE_GAP"}
  /\ evaluated \subseteq Identity
  /\ seen \subseteq evaluated

Init ==
  /\ clock = 0 /\ now = 0
  /\ start \in [Event -> Kickoff]
  /\ over = {}
  /\ db = EmptyTables /\ work = EmptyTables
  /\ pc = "idle"
  /\ events = {} /\ todo = {} /\ evaluated = {} /\ seen = {}
  /\ market \in Market
  /\ kind = "SUREBET"

-----------------------------------------------------------------------------
(* What the sweep of the current market and signal type is about.          *)
InScope(i) == i.type = kind /\ i.market = market /\ i.event \in events

(* Mutant: the ids seen in one sweep stay in memory for the next.          *)
CloseTransactionKeepsSeen == work' = EmptyTables /\ evaluated' = {} /\ UNCHANGED seen

(* No transaction is open: the next one starts from the committed tables.  *)
CloseTransaction == work' = EmptyTables /\ evaluated' = {} /\ seen' = {}

(* The head of run_detection: the clock has moved since the last cycle,    *)
(* the touched events that are over are dropped, and the markets stored    *)
(* for the others are found.                                               *)
StartCycle ==
  /\ pc = "idle"
  /\ \E t \in Time : t > clock /\ clock' = t /\ now' = t
  /\ \E touched \in SUBSET Event : events' = touched \ over
  /\ todo' \in IF events' = {} THEN {{}} ELSE SUBSET Market
  /\ pc' = "next"
  /\ UNCHANGED <<world, db, work, sweep, evaluated, seen>>

NextMarket ==
  /\ pc = "next"
  /\ \E m \in todo : market' = m /\ todo' = todo \ {m}
  /\ kind' = "SUREBET"
  /\ pc' = "sweep"
  /\ UNCHANGED <<clock, world, db, work, now, events, evaluated, seen>>

(* detect_surebet_candidates or detect_value_gap_candidates, then the      *)
(* start of reconcile.  Which identities the stored odds allow the sweep   *)
(* to judge is left open here.                                             *)
BeginReconcile ==
  /\ pc = "sweep"
  /\ evaluated' \in SUBSET {i \in Identity : InScope(i)}
  /\ seen' = {}
  /\ work' = db
  /\ pc' = "upsert"
  /\ UNCHANGED <<clock, world, db, now, events, todo, sweep>>

(* One candidate.  SUREBET has at most one for an identity, VALUE_GAP one  *)
(* for each bookmaker whose price stands out.                              *)
UpsertCandidate ==
  /\ pc = "upsert"
  /\ \E i \in evaluated, edge \in Edge :
       /\ kind = "SUREBET" => i \notin seen
       /\ work' = Upsert(work, i, edge, now)
       /\ seen' = seen \cup {i}
  /\ UNCHANGED <<clock, world, db, pc, now, events, todo, sweep, evaluated>>

EndCandidates ==
  /\ pc = "upsert"
  /\ pc' = "resolve"
  /\ UNCHANGED <<clock, world, db, work, now, events, todo, sweep, evaluated, seen>>

(* Mutant: "could not tell" counts as "is gone".                           *)
StaleUnlessSeen == {i \in Identity : InScope(i) /\ i \notin seen /\ IsActive(work, i)}

(* The rows _resolve_stale closes: ACTIVE, judged by this sweep, not seen. *)
Stale == {i \in evaluated \ seen : IsActive(work, i)}

ResolveStale ==
  /\ pc = "resolve"
  /\ \E i \in Stale : work' = Resolve(work, i, now)
  /\ UNCHANGED <<clock, world, db, pc, now, events, todo, sweep, evaluated, seen>>

CommitReconcile ==
  /\ pc = "resolve"
  /\ Stale = {}
  /\ db' = work
  /\ CloseTransaction
  /\ kind' = "VALUE_GAP"
  /\ pc' = IF kind = "SUREBET" THEN "sweep" ELSE "movements"
  /\ UNCHANGED <<clock, world, now, events, todo, market>>

(* detect_movements and its saves touch neither table.                     *)
SaveMovements ==
  /\ pc = "movements"
  /\ pc' = "next"
  /\ UNCHANGED <<clock, world, db, work, now, events, todo, sweep, evaluated, seen>>

(* expire_active_signals after the last market.                            *)
BeginExpire ==
  /\ pc = "next"
  /\ todo = {}
  /\ work' = db
  /\ pc' = "expire"
  /\ UNCHANGED <<clock, world, db, now, events, todo, sweep, evaluated, seen>>

(* Mutant: the SELECT without last_seen_at < expired_at.                   *)
ExpirableEvenIfSeen ==
  {i \in Identity : /\ IsActive(work, i)
                    /\ start[i.event] < now - SignalTTL \/ i.event \in over}

(* Its SELECT: not seen since this cycle began, and the event either       *)
(* started longer than the TTL ago or is known to be over.                 *)
Expirable ==
  {i \in Identity : /\ IsActive(work, i)
                    /\ work.signals[i].last < now
                    /\ start[i.event] < now - SignalTTL \/ i.event \in over}

ExpireOne ==
  /\ pc = "expire"
  /\ \E i \in Expirable : work' = Expire(work, i, now)
  /\ UNCHANGED <<clock, world, db, pc, now, events, todo, sweep, evaluated, seen>>

CommitExpire ==
  /\ pc = "expire"
  /\ Expirable = {}
  /\ db' = work
  /\ CloseTransaction
  /\ events' = {}
  /\ pc' = "idle"
  /\ UNCHANGED <<clock, world, now, todo, sweep>>

(* An exception anywhere in the cycle, or a crash and restart: an open     *)
(* transaction is rolled back, the rest of the cycle does not happen.      *)
Fail ==
  /\ pc # "idle"
  /\ CloseTransaction
  /\ events' = {} /\ todo' = {}
  /\ pc' = "idle"
  /\ UNCHANGED <<clock, world, db, now, sweep>>

(* EventStatusRepository.update from ingestion, before a detection: the    *)
(* last report wins, whichever way it goes.                                *)
ReportLifecycle ==
  /\ pc = "idle"
  /\ \E e \in Event : over' \in {over \cup {e}, over \ {e}}
  /\ UNCHANGED <<clock, start, db, work, pc, now, events, todo, sweep, evaluated, seen>>

(* A provider moves a kick-off (FixtureCatalog._sync_event_start_time).    *)
MoveStart ==
  /\ pc = "idle"
  /\ \E e \in Event, k \in Kickoff : start' = [start EXCEPT ![e] = k]
  /\ UNCHANGED <<clock, over, db, work, pc, now, events, todo, sweep, evaluated, seen>>

(* run_retention_cleanup, by hand, in a process of its own: its deletes    *)
(* wait for the transaction of the cycle, if one is open.                  *)
CleanUp ==
  /\ pc \notin {"upsert", "resolve", "expire"}
  /\ \E t \in Time : /\ t >= clock
                     /\ clock' = t
                     /\ db' = Prune(db, t - HistoryRetention)
  /\ UNCHANGED <<world, work, pc, now, events, todo, sweep, evaluated, seen>>

Next ==
  \/ StartCycle \/ NextMarket \/ SaveMovements
  \/ BeginReconcile \/ UpsertCandidate \/ EndCandidates
  \/ ResolveStale \/ CommitReconcile
  \/ BeginExpire \/ ExpireOne \/ CommitExpire
  \/ Fail \/ ReportLifecycle \/ MoveStart \/ CleanUp

Spec == Init /\ [][Next]_vars

-----------------------------------------------------------------------------
(* The journal is a faithful log although the clean-up deletes from it by  *)
(* recorded_at and the reader sorts it by recorded_at: its ids are unique, *)
(* below the counter, and in the order of its instants.                    *)
JournalOrder == JournalInOrder(db)

(* A reader who looks only at the newest journal row of a signal learns    *)
(* the state of the signal: status, peak of the open episode, or last edge *)
(* and instant of the closed one, whatever crashes and roll-backs did.     *)
JournalMirror == JournalMirrorsRow(db)

(* How often an opportunity reopened and what each episode's peak was can  *)
(* be read off the journal (the reason migration 14 gives for it).         *)
JournalEpisodes == JournalTellsEpisodes(db)

(* resolved_at is set exactly while the row is closed, the peak bounds the *)
(* edge, and first_seen_at <= last_seen_at <= resolved_at.                 *)
RowColumns == RowCoherent(db)

(* The view of the tables that readers outside a cycle have: what the      *)
(* cycle has confirmed so far is what carries its instant.                 *)
PhaseOf(row) == CASE row.status = "ACTIVE"   -> "open"
                  [] row.status = "RESOLVED" -> "gone"
                  [] row.status = "EXPIRED"  -> "lapsed"
                  [] OTHER                   -> "unseen"
phaseBar == [i \in Identity |-> PhaseOf(db.signals[i])]
confirmedBar ==
  IF pc = "idle" THEN {}
  ELSE {i \in Identity : IsActive(db, i) /\ db.signals[i].last = now}

Tracking == INSTANCE OpportunityTracking
              WITH phase <- phaseBar, confirmed <- confirmedBar

(* run_detection keeps the promise of OpportunityTracking: in particular a *)
(* signal reconciled in a cycle is never expired by the same cycle, and a  *)
(* sweep speaks for one market and one signal type only.                   *)
KeepsPromise == Tracking!Spec

(* "Could not tell" is not "is gone": until the expiry, a cycle changes no *)
(* row of a signal that the odds did not let the committing sweep judge.   *)
UnjudgedUntouched ==
  [][\A i \in Identity :
       db'.signals[i] # db.signals[i] => i \in evaluated \/ pc = "expire"]_vars
=============================================================================
