---------------------------- MODULE WriteContention ----------------------------
(***************************************************************************)
(* The poller's one SQLite connection over many cycles, while other        *)
(* processes (app.py for a captured file, the clean-up scripts) write to   *)
(* the same database file.  What is modelled of the cycle is the order of  *)
(* its accesses and in which of three ways each of them writes:            *)
(*                                                                         *)
(*   bare       execute() and commit(), with nothing around them:          *)
(*              CollectorRunRepository.save and finish,                    *)
(*              RawPayloadRepository.save, MovementRepository.save         *)
(*   managed    with connection: ... , which rolls back on an exception:   *)
(*              OddsRepository, EventStatusRepository, SignalRepository    *)
(*   immediate  BEGIN IMMEDIATE, then commit or rollback:                  *)
(*              FixtureCatalog.match, BookmakerCatalog.resolve             *)
(*                                                                         *)
(* Python's sqlite3 sends BEGIN before an INSERT or UPDATE.  If that write *)
(* then gives up waiting for the lock, a bare access leaves the BEGIN in   *)
(* force.  A SELECT inside such a transaction pins the snapshot it reads,  *)
(* and once another process has committed, SQLite refuses every write on   *)
(* that snapshot (SQLITE_BUSY_SNAPSHOT) until a rollback.                  *)
(***************************************************************************)
EXTENDS Naturals

CONSTANTS
  MaxPolls,      \* collectors of one cycle
  MaxRecords,    \* records of one collection
  MaxMarkets,    \* markets one detection sweeps
  RateGated      \* a rate-limited source is configured: find_latest_by_source runs

ASSUME ContentionAssumption ==
  /\ MaxPolls \in Nat \ {0} /\ MaxRecords \in Nat /\ MaxMarkets \in Nat
  /\ RateGated \in BOOLEAN

VARIABLES
  held,    \* another process holds the write lock
  tx,      \* the poller's connection: "none" (autocommit), "open" (BEGIN, nothing
           \* read yet), "pinned" (reads the newest commit), "stale" (reads an older one)
  pc,      \* the next access of the cycle
  polls,   \* collectors of this cycle that have not finished
  records, \* records of this collection not processed yet
  markets  \* markets this cycle has still to sweep

work == <<polls, records, markets>>
vars == <<held, tx, pc, work>>

TypeOK ==
  /\ held \in BOOLEAN
  /\ tx \in {"none", "open", "pinned", "stale"}
  /\ pc \in {"gate", "start", "collect", "match", "odds", "payload", "finish",
             "signals", "movements", "expire", "done"}
  /\ polls \in 0 .. MaxPolls
  /\ records \in 0 .. MaxRecords
  /\ markets \in 0 .. MaxMarkets

Init ==
  /\ held = FALSE /\ tx = "none" /\ pc = "gate"
  /\ polls = 0 /\ records = 0 /\ markets = 0

-----------------------------------------------------------------------------
(* Another process begins, commits, or rolls back its transaction.         *)
OtherBegins == ~ held /\ held' = TRUE /\ UNCHANGED <<tx, pc, work>>

OtherCommits ==
  /\ held
  /\ held' = FALSE
  /\ tx' = IF tx = "pinned" THEN "stale" ELSE tx
  /\ UNCHANGED <<pc, work>>

OtherRollsBack == held /\ held' = FALSE /\ UNCHANGED <<tx, pc, work>>

(* A write of the poller goes through, and is committed.                   *)
WriteOk == ~ held /\ tx # "stale" /\ tx' = "none"

(* It waits for busy_timeout in vain, or its snapshot is too old.          *)
WriteFails == held \/ tx = "stale"

BareFails    == WriteFails /\ tx' = IF tx = "none" THEN "open" ELSE tx
ManagedFails == WriteFails /\ tx' = "none"

(* BEGIN IMMEDIATE also raises inside a transaction.                       *)
ImmediateOk == ~ held /\ tx = "none"

(* An exception leaves the cycle; run_forever logs it and goes on.         *)
NextCycle == pc' = "gate" /\ polls' = 0 /\ records' = 0 /\ markets' = 0

-----------------------------------------------------------------------------
(* build_collectors; read: whether it looks something up in the database.  *)
ChooseCollectors(read) ==
  /\ pc = "gate"
  /\ tx' = IF read /\ tx = "open" THEN "pinned" ELSE tx
  /\ polls' \in 1 .. MaxPolls
  /\ pc' = "start"
  /\ UNCHANGED <<held, records, markets>>

(* Mutant: some table is read at the head of every cycle.                  *)
ReadAlways == ChooseCollectors(TRUE)

(* The rate gate reads collector_runs.                                     *)
Gate == ChooseCollectors(RateGated)

(* CollectorRunRepository.start.                                           *)
Start ==
  /\ pc = "start"
  /\ \/ WriteOk /\ pc' = "collect" /\ UNCHANGED work
     \/ BareFails /\ NextCycle
  /\ UNCHANGED held

(* collect touches no table; it may raise, and then only finish is left.   *)
Collect ==
  /\ pc = "collect"
  /\ records' \in 0 .. MaxRecords
  /\ pc' = IF records' = 0 THEN "finish" ELSE "match"
  /\ UNCHANGED <<held, tx, polls, markets>>

(* FixtureCatalog.match, unless the validator rejects the record before.   *)
(* It commits or rolls back; a failure, or no match, rejects the record.   *)
Match ==
  /\ pc = "match"
  /\ pc' \in IF ImmediateOk THEN {"odds", "payload"} ELSE {"payload"}
  /\ UNCHANGED <<held, tx, work>>

(* EventStatusRepository.update, BookmakerCatalog.resolve and              *)
(* OddsRepository.save_all: a failure of any of them rejects the record.   *)
SaveOdds ==
  /\ pc = "odds"
  /\ WriteOk \/ ManagedFails
  /\ pc' = "payload"
  /\ UNCHANGED <<held, work>>

(* Mutant: the end of the records is tested before the step, not after.    *)
SavePayloadOnePastTheEnd ==
  /\ pc = "payload"
  /\ WriteOk \/ BareFails
  /\ records' = records - 1
  /\ pc' = IF records = 0 THEN "finish" ELSE "match"
  /\ UNCHANGED <<held, polls, markets>>

(* RawPayloadRepository.save: a failure is logged and counted.             *)
SavePayload ==
  /\ pc = "payload"
  /\ WriteOk \/ BareFails
  /\ records' = records - 1
  /\ pc' = IF records' = 0 THEN "finish" ELSE "match"
  /\ UNCHANGED <<held, polls, markets>>

(* The next collector of the cycle, or after the last one the detection.   *)
GoOn ==
  /\ polls' = polls - 1
  /\ markets' \in IF polls' = 0 THEN 0 .. MaxMarkets ELSE {0}
  /\ pc' = CASE polls' > 0   -> "start"
             [] markets' > 0 -> "signals"
             [] OTHER        -> "expire"
  /\ UNCHANGED records

(* Mutant: a failure of finish is logged and the cycle goes on.            *)
FinishQuietly ==
  /\ pc = "finish"
  /\ WriteOk \/ BareFails
  /\ GoOn
  /\ UNCHANGED held

(* CollectorRunRepository.finish.                                          *)
Finish ==
  /\ pc = "finish"
  /\ \/ WriteOk /\ GoOn
     \/ BareFails /\ NextCycle
  /\ UNCHANGED held

(* reconcile, for SUREBET and for VALUE_GAP.                               *)
Reconcile ==
  /\ pc = "signals"
  /\ \/ WriteOk /\ pc' = "movements" /\ UNCHANGED work
     \/ ManagedFails /\ NextCycle
  /\ UNCHANGED held

(* MovementRepository.save, for a market with a movement.                  *)
SaveMovement ==
  /\ pc = "movements"
  /\ \/ /\ WriteOk \/ UNCHANGED tx
        /\ markets' = markets - 1
        /\ pc' = IF markets' = 0 THEN "expire" ELSE "signals"
        /\ UNCHANGED <<polls, records>>
     \/ BareFails /\ NextCycle
  /\ UNCHANGED held

(* expire_active_signals.                                                  *)
ExpireSignals ==
  /\ pc = "expire"
  /\ \/ WriteOk /\ pc' = "done" /\ UNCHANGED work
     \/ ManagedFails /\ NextCycle
  /\ UNCHANGED held

Sleep == pc = "done" /\ NextCycle /\ UNCHANGED <<held, tx>>

Poller ==
  \/ Gate \/ Start \/ Collect \/ Match \/ SaveOdds \/ SavePayload \/ Finish
  \/ Reconcile \/ SaveMovement \/ ExpireSignals \/ Sleep

Next == OtherBegins \/ OtherCommits \/ OtherRollsBack \/ Poller

(* The poller goes on, and transactions of other processes end.            *)
Spec ==
  /\ Init /\ [][Next]_vars
  /\ WF_vars(Poller)
  /\ WF_vars(OtherCommits \/ OtherRollsBack)

-----------------------------------------------------------------------------
(* Detection never runs inside a transaction an earlier failure left open: *)
(* its sweeps read what is committed, not an old snapshot.                 *)
DetectionStartsClean == pc \in {"signals", "movements", "expire"} => tx = "none"

(* poller.run_forever: one bad cycle does not end a run meant to keep      *)
(* going for days.  If the others leave the database alone from some time  *)
(* on, cycles complete again.                                              *)
CyclesResume == <>[](~ held) => []<>(pc = "done")
=============================================================================
