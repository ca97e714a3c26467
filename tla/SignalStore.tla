----------------------------- MODULE SignalStore -----------------------------
(***************************************************************************)
(* The tables signals and signal_history and the row operations of         *)
(* storage/signal_repository.py, as functions from table contents to table *)
(* contents.  A transaction is a chain of these operations applied to a    *)
(* private copy of the tables; the modules that use this one say when a    *)
(* copy is taken and when it is published.                                 *)
(*                                                                         *)
(* A signal is identified by (signal_type, event, market, outcome), which  *)
(* the unique index uq_signals_identity enforces, so signals is a function *)
(* of the identity.  signal_history is a set of rows keyed by an           *)
(* AUTOINCREMENT id, which is never reused, not even after a deletion.     *)
(***************************************************************************)
EXTENDS Integers

CONSTANTS
  Identity,    \* signal identities: records [type, event, market, outcome]
  Event,       \* canonical events
  Market,      \* market identities that have odds stored
  MaxEdge,     \* edges are percentages; only their order matters here
  MaxTime      \* wall-clock instants, one per detection cycle or clean-up

ASSUME IdentityAssumption ==
  \A i \in Identity : /\ i.type \in {"SUREBET", "VALUE_GAP"}
                      /\ i.event \in Event
                      /\ i.market \in Market
ASSUME BoundsAssumption == MaxEdge \in Nat /\ MaxTime \in Nat

Edge == 1 .. MaxEdge
Time == 0 .. MaxTime

None == -1                  \* SQL NULL in resolved_at

Status == {"ACTIVE", "RESOLVED", "EXPIRED"}
Kind == {"created", "reactivated", "edge_peak", "resolved", "expired"}

SignalRow == [status : Status, edge : Edge, peak : Edge,
              first : Time, last : Time, resolved : Time \cup {None}]
NoRow == [status |-> "absent"]

HistoryRow == [id : Nat, signal : Identity, kind : Kind,
               status : Status, edge : Edge, at : Time]

Tables == [signals : [Identity -> SignalRow \cup {NoRow}],
           history : SUBSET HistoryRow,
           nextId : Nat]

EmptyTables == [signals |-> [i \in Identity |-> NoRow],
                history |-> {}, nextId |-> 1]

Exists(t, i)   == t.signals[i] # NoRow
IsActive(t, i) == t.signals[i].status = "ACTIVE"

-----------------------------------------------------------------------------
(* The UPDATE or INSERT of one row of signals.                             *)
WriteRow(t, i, row) ==
  [signals |-> [t.signals EXCEPT ![i] = row], history |-> t.history, nextId |-> t.nextId]

(* Mutant: the journal row takes an id that the next one takes again.      *)
RecordWithoutCounting(t, i, row, kind, edge, now) ==
  [signals |-> [t.signals EXCEPT ![i] = row],
   history |-> t.history \cup {[id |-> t.nextId, signal |-> i, kind |-> kind,
                                status |-> row.status, edge |-> edge, at |-> now]},
   nextId |-> t.nextId]

(* The same, followed by _record_history.                                  *)
WriteAndRecord(t, i, row, kind, edge, now) ==
  [signals |-> [t.signals EXCEPT ![i] = row],
   history |-> t.history \cup {[id |-> t.nextId, signal |-> i, kind |-> kind,
                                status |-> row.status, edge |-> edge, at |-> now]},
   nextId |-> t.nextId + 1]

ActiveRow(first, edge, peak, now) ==
  [status |-> "ACTIVE", edge |-> edge, peak |-> peak,
   first |-> first, last |-> now, resolved |-> None]

(* _insert: the first sighting opens the first episode.                    *)
Insert(t, i, edge, now) ==
  WriteAndRecord(t, i, ActiveRow(now, edge, edge, now), "created", edge, now)

(* Mutant: a reactivation is not a milestone.                              *)
TouchReopensSilently(t, i, old, edge, now) ==
  LET first == t.signals[i].first IN
  IF old.status = "ACTIVE" /\ edge > old.peak
    THEN WriteAndRecord(t, i, ActiveRow(first, edge, edge, now), "edge_peak", edge, now)
    ELSE WriteRow(t, i, ActiveRow(first, edge, edge, now))

(* Mutant: the milestone is a rise over the last edge, not over the peak.  *)
TouchJournalsEveryRise(t, i, old, edge, now) ==
  LET first == t.signals[i].first IN
  IF old.status # "ACTIVE"
    THEN WriteAndRecord(t, i, ActiveRow(first, edge, edge, now), "reactivated", edge, now)
  ELSE IF edge > old.edge
    THEN WriteAndRecord(t, i, ActiveRow(first, edge, edge, now), "edge_peak", edge, now)
  ELSE WriteRow(t, i, ActiveRow(first, edge, old.peak, now))

(* Mutant: the new episode inherits the peak of the one before.            *)
TouchKeepsPeak(t, i, old, edge, now) ==
  LET first == t.signals[i].first IN
  IF old.status # "ACTIVE"
    THEN WriteAndRecord(t, i, ActiveRow(first, edge, old.peak, now), "reactivated", edge, now)
  ELSE IF edge > old.peak
    THEN WriteAndRecord(t, i, ActiveRow(first, edge, edge, now), "edge_peak", edge, now)
  ELSE WriteRow(t, i, ActiveRow(first, edge, old.peak, now))

(* _touch: old is the row _find read, t the tables the UPDATE applies to.  *)
(* A row that was not ACTIVE starts a new episode, an edge above the peak  *)
(* of the episode is a milestone, anything else leaves no history.         *)
Touch(t, i, old, edge, now) ==
  LET first == t.signals[i].first IN
  IF old.status # "ACTIVE"
    THEN WriteAndRecord(t, i, ActiveRow(first, edge, edge, now), "reactivated", edge, now)
  ELSE IF edge > old.peak
    THEN WriteAndRecord(t, i, ActiveRow(first, edge, edge, now), "edge_peak", edge, now)
  ELSE WriteRow(t, i, ActiveRow(first, edge, old.peak, now))

(* One turn of reconcile's loop over the candidates: _find, then _insert   *)
(* or _touch.                                                              *)
Upsert(t, i, edge, now) ==
  IF Exists(t, i) THEN Touch(t, i, t.signals[i], edge, now)
                  ELSE Insert(t, i, edge, now)

ClosedRow(row, status, now) ==
  [status |-> status, edge |-> row.edge, peak |-> row.peak,
   first |-> row.first, last |-> row.last, resolved |-> now]

(* Mutant: the row is closed and the journal is not told.                  *)
CloseSilently(t, i, old, status, kind, now) ==
  WriteRow(t, i, ClosedRow(t.signals[i], status, now))

(* An ACTIVE row leaves that status; the journal repeats the edge of the   *)
(* row as it was read before the UPDATE (old).                             *)
CloseAs(t, i, old, status, kind, now) ==
  WriteAndRecord(t, i, ClosedRow(t.signals[i], status, now), kind, old.edge, now)

(* One turn of the loop of _resolve_stale.                                 *)
Resolve(t, i, now) == CloseAs(t, i, t.signals[i], "RESOLVED", "resolved", now)

(* One turn of the loop of expire_active_signals.                          *)
Expire(t, i, now) == CloseAs(t, i, t.signals[i], "EXPIRED", "expired", now)

(* The part of run_retention_cleanup that touches these tables: journal    *)
(* rows recorded before the cutoff go, signals stay for ever.              *)
Prune(t, cutoff) == [t EXCEPT !.history = {h \in t.history : h.at >= cutoff}]

-----------------------------------------------------------------------------
(* h is the newest journal row of its signal.                              *)
IsLatest(t, h) == \A g \in t.history : g.signal = h.signal => g.id <= h.id

(* g and h are neighbours in the journal of one signal.                    *)
Consecutive(t, g, h) ==
  /\ g.signal = h.signal
  /\ g.id < h.id
  /\ \A k \in t.history : k.signal = g.signal => ~ (g.id < k.id /\ k.id < h.id)

(* The journal numbers its rows and the clock never goes back, so the      *)
(* order find_history reports (recorded_at, id) is the order of the ids.   *)
JournalInOrder(t) ==
  /\ \A h \in t.history : h.id < t.nextId /\ Exists(t, h.signal)
  /\ \A g, h \in t.history : g.id = h.id => g = h
  /\ \A g, h \in t.history : g.id < h.id => g.at <= h.at

(* The newest journal row of a signal tells the state of its row: an open  *)
(* episode shows its peak, a closed one its last edge and when it closed.  *)
JournalMirrorsRow(t) ==
  \A h \in t.history : IsLatest(t, h) =>
    LET row == t.signals[h.signal] IN
    /\ h.status = row.status
    /\ row.status = "ACTIVE" => h.edge = row.peak /\ h.at <= row.last
    /\ row.status # "ACTIVE" => h.edge = row.edge /\ h.at = row.resolved

(* What is left of a journal reads as whole episodes: a close follows an   *)
(* open, an open follows a close, and peaks rise within an episode.        *)
JournalTellsEpisodes(t) ==
  \A g, h \in t.history : Consecutive(t, g, h) =>
    /\ h.kind = "reactivated" <=> g.status # "ACTIVE"
    /\ h.kind # "created"
    /\ h.kind = "edge_peak" => h.edge > g.edge

(* The columns of a row agree with each other.                             *)
RowCoherent(t) ==
  \A i \in Identity : Exists(t, i) =>
    LET row == t.signals[i] IN
    /\ row.status = "ACTIVE" <=> row.resolved = None
    /\ row.edge <= row.peak
    /\ row.first <= row.last
    /\ row.resolved # None => row.last <= row.resolved
=============================================================================
