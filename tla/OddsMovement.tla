----------------------------- MODULE OddsMovement -----------------------------
(***************************************************************************)
(* The odds history and the search for price movements in it: the tables   *)
(* odds_snapshots and movements, OddsRepository, detect_movements with     *)
(* detect_rapid_movement, and MovementRepository.                          *)
(*                                                                         *)
(* A stream is an (event, bookmaker, market, outcome): the unit within     *)
(* which snapshots compete for being the latest.  Several providers may    *)
(* report the same stream.  A snapshot has two times: observed_at, when we *)
(* polled it, and quote_time, when the source says the price was current   *)
(* (observed_at if it does not say).                                       *)
(*                                                                         *)
(* A sweep looks for movements stream by stream, with two queries for      *)
(* each, outside any transaction; it saves what it found only when it has  *)
(* been through all of them, one commit for each movement.                 *)
(*                                                                         *)
(* Readings are stored in any order: observed_at is set when a collection  *)
(* begins or taken from the time of a file, and the row is written later,  *)
(* perhaps after a row of another process that was polled after it.  And a *)
(* source may date its prices as it likes, before earlier ones or ahead of *)
(* the poll: nothing refuses that.                                         *)
(***************************************************************************)
EXTENDS Integers, FiniteSets

CONSTANTS
  Stream,
  Provider,        \* includes "no known provider", which SQL's IS treats as one more value
  Price,           \* decimal odds, in hundredths
  MaxTime,
  Lag,             \* how far behind the poll a source may date its price (ahead: negative)
  Threshold,       \* threshold_percent
  MaxWindow,       \* max_window
  Retention,       \* config.odds_snapshot_retention
  MaxReadings      \* bound on the readings ever stored

ASSUME OddsAssumption ==
  /\ Price \subseteq Nat \ {0}
  /\ MaxTime \in Nat /\ Lag \subseteq Int
  /\ Threshold \in Nat /\ MaxWindow \in Nat /\ Retention \in Nat /\ MaxReadings \in Nat

VARIABLES
  clock,
  snapshots,   \* the rows of odds_snapshots
  ever,        \* a history: the rows odds_snapshots has ever had
  movements,   \* the rows of movements
  pc,          \* "idle", "scan", "compare", "save" or "raised"
  todo,        \* the streams the sweep has still to compare
  current,     \* the snapshot the first query of the current stream returned
  found        \* the movements of this sweep not saved yet

vars == <<clock, snapshots, ever, movements, pc, todo, current, found>>

Time == 0 .. MaxTime
Snapshot == [stream : Stream, provider : Provider, price : Price,
             observed : Time, quote : Int]
Movement == [stream : Stream, from : Price, to : Price, previous : Time, current : Time]

TypeOK ==
  /\ clock \in Time
  /\ ever \subseteq Snapshot /\ snapshots \subseteq ever
  /\ movements \subseteq Movement
  /\ pc \in {"idle", "scan", "compare", "save", "raised"}
  /\ todo \subseteq Stream
  /\ current \subseteq Snapshot
  /\ found \subseteq Movement

Init ==
  /\ clock = 0
  /\ snapshots = {} /\ ever = {} /\ movements = {}
  /\ pc = "idle"
  /\ todo = {} /\ current = {} /\ found = {}

-----------------------------------------------------------------------------
(* Mutant: of two readings of the same quote, the one polled first wins.   *)
LaterPolledFirst(a, b) ==
  \/ a.quote > b.quote
  \/ a.quote = b.quote /\ a.observed < b.observed

(* _latest_order_by: quote_time, then observed_at.  The third key, the row *)
(* id, never decides: a stream has one snapshot for an observed_at.        *)
Later(a, b) ==
  \/ a.quote > b.quote
  \/ a.quote = b.quote /\ a.observed > b.observed

(* The first row of a query in that order, LIMIT 1: at most one.           *)
Latest(rows) == {r \in rows : \A q \in rows \ {r} : Later(r, q)}

Of(s) == {r \in snapshots : r.stream = s}

(* Mutant: the previous reading may be another provider's.                 *)
EarlierReadingsOfAnybody(row) == Of(row.stream) \ {row}

(* The second query of find_last_two_same_provider.                        *)
EarlierReadings(row) == {r \in Of(row.stream) \ {row} : r.provider = row.provider}

(* The INSERT ... ON CONFLICT DO NOTHING of save_all: a stream has one     *)
(* snapshot for an observed_at, whoever it is from.                        *)
Store(row) ==
  IF \E r \in snapshots : r.stream = row.stream /\ r.observed = row.observed
    THEN UNCHANGED <<snapshots, ever>>
    ELSE snapshots' = snapshots \cup {row} /\ ever' = ever \cup {row}

(* A process stores one provider's reading of one stream, which it polled  *)
(* now or some time ago.                                                   *)
Ingest ==
  /\ clock' \in {clock, clock + 1} \cap Time
  /\ \E s \in Stream, p \in Provider, price \in Price, observed \in 0 .. clock', lag \in Lag :
       Store([stream |-> s, provider |-> p, price |-> price,
              observed |-> observed, quote |-> observed - lag])
  /\ Cardinality(ever') <= MaxReadings
  /\ UNCHANGED <<movements, pc, todo, current, found>>

(* find_latest_for_market finds the streams there are.                     *)
BeginScan ==
  /\ pc = "idle"
  /\ todo' = {r.stream : r \in snapshots}
  /\ pc' = "scan"
  /\ UNCHANGED <<clock, snapshots, ever, movements, current, found>>

(* The first query of find_last_two_same_provider.                         *)
ReadLatest ==
  /\ pc = "scan"
  /\ \E s \in todo : todo' = todo \ {s} /\ current' = Latest(Of(s))
  /\ pc' = "compare"
  /\ UNCHANGED <<clock, snapshots, ever, movements, found>>

Distance(a, b) == IF a > b THEN a - b ELSE b - a

(* detect_rapid_movement raises: polled in the wrong order.                *)
OutOfOrder(previous, cur) == cur.observed < previous.observed

(* Mutant: a source's clock that went back is not looked for.              *)
DetectedEitherWay(previous, cur) ==
  /\ 100 * Distance(cur.price, previous.price) >= Threshold * previous.price
  /\ cur.quote - previous.quote <= MaxWindow

(* detect_rapid_movement: the quote did not go back, and the price moved   *)
(* enough within the window.                                               *)
Detected(previous, cur) ==
  /\ cur.quote >= previous.quote
  /\ 100 * Distance(cur.price, previous.price) >= Threshold * previous.price
  /\ cur.quote - previous.quote <= MaxWindow

(* Mutant: the movement is dated by the source's clock.                    *)
TransitionByQuote(previous, cur) ==
  [stream |-> cur.stream, from |-> previous.price, to |-> cur.price,
   previous |-> previous.quote, current |-> cur.quote]

(* The MovementCandidate.                                                  *)
Transition(previous, cur) ==
  [stream |-> cur.stream, from |-> previous.price, to |-> cur.price,
   previous |-> previous.observed, current |-> cur.observed]

(* The second query, then detect_rapid_movement on the two readings.       *)
Compare ==
  /\ pc = "compare"
  /\ LET pairs == {<<p, c>> : p \in UNION {Latest(EarlierReadings(c)) : c \in current},
                              c \in current}
     IN /\ pc' = IF \E q \in pairs : OutOfOrder(q[1], q[2]) THEN "raised" ELSE "scan"
        /\ found' = found \cup {Transition(q[1], q[2]) : q \in
                      {r \in pairs : ~ OutOfOrder(r[1], r[2]) /\ Detected(r[1], r[2])}}
  /\ current' = {}
  /\ UNCHANGED <<clock, snapshots, ever, movements, todo>>

EndScan ==
  /\ pc = "scan"
  /\ todo = {}
  /\ pc' = "save"
  /\ UNCHANGED <<clock, snapshots, ever, movements, todo, current, found>>

SameTransition(m, n) ==
  m.stream = n.stream /\ m.previous = n.previous /\ m.current = n.current

(* MovementRepository.save: INSERT OR IGNORE and a commit of its own.      *)
SaveMovement ==
  /\ pc = "save"
  /\ \E m \in found :
       /\ found' = found \ {m}
       /\ movements' = IF \E n \in movements : SameTransition(m, n)
                         THEN movements ELSE movements \cup {m}
  /\ UNCHANGED <<clock, snapshots, ever, pc, todo, current>>

EndSweep ==
  /\ pc = "save"
  /\ found = {}
  /\ pc' = "idle"
  /\ UNCHANGED <<clock, snapshots, ever, movements, todo, current, found>>

(* A crash loses what is not saved; the next cycle starts afresh, as it    *)
(* does after an exception (poller.run_forever).                           *)
Restart ==
  /\ pc # "idle"
  /\ pc' = "idle"
  /\ todo' = {} /\ current' = {} /\ found' = {}
  /\ UNCHANGED <<clock, snapshots, ever, movements>>

(* run_retention_cleanup, at any time: old snapshots go, and movements     *)
(* past a retention of their own (which ones is left open: detected_at is  *)
(* not kept here).                                                         *)
CleanUp ==
  /\ snapshots' = {r \in snapshots : r.observed >= clock - Retention}
  /\ movements' \in SUBSET movements
  /\ UNCHANGED <<clock, ever, pc, todo, current, found>>

Next ==
  \/ Ingest \/ CleanUp
  \/ BeginScan \/ ReadLatest \/ Compare \/ EndScan
  \/ SaveMovement \/ EndSweep \/ Restart

Spec == Init /\ [][Next]_vars

-----------------------------------------------------------------------------
(* A movement is a change of one provider's price, never a difference      *)
(* between two providers: its prices and instants are those of two         *)
(* readings of one provider that were stored, whatever was cleaned up,     *)
(* stored late or in the same place since, and neither clock runs back     *)
(* from one to the other.  The promise of find_last_two_same_provider and  *)
(* of detect_rapid_movement.                                               *)
MovementsAreTransitions ==
  \A m \in movements : \E p, c \in ever :
    /\ p.stream = m.stream /\ p.price = m.from /\ p.observed = m.previous
    /\ c.stream = m.stream /\ c.price = m.to /\ c.observed = m.current
    /\ p.provider = c.provider
    /\ p.quote <= c.quote /\ p.observed <= c.observed

(* A sweep that was overtaken reports nothing outdated: of the provider    *)
(* whose change it finds, no other reading stored by then is later than    *)
(* the one it changed from, let alone later than the one it changed to,    *)
(* although that one was read in an earlier query and readings may have    *)
(* been stored, late or in order, in between.                              *)
MovementsJoinNewest ==
  [][\A m \in found' \ found, c \in current :
       /\ m.current = c.observed
       /\ \A r \in EarlierReadings(c) :
            /\ ~ Later(r, c)
            /\ r.observed = m.previous \/ \E q \in EarlierReadings(c) :
                                             q.observed = m.previous /\ Later(q, r)]_vars

(* detect_rapid_movement raises, and ends the sweep, for two reasons only: *)
(* a reading was stored between the two queries, so that what the sweep    *)
(* compares is no longer the latest; or the source's clock went back, a    *)
(* reading polled later being dated before one polled earlier.  Storing    *)
(* late, equal dates, several providers, the clean-up and restarts are no  *)
(* reason.  (That the second is one is not what the code's comments say:   *)
(* they want it flagged as clock_regression.)                              *)
RaisesOnlyOnDisorder ==
  [][(pc # "raised" /\ pc' = "raised") =>
       \E c \in current :
         \/ Latest(Of(c.stream)) # {c}
         \/ \E r \in EarlierReadings(c) : r.observed > c.observed /\ r.quote < c.quote]_vars
=============================================================================
