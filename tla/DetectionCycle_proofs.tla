------------------------- MODULE DetectionCycle_proofs -------------------------
(***************************************************************************)
(* Proofs about DetectionCycle for any set of signals, events and markets  *)
(* and any bounds.  Inv is inductive: both copies of the tables are sound  *)
(* at the instant of the cycle, and the copy of an open transaction        *)
(* differs from the committed tables only where its sweep may write.       *)
(***************************************************************************)
EXTENDS DetectionCycle, TLAPS

-------------------------------------------------------------------------------

(***************************************************************************)
(* What the row operations of SignalStore preserve.  Sound(t, c) says that *)
(* the tables t were written by one process whose instants never exceed c; *)
(* every operation at instant c keeps it, and so does the clean-up.        *)
(***************************************************************************)
(* No row carries an instant later than c.                                 *)
Bounded(t, c) ==
  /\ \A h \in t.history : h.at <= c
  /\ \A i \in Identity : Exists(t, i) =>
       t.signals[i].last <= c /\ t.signals[i].resolved <= c

Sound(t, c) ==
  /\ t \in Tables
  /\ JournalInOrder(t)
  /\ JournalMirrorsRow(t)
  /\ JournalTellsEpisodes(t)
  /\ RowCoherent(t)
  /\ Bounded(t, c)

(* The empty tables of a new database are sound at every instant.          *)
LEMMA EmptySound == \A c \in Time : Sound(EmptyTables, c)
<1>1. EmptyTables \in Tables
  BY DEF EmptyTables, Tables
<1>2. \A i \in Identity : ~ Exists(EmptyTables, i)
  BY DEF EmptyTables, Exists
<1>3. EmptyTables.history = {}
  BY DEF EmptyTables
<1> QED
  BY <1>1, <1>2, <1>3 DEF Sound, JournalInOrder, JournalMirrorsRow,
     JournalTellsEpisodes, RowCoherent, Bounded

(* Time passing keeps tables sound.                                        *)
LEMMA SoundLater ==
  ASSUME NEW t, NEW c \in Time, NEW d \in Time, c <= d, Sound(t, c)
  PROVE  Sound(t, d)
<1>1. Bounded(t, d)
  BY BoundsAssumption DEF Sound, Bounded, Time, Tables, HistoryRow, SignalRow, Exists, None
<1> QED BY <1>1 DEF Sound

(* A new journal row n for signal i, together with the row it mirrors.     *)
LEMMA AppendSound ==
  ASSUME NEW t, NEW u \in Tables, NEW c \in Time, NEW i \in Identity, NEW n \in HistoryRow,
         Sound(t, c),
         u.history = t.history \cup {n}, u.nextId = t.nextId + 1,
         n.id = t.nextId, n.signal = i, n.at = c,
         \A j \in Identity : j # i => u.signals[j] = t.signals[j],
         u.signals[i] \in SignalRow, RowCoherent(u),
         u.signals[i].last <= c, u.signals[i].resolved <= c,
         n.status = u.signals[i].status,
         n.status = "ACTIVE" => n.edge = u.signals[i].peak /\ n.at <= u.signals[i].last,
         n.status # "ACTIVE" => n.edge = u.signals[i].edge /\ n.at = u.signals[i].resolved,
         Exists(t, i) => /\ n.kind = "reactivated" <=> ~ IsActive(t, i)
                         /\ n.kind # "created"
                         /\ n.kind = "edge_peak" => n.edge > t.signals[i].peak
  PROVE  Sound(u, c)
<1> USE DEF Sound
<1>t. t \in Tables OBVIOUS
<1>0. /\ t.nextId \in Nat
      /\ t.history \subseteq HistoryRow
      /\ \A h \in t.history : h.id \in Nat /\ h.at \in Int /\ h.edge \in Int /\ h.signal \in Identity
      /\ n.id \in Nat /\ n.at \in Int /\ n.edge \in Int
  BY <1>t, BoundsAssumption DEF Tables, HistoryRow, Time, Edge
<1>1. \A h \in t.history : h.id < n.id /\ h.at <= n.at /\ Exists(t, h.signal)
  BY <1>0 DEF JournalInOrder, Bounded
<1>2. \A j \in Identity : Exists(t, j) => Exists(u, j)
  BY DEF Exists, SignalRow, NoRow
<1>3. JournalInOrder(u)
  <2>1. \A h \in u.history : h.id < u.nextId /\ Exists(u, h.signal)
    BY <1>0, <1>1, <1>2 DEF Exists, SignalRow, NoRow
  <2>2. \A g, h \in u.history : g.id = h.id => g = h
    BY <1>0, <1>1 DEF JournalInOrder
  <2>3. \A g, h \in u.history : g.id < h.id => g.at <= h.at
    BY <1>0, <1>1 DEF JournalInOrder
  <2> QED BY <2>1, <2>2, <2>3 DEF JournalInOrder
<1>4. JournalMirrorsRow(u)
  <2> SUFFICES ASSUME NEW h \in u.history, IsLatest(u, h)
               PROVE  LET row == u.signals[h.signal] IN
                        /\ h.status = row.status
                        /\ row.status = "ACTIVE" => h.edge = row.peak /\ h.at <= row.last
                        /\ row.status # "ACTIVE" => h.edge = row.edge /\ h.at = row.resolved
    BY DEF JournalMirrorsRow
  <2>1. CASE h.signal = i
    <3>1. h = n
      BY <2>1, <1>0, <1>1 DEF IsLatest
    <3> QED BY <3>1
  <2>2. CASE h.signal # i
    <3>1. h \in t.history /\ IsLatest(t, h)
      BY <2>2 DEF IsLatest
    <3>2. u.signals[h.signal] = t.signals[h.signal]
      BY <3>1, <2>2, <1>0
    <3> QED BY <3>1, <3>2 DEF JournalMirrorsRow
  <2> QED BY <2>1, <2>2
<1>5. JournalTellsEpisodes(u)
  <2> SUFFICES ASSUME NEW g \in u.history, NEW h \in u.history, Consecutive(u, g, h)
               PROVE  /\ h.kind = "reactivated" <=> g.status # "ACTIVE"
                      /\ h.kind # "created"
                      /\ h.kind = "edge_peak" => h.edge > g.edge
    BY DEF JournalTellsEpisodes
  <2>1. g \in t.history /\ g.id < h.id /\ g.signal = h.signal
    BY <1>0, <1>1 DEF Consecutive
  <2>2. CASE h = n
    <3>1. IsLatest(t, g)
      BY <2>1, <2>2, <1>0, <1>1 DEF IsLatest, Consecutive
    <3>2. Exists(t, i) /\ g.signal = i
      BY <2>1, <2>2, <1>1
    <3>3. /\ g.status = t.signals[i].status
          /\ g.status = "ACTIVE" => g.edge = t.signals[i].peak
      BY <3>1, <3>2, <2>1 DEF JournalMirrorsRow
    <3>4. n.kind = "edge_peak" => IsActive(t, i)
      BY <3>2
    <3> QED BY <3>2, <3>3, <3>4, <2>2 DEF IsActive
  <2>3. CASE h # n
    <3>1. h \in t.history /\ Consecutive(t, g, h)
      BY <2>3 DEF Consecutive
    <3> QED BY <3>1, <2>1 DEF JournalTellsEpisodes
  <2> QED BY <2>2, <2>3
<1>6. Bounded(u, c)
  <2>1. \A h \in u.history : h.at <= c
    BY <1>0 DEF Bounded
  <2>2. \A j \in Identity : Exists(u, j) => u.signals[j].last <= c /\ u.signals[j].resolved <= c
    BY DEF Bounded, Exists
  <2> QED BY <2>1, <2>2 DEF Bounded
<1> QED BY <1>3, <1>4, <1>5, <1>6

(* The first sighting of a signal.                                         *)
LEMMA InsertSound ==
  ASSUME NEW t, NEW instant \in Time, NEW i \in Identity, NEW edge \in Edge,
         Sound(t, instant), ~ Exists(t, i)
  PROVE  Sound(Insert(t, i, edge, instant), instant)
<1> DEFINE row == [status |-> "ACTIVE", edge |-> edge, peak |-> edge,
                   first |-> instant, last |-> instant, resolved |-> None]
           n == [id |-> t.nextId, signal |-> i, kind |-> "created",
                 status |-> "ACTIVE", edge |-> edge, at |-> instant]
           u == Insert(t, i, edge, instant)
<1>1. t \in Tables /\ row \in SignalRow /\ n \in HistoryRow
  BY DEF Sound, Tables, SignalRow, HistoryRow, Status, Kind
<1>2. u = [signals |-> [t.signals EXCEPT ![i] = row],
           history |-> t.history \cup {n}, nextId |-> t.nextId + 1]
  BY <1>1 DEF Insert, WriteAndRecord, ActiveRow
<1>3. u \in Tables /\ u.signals[i] = row /\ \A j \in Identity : j # i => u.signals[j] = t.signals[j]
  BY <1>1, <1>2 DEF Tables
<1>4. RowCoherent(u)
  <2>1. edge <= edge /\ instant <= instant
    BY BoundsAssumption DEF Edge, Time
  <2> QED BY <1>3, <2>1 DEF Sound, RowCoherent, Exists
<1>5. instant <= instant /\ None <= instant
  BY BoundsAssumption DEF Time, None
<1>6. /\ u.history = t.history \cup {n} /\ u.nextId = t.nextId + 1
      /\ n.id = t.nextId /\ n.signal = i /\ n.at = instant /\ n.status = "ACTIVE" /\ n.edge = edge
      /\ row.status = "ACTIVE" /\ row.peak = edge /\ row.last = instant /\ row.resolved = None
  BY <1>2
<1> SUFFICES Sound(u, instant)
  OBVIOUS
<1> HIDE DEF u, n, row
<1> QED BY <1>1, <1>3, <1>4, <1>5, <1>6, AppendSound

(* A further sighting: with a milestone in the journal or without.         *)
LEMMA TouchSound ==
  ASSUME NEW t, NEW instant \in Time, NEW i \in Identity, NEW edge \in Edge,
         Sound(t, instant), Exists(t, i)
  PROVE  Sound(Touch(t, i, t.signals[i], edge, instant), instant)
<1> DEFINE old == t.signals[i]
           row(p) == [status |-> "ACTIVE", edge |-> edge, peak |-> p,
                      first |-> old.first, last |-> instant, resolved |-> None]
           n(k) == [id |-> t.nextId, signal |-> i, kind |-> k,
                    status |-> "ACTIVE", edge |-> edge, at |-> instant]
           u == Touch(t, i, old, edge, instant)
<1>1. t \in Tables /\ old \in SignalRow
  BY DEF Sound, Tables, Exists
<1>2. /\ edge \in Int /\ edge <= edge /\ instant \in Int /\ instant <= instant /\ None <= instant
      /\ old.first \in Int /\ old.last \in Int /\ old.peak \in Int
      /\ old.first <= instant
  BY <1>1, BoundsAssumption DEF Sound, Bounded, RowCoherent, SignalRow, Edge, Time, None
<1>3. \A p \in Edge : row(p) \in SignalRow
  BY <1>1 DEF SignalRow, Status
<1>4. old.peak \in Edge
  BY <1>1 DEF SignalRow
<1>5. CASE old.status # "ACTIVE" \/ edge > old.peak
  <2> DEFINE k == IF old.status # "ACTIVE" THEN "reactivated" ELSE "edge_peak"
  <2>1. u = [signals |-> [t.signals EXCEPT ![i] = row(edge)],
             history |-> t.history \cup {n(k)}, nextId |-> t.nextId + 1]
    BY <1>5 DEF Touch, WriteAndRecord, ActiveRow
  <2>2. n(k) \in HistoryRow
    BY <1>1 DEF HistoryRow, Tables, Status, Kind
  <2>3. u \in Tables /\ u.signals[i] = row(edge)
        /\ \A j \in Identity : j # i => u.signals[j] = t.signals[j]
    BY <1>1, <1>3, <2>1, <2>2 DEF Tables
  <2>4. RowCoherent(u)
    BY <1>2, <2>3 DEF Sound, RowCoherent, Exists
  <2>5. /\ n(k).kind = "reactivated" <=> ~ IsActive(t, i)
        /\ n(k).kind # "created"
        /\ n(k).kind = "edge_peak" => n(k).edge > t.signals[i].peak
    BY <1>5 DEF IsActive
  <2>6. /\ u.history = t.history \cup {n(k)} /\ u.nextId = t.nextId + 1
        /\ n(k).id = t.nextId /\ n(k).signal = i /\ n(k).at = instant
        /\ n(k).status = "ACTIVE" /\ n(k).edge = edge
    BY <2>1
  <2>7. /\ row(edge).status = "ACTIVE" /\ row(edge).peak = edge
        /\ row(edge).last = instant /\ row(edge).resolved = None /\ row(edge) \in SignalRow
    BY <1>3
  <2> SUFFICES Sound(u, instant)
    OBVIOUS
  <2> HIDE DEF u, n, k, row
  <2> QED BY <2>7, <1>2, <1>3, <2>2, <2>3, <2>4, <2>5, <2>6, AppendSound
<1>6. CASE old.status = "ACTIVE" /\ ~ (edge > old.peak)
  <2>1. u = [signals |-> [t.signals EXCEPT ![i] = row(old.peak)],
             history |-> t.history, nextId |-> t.nextId]
    BY <1>6 DEF Touch, WriteRow, ActiveRow
  <2>2. /\ u \in Tables /\ u.history = t.history /\ u.nextId = t.nextId
        /\ u.signals[i] = row(old.peak)
        /\ \A j \in Identity : j # i => u.signals[j] = t.signals[j]
    BY <1>1, <1>3, <1>4, <2>1 DEF Tables
  <2>3. \A j \in Identity : Exists(u, j) <=> Exists(t, j)
    <3>1. row(old.peak) # NoRow
      <4>1. row(old.peak) \in SignalRow
        BY <1>3, <1>4
      <4> HIDE DEF row
      <4> QED BY <4>1 DEF SignalRow, NoRow
    <3> HIDE DEF row, u
    <3> QED BY <2>2, <3>1 DEF Exists
  <2>4. JournalInOrder(u)
    BY <1>1, <2>2, <2>3 DEF Sound, JournalInOrder, Tables, HistoryRow
  <2>5. JournalTellsEpisodes(u)
    BY <2>2 DEF Sound, JournalTellsEpisodes, Consecutive
  <2>6. RowCoherent(u)
    BY <1>2, <1>6, <2>2, <2>3 DEF Sound, RowCoherent
  <2>7. Bounded(u, instant)
    BY <1>2, <2>2, <2>3 DEF Sound, Bounded
  <2>8. JournalMirrorsRow(u)
    <3> SUFFICES ASSUME NEW h \in u.history, IsLatest(u, h)
                 PROVE  LET r == u.signals[h.signal] IN
                          /\ h.status = r.status
                          /\ r.status = "ACTIVE" => h.edge = r.peak /\ h.at <= r.last
                          /\ r.status # "ACTIVE" => h.edge = r.edge /\ h.at = r.resolved
      BY DEF JournalMirrorsRow
    <3>1. h \in t.history /\ IsLatest(t, h) /\ h.signal \in Identity /\ h.at <= instant
      BY <1>1, <2>2 DEF IsLatest, Tables, HistoryRow, Sound, Bounded
    <3>2. CASE h.signal = i
      BY <3>1, <3>2, <1>6, <2>2 DEF Sound, JournalMirrorsRow
    <3>3. CASE h.signal # i
      BY <3>1, <3>3, <2>2 DEF Sound, JournalMirrorsRow
    <3> QED BY <3>2, <3>3
  <2> QED BY <2>2, <2>4, <2>5, <2>6, <2>7, <2>8 DEF Sound
<1> QED BY <1>5, <1>6

(* One candidate of a sweep, whatever it finds in the table.               *)
LEMMA UpsertSound ==
  ASSUME NEW t, NEW instant \in Time, NEW i \in Identity, NEW edge \in Edge, Sound(t, instant)
  PROVE  Sound(Upsert(t, i, edge, instant), instant)
BY InsertSound, TouchSound DEF Upsert

(* A signal leaves ACTIVE, by a sweep or by expiry.                        *)
LEMMA CloseSound ==
  ASSUME NEW t, NEW instant \in Time, NEW i \in Identity, Sound(t, instant), IsActive(t, i),
         NEW s \in {"RESOLVED", "EXPIRED"}, NEW k \in {"resolved", "expired"}
  PROVE  Sound(CloseAs(t, i, t.signals[i], s, k, instant), instant)
<1> DEFINE old == t.signals[i]
           row == ClosedRow(old, s, instant)
           n == [id |-> t.nextId, signal |-> i, kind |-> k,
                 status |-> s, edge |-> old.edge, at |-> instant]
           u == CloseAs(t, i, old, s, k, instant)
<1>1. t \in Tables /\ old \in SignalRow /\ Exists(t, i)
  BY DEF Sound, Tables, Exists, IsActive, NoRow
<1>2. row \in SignalRow /\ n \in HistoryRow
  BY <1>1 DEF ClosedRow, SignalRow, HistoryRow, Status, Kind, Tables
<1>3. u = [signals |-> [t.signals EXCEPT ![i] = row],
           history |-> t.history \cup {n}, nextId |-> t.nextId + 1]
  BY DEF CloseAs, WriteAndRecord, ClosedRow
<1>4. /\ u \in Tables /\ u.signals[i] = row
      /\ \A j \in Identity : j # i => u.signals[j] = t.signals[j]
  BY <1>1, <1>2, <1>3 DEF Tables
<1>5. /\ row.status = s /\ row.edge = old.edge /\ row.peak = old.peak /\ row.resolved = instant
      /\ row.first = old.first /\ row.last = old.last
  BY DEF ClosedRow
<1>6. instant \in Int /\ instant # None /\ instant <= instant /\ old.last <= instant
  BY <1>1, BoundsAssumption DEF Time, None, Sound, Bounded
<1>7. RowCoherent(u)
  BY <1>1, <1>4, <1>5, <1>6 DEF Sound, RowCoherent, Exists
<1>8. /\ u.history = t.history \cup {n} /\ u.nextId = t.nextId + 1
      /\ n.id = t.nextId /\ n.signal = i /\ n.at = instant /\ n.status = s /\ n.edge = old.edge
      /\ n.kind = k
  BY <1>3
<1> SUFFICES Sound(u, instant)
  OBVIOUS
<1> HIDE DEF u, n, row
<1> QED BY <1>1, <1>2, <1>4, <1>5, <1>6, <1>7, <1>8, AppendSound DEF IsActive

(* The clean-up: rows go by instant, and since instants and ids agree what *)
(* is left of a journal is its end.                                        *)
LEMMA PruneSound ==
  ASSUME NEW t, NEW c \in Time, NEW cutoff \in Int, Sound(t, c)
  PROVE  Sound(Prune(t, cutoff), c)
<1> DEFINE u == Prune(t, cutoff)
<1>1. t \in Tables
  BY DEF Sound
<1>2. /\ u \in Tables /\ u.signals = t.signals /\ u.nextId = t.nextId
      /\ u.history = {h \in t.history : h.at >= cutoff}
  BY <1>1 DEF Prune, Tables
<1>3. \A h \in t.history : h.id \in Int /\ h.at \in Int
  BY <1>1, BoundsAssumption DEF Tables, HistoryRow, Time
<1> HIDE DEF u
<1>4. JournalInOrder(u) /\ RowCoherent(u) /\ Bounded(u, c)
  BY <1>2 DEF Sound, JournalInOrder, RowCoherent, Bounded, Exists
<1>5. \A g, h \in t.history : g.id <= h.id /\ g.at >= cutoff => h \in u.history
  BY <1>2, <1>3 DEF Sound, JournalInOrder
<1>6. JournalMirrorsRow(u)
  <2>1. \A h \in u.history : IsLatest(u, h) => IsLatest(t, h)
    BY <1>2, <1>3, <1>5 DEF IsLatest
  <2> QED BY <1>2, <2>1 DEF Sound, JournalMirrorsRow
<1>7. JournalTellsEpisodes(u)
  <2>1. \A g, h \in u.history : Consecutive(u, g, h) => Consecutive(t, g, h)
    BY <1>2, <1>3, <1>5 DEF Consecutive
  <2> QED BY <1>2, <2>1 DEF Sound, JournalTellsEpisodes
<1> QED BY <1>2, <1>4, <1>6, <1>7 DEF Sound, u

(* An upsert leaves its signal open and confirmed now, the others alone.   *)
LEMMA UpsertEffect ==
  ASSUME NEW t \in Tables, NEW instant \in Time, NEW i \in Identity, NEW edge \in Edge
  PROVE  LET u == Upsert(t, i, edge, instant) IN
         /\ \A j \in Identity : j # i => u.signals[j] = t.signals[j]
         /\ u.signals[i].status = "ACTIVE" /\ u.signals[i].last = instant
<1>1. \A row : /\ WriteRow(t, i, row).signals = [t.signals EXCEPT ![i] = row]
               /\ \A k, h, e : WriteAndRecord(t, i, row, k, e, h).signals
                                 = [t.signals EXCEPT ![i] = row]
  BY DEF WriteRow, WriteAndRecord
<1>2. \E f, p : Upsert(t, i, edge, instant).signals
                  = [t.signals EXCEPT ![i] = ActiveRow(f, edge, p, instant)]
  BY <1>1 DEF Upsert, Insert, Touch
<1>3. \A f, p : LET row == ActiveRow(f, edge, p, instant) IN
        row.status = "ACTIVE" /\ row.last = instant
  BY DEF ActiveRow
<1> QED BY <1>2, <1>3 DEF Tables

(* A close changes the status of its signal, and nothing of the others.    *)
LEMMA CloseEffect ==
  ASSUME NEW t \in Tables, NEW instant \in Time, NEW i \in Identity,
         NEW s \in {"RESOLVED", "EXPIRED"}, NEW k \in {"resolved", "expired"}
  PROVE  LET u == CloseAs(t, i, t.signals[i], s, k, instant) IN
         /\ \A j \in Identity : j # i => u.signals[j] = t.signals[j]
         /\ u.signals[i].status = s
BY DEF CloseAs, WriteAndRecord, ClosedRow, Tables

-------------------------------------------------------------------------------

(* What a reconcile transaction has done so far.                           *)
SweepSoFar ==
  pc \in {"upsert", "resolve"} =>
    /\ \A i \in evaluated : i.type = kind /\ i.market = market
    /\ \A i \in Identity \ evaluated : work.signals[i] = db.signals[i]
    /\ \A i \in seen : IsActive(work, i) /\ work.signals[i].last = now
    /\ \A i \in evaluated \ seen :
         \/ work.signals[i] = db.signals[i]
         \/ pc = "resolve" /\ IsActive(db, i) /\ work.signals[i].status = "RESOLVED"

(* What an expiry transaction has done so far.                             *)
ExpirySoFar ==
  pc = "expire" =>
    \A i \in Identity :
      \/ work.signals[i] = db.signals[i]
      \/ IsActive(db, i) /\ db.signals[i].last < now /\ work.signals[i].status = "EXPIRED"

Inv ==
  /\ TypeOK
  /\ now <= clock
  /\ Sound(db, now)
  /\ Sound(work, now)
  /\ SweepSoFar
  /\ ExpirySoFar

(* The initial states satisfy the invariant.                               *)
LEMMA InitInv == Init => Inv
<1> SUFFICES ASSUME Init PROVE Inv
  OBVIOUS
<1>1. now \in Time /\ now <= clock /\ clock \in Time
  BY BoundsAssumption DEF Init, Time
<1>2. Sound(db, now) /\ Sound(work, now)
  BY <1>1, EmptySound DEF Init
<1>3. TypeOK
  BY <1>1, <1>2 DEF Init, TypeOK, Sound
<1> QED BY <1>1, <1>2, <1>3 DEF Inv, Init, SweepSoFar, ExpirySoFar

(* Every step, stuttering included, keeps it.                              *)
LEMMA NextInv == Inv /\ [Next]_vars => Inv'
<1> SUFFICES ASSUME Inv, [Next]_vars PROVE Inv'
  OBVIOUS
<1> USE DEF Inv
<1>t. /\ clock \in Time /\ now \in Time /\ now <= clock /\ clock \in Int /\ now \in Int
      /\ db \in Tables /\ work \in Tables
  BY BoundsAssumption DEF TypeOK, Time
<1>e. \A c \in Time : Sound(EmptyTables, c)
  BY EmptySound
<1>1. CASE StartCycle
  <2>1. PICK t \in Time : t > clock /\ clock' = t /\ now' = t
    BY <1>1 DEF StartCycle
  <2>2. now <= t /\ t <= t
    BY <1>t, <2>1, BoundsAssumption DEF Time
  <2>3. Sound(db, t) /\ Sound(work, t)
    BY <2>2, <1>t, SoundLater
  <2>4. TypeOK'
    BY <1>1, <2>1 DEF StartCycle, TypeOK, world, sweep
  <2> QED BY <1>1, <2>1, <2>2, <2>3, <2>4
    DEF StartCycle, SweepSoFar, ExpirySoFar, world, sweep
<1>2. CASE NextMarket
  BY <1>2 DEF NextMarket, TypeOK, SweepSoFar, ExpirySoFar, world
<1>3. CASE BeginReconcile
  <2>1. TypeOK'
    BY <1>3 DEF BeginReconcile, TypeOK, world, sweep
  <2> QED BY <1>3, <2>1 DEF BeginReconcile, SweepSoFar, ExpirySoFar, InScope, world, sweep
<1>4. CASE UpsertCandidate
  <2>1. PICK i \in evaluated, edge \in Edge :
          work' = Upsert(work, i, edge, now) /\ seen' = seen \cup {i}
    BY <1>4 DEF UpsertCandidate
  <2>2. i \in Identity
    BY <2>1 DEF TypeOK
  <2>3. Sound(work', now)
    BY <1>t, <2>1, <2>2, UpsertSound
  <2>4. /\ \A j \in Identity : j # i => work'.signals[j] = work.signals[j]
        /\ work'.signals[i].status = "ACTIVE" /\ work'.signals[i].last = now
    BY <1>t, <2>1, <2>2, UpsertEffect
  <2>5. TypeOK'
    BY <1>4, <2>1, <2>3 DEF UpsertCandidate, TypeOK, world, sweep, Sound
  <2>6. SweepSoFar'
    BY <1>4, <2>1, <2>2, <2>4 DEF UpsertCandidate, SweepSoFar, IsActive, sweep, TypeOK
  <2> QED BY <1>4, <2>3, <2>5, <2>6 DEF UpsertCandidate, ExpirySoFar
<1>5. CASE EndCandidates
  BY <1>5 DEF EndCandidates, TypeOK, SweepSoFar, ExpirySoFar, IsActive, world, sweep
<1>6. CASE ResolveStale
  <2>1. PICK i \in Stale : work' = Resolve(work, i, now)
    BY <1>6 DEF ResolveStale
  <2>2. i \in Identity /\ i \in evaluated \ seen /\ IsActive(work, i)
    BY <2>1 DEF TypeOK, Stale
  <2>3. Sound(work', now)
    BY <1>t, <2>1, <2>2, CloseSound DEF Resolve
  <2>4. /\ \A j \in Identity : j # i => work'.signals[j] = work.signals[j]
        /\ work'.signals[i].status = "RESOLVED"
    BY <1>t, <2>1, <2>2, CloseEffect DEF Resolve
  <2>5. TypeOK'
    BY <1>6, <2>3 DEF ResolveStale, TypeOK, world, sweep, Sound
  <2>6. IsActive(db, i)
    BY <1>6, <2>2 DEF ResolveStale, SweepSoFar, IsActive
  <2>7. SweepSoFar'
    BY <1>6, <2>2, <2>4, <2>6 DEF ResolveStale, SweepSoFar, IsActive, sweep, TypeOK
  <2> QED BY <1>6, <2>3, <2>5, <2>7 DEF ResolveStale, ExpirySoFar
<1>7. CASE CommitReconcile
  <2>1. TypeOK'
    BY <1>7, <1>e, <1>t DEF CommitReconcile, CloseTransaction, TypeOK, world, Sound
  <2> QED BY <1>7, <1>e, <1>t, <2>1 DEF CommitReconcile, CloseTransaction, SweepSoFar, ExpirySoFar
<1>8. CASE SaveMovements
  BY <1>8 DEF SaveMovements, TypeOK, SweepSoFar, ExpirySoFar, world, sweep
<1>9. CASE BeginExpire
  BY <1>9 DEF BeginExpire, TypeOK, SweepSoFar, ExpirySoFar, world, sweep
<1>10. CASE ExpireOne
  <2>1. PICK i \in Expirable : work' = Expire(work, i, now)
    BY <1>10 DEF ExpireOne
  <2>2. i \in Identity /\ IsActive(work, i) /\ work.signals[i].last < now
    BY <2>1 DEF Expirable
  <2>3. Sound(work', now)
    BY <1>t, <2>1, <2>2, CloseSound DEF Expire
  <2>4. /\ \A j \in Identity : j # i => work'.signals[j] = work.signals[j]
        /\ work'.signals[i].status = "EXPIRED"
    BY <1>t, <2>1, <2>2, CloseEffect DEF Expire
  <2>5. TypeOK'
    BY <1>10, <2>3 DEF ExpireOne, TypeOK, world, sweep, Sound
  <2>6. IsActive(db, i) /\ db.signals[i].last < now
    BY <1>10, <2>2 DEF ExpireOne, ExpirySoFar, IsActive
  <2>7. ExpirySoFar'
    BY <1>10, <2>2, <2>4, <2>6 DEF ExpireOne, ExpirySoFar, IsActive
  <2> QED BY <1>10, <2>3, <2>5, <2>7 DEF ExpireOne, SweepSoFar
<1>11. CASE CommitExpire
  <2>1. TypeOK'
    BY <1>11, <1>e, <1>t DEF CommitExpire, CloseTransaction, TypeOK, world, sweep, Sound
  <2> QED BY <1>11, <1>e, <1>t, <2>1 DEF CommitExpire, CloseTransaction, SweepSoFar, ExpirySoFar
<1>12. CASE Fail
  <2>1. TypeOK'
    BY <1>12, <1>e, <1>t DEF Fail, CloseTransaction, TypeOK, world, sweep, Sound
  <2> QED BY <1>12, <1>e, <1>t, <2>1 DEF Fail, CloseTransaction, SweepSoFar, ExpirySoFar
<1>13. CASE ReportLifecycle
  BY <1>13 DEF ReportLifecycle, TypeOK, SweepSoFar, ExpirySoFar, sweep
<1>14. CASE MoveStart
  BY <1>14 DEF MoveStart, TypeOK, SweepSoFar, ExpirySoFar, sweep
<1>15. CASE CleanUp
  <2>1. PICK t \in Time : t >= clock /\ clock' = t /\ db' = Prune(db, t - HistoryRetention)
    BY <1>15 DEF CleanUp
  <2>2. t - HistoryRetention \in Int /\ now <= t
    BY <1>t, <2>1, BoundsAssumption, PolicyAssumption DEF Time
  <2>3. Sound(db', now)
    BY <1>t, <2>1, <2>2, PruneSound
  <2>4. TypeOK'
    BY <1>15, <2>1, <2>3 DEF CleanUp, TypeOK, world, sweep, Sound
  <2> QED BY <1>15, <2>1, <2>2, <2>3, <2>4 DEF CleanUp, SweepSoFar, ExpirySoFar
<1>16. CASE UNCHANGED vars
  BY <1>16 DEF vars, world, sweep, TypeOK, SweepSoFar, ExpirySoFar, Stale
<1> QED BY <1>1, <1>2, <1>3, <1>4, <1>5, <1>6, <1>7, <1>8, <1>9, <1>10, <1>11,
           <1>12, <1>13, <1>14, <1>15, <1>16 DEF Next

(* Inv holds for ever.                                                     *)
LEMMA Invariance == Spec => []Inv
BY InitInv, NextInv, PTL DEF Spec

(* Every variable keeps its type.                                          *)
THEOREM Typing == Spec => []TypeOK
BY Invariance, PTL DEF Inv

(* The journal keeps the order find_history reports.                       *)
THEOREM JournalKeepsOrder == Spec => []JournalOrder
<1>1. Inv => JournalOrder
  BY DEF Inv, Sound, JournalOrder
<1> QED BY <1>1, Invariance, PTL

(* The newest journal row of a signal always tells the state of its row.   *)
THEOREM JournalMirrorsTable == Spec => []JournalMirror
<1>1. Inv => JournalMirror
  BY DEF Inv, Sound, JournalMirror
<1> QED BY <1>1, Invariance, PTL

(* The journal of a signal always reads as whole episodes.                 *)
THEOREM JournalReadsAsEpisodes == Spec => []JournalEpisodes
<1>1. Inv => JournalEpisodes
  BY DEF Inv, Sound, JournalEpisodes
<1> QED BY <1>1, Invariance, PTL

(* The columns of every signal row always agree.                           *)
THEOREM RowsCoherent == Spec => []RowColumns
<1>1. Inv => RowColumns
  BY DEF Inv, Sound, RowColumns
<1> QED BY <1>1, Invariance, PTL

(* Until the expiry, only signals that the committing sweep judged change: *)
(* what a reconcile transaction could not tell stays as it was.            *)
THEOREM OnlyJudgedChange == Spec => UnjudgedUntouched
<1> DEFINE Unjudged == \A i \in Identity :
                         db'.signals[i] # db.signals[i] => i \in evaluated \/ pc = "expire"
<1>1. ASSUME Inv, [Next]_vars PROVE [Unjudged]_vars
  <2>1. CASE CommitReconcile
    <3>1. pc = "resolve" /\ db' = work
      BY <2>1 DEF CommitReconcile
    <3> QED BY <1>1, <3>1 DEF Inv, SweepSoFar
  <2>2. CASE CommitExpire
    BY <2>2 DEF CommitExpire
  <2>3. CASE CleanUp
    <3>1. db'.signals = db.signals
      BY <1>1, <2>3 DEF CleanUp, Prune, Inv, TypeOK, Tables
    <3> QED BY <3>1
  <2>4. CASE StartCycle \/ NextMarket \/ SaveMovements \/ BeginReconcile \/ UpsertCandidate
             \/ EndCandidates \/ ResolveStale \/ BeginExpire \/ ExpireOne \/ Fail
             \/ ReportLifecycle \/ MoveStart \/ UNCHANGED vars
    <3>1. db' = db
      BY <2>4 DEF StartCycle, NextMarket, SaveMovements, BeginReconcile, UpsertCandidate,
         EndCandidates, ResolveStale, BeginExpire, ExpireOne, Fail, ReportLifecycle,
         MoveStart, vars
    <3> QED BY <3>1
  <2> QED BY <1>1, <2>1, <2>2, <2>3, <2>4 DEF Next
<1> QED BY <1>1, Invariance, PTL DEF Spec, UnjudgedUntouched

-----------------------------------------------------------------------------
(* The abstract view of a database without signals is the initial one.     *)
LEMMA PromiseInit == Init => Tracking!Init
<1> SUFFICES ASSUME Init PROVE Tracking!Init
  OBVIOUS
<1>1. \A i \in Identity : PhaseOf(db.signals[i]) = "unseen"
  BY DEF Init, EmptyTables, PhaseOf, NoRow
<1> QED BY <1>1 DEF Init, Tracking!Init, phaseBar, confirmedBar

(* A step that keeps db.signals, now and stays inside or outside a cycle   *)
(* changes nothing the abstract specification sees.                        *)
LEMMA PromiseStutter ==
  ASSUME db'.signals = db.signals, now' = now, pc' = "idle" <=> pc = "idle"
  PROVE  UNCHANGED Tracking!vars
<1>1. \A i \in Identity : (IsActive(db, i))' <=> IsActive(db, i)
  BY DEF IsActive
<1> QED BY <1>1 DEF Tracking!vars, phaseBar, confirmedBar, IsActive

(* Every step of a cycle is a step of OpportunityTracking or invisible.    *)
LEMMA PromiseNext == Inv /\ [Next]_vars => [Tracking!Next]_(Tracking!vars)
<1> SUFFICES ASSUME Inv, [Next]_vars PROVE Tracking!Next \/ UNCHANGED Tracking!vars
  OBVIOUS
<1>t. /\ clock \in Time /\ now \in Time /\ now <= clock /\ clock \in Int /\ now \in Int
      /\ db \in Tables /\ evaluated \subseteq Identity /\ seen \subseteq evaluated
  BY BoundsAssumption DEF Inv, TypeOK, Time
<1>p. \A row : (row.status = "ACTIVE" <=> PhaseOf(row) = "open")
               /\ (row.status = "RESOLVED" => PhaseOf(row) = "gone")
               /\ (row.status = "EXPIRED" => PhaseOf(row) = "lapsed")
  BY DEF PhaseOf
<1>1. CASE StartCycle
  <2>1. now' \in Int /\ now' > now
    BY <1>1, <1>t, BoundsAssumption DEF StartCycle, Time
  <2>2. \A i \in Identity : IsActive(db, i) => db.signals[i].last <= now /\ db.signals[i].last \in Int
    BY <1>t, BoundsAssumption DEF Inv, Sound, Bounded, Exists, IsActive, NoRow, Tables, SignalRow, Time
  <2>3. db' = db /\ pc = "idle"
    BY <1>1 DEF StartCycle
  <2>4. \A i \in Identity : ~ (db.signals[i].status = "ACTIVE" /\ db.signals[i].last = now')
    BY <1>t, <2>1, <2>2 DEF IsActive
  <2>5. confirmedBar = {} /\ confirmedBar' = {}
    BY <2>3, <2>4 DEF confirmedBar, IsActive
  <2> QED BY <2>3, <2>5 DEF Tracking!vars, phaseBar
<1>2. CASE CommitReconcile
  <2>1. /\ db' = work /\ now' = now /\ pc # "idle" /\ pc' # "idle" /\ pc = "resolve" /\ Stale = {}
    BY <1>2 DEF CommitReconcile
  <2>2. /\ \A i \in evaluated : i.type = kind /\ i.market = market
        /\ \A i \in Identity \ evaluated : work.signals[i] = db.signals[i]
        /\ \A i \in seen : work.signals[i].status = "ACTIVE" /\ work.signals[i].last = now
        /\ \A i \in evaluated \ seen : /\ work.signals[i].status # "ACTIVE"
                                       /\ \/ work.signals[i] = db.signals[i]
                                          \/ /\ db.signals[i].status = "ACTIVE"
                                             /\ work.signals[i].status = "RESOLVED"
    BY <2>1 DEF Inv, SweepSoFar, IsActive, Stale
  <2>3. phaseBar' = [i \in Identity |->
                       IF i \in seen THEN "open"
                       ELSE IF i \in evaluated /\ phaseBar[i] = "open" THEN "gone"
                       ELSE phaseBar[i]]
    <3>1. ASSUME NEW i \in Identity
          PROVE PhaseOf(work.signals[i]) =
                  IF i \in seen THEN "open"
                  ELSE IF i \in evaluated /\ PhaseOf(db.signals[i]) = "open" THEN "gone"
                  ELSE PhaseOf(db.signals[i])
      BY <1>t, <1>p, <2>2
    <3> QED BY <2>1, <3>1 DEF phaseBar
  <2>4. confirmedBar' = (confirmedBar \ evaluated) \cup seen
    BY <1>t, <2>1, <2>2 DEF confirmedBar, IsActive
  <2>5. Tracking!Sweep(evaluated, seen)
    BY <2>2, <2>3, <2>4 DEF Tracking!Sweep
  <2> QED BY <1>t, <2>5 DEF Tracking!Next
<1>3. CASE CommitExpire
  <2>1. db' = work /\ pc = "expire" /\ pc' = "idle"
    BY <1>3 DEF CommitExpire
  <2> DEFINE X == {i \in Identity : db.signals[i] # work.signals[i]}
  <2>2. \A i \in Identity : \/ i \notin X /\ work.signals[i] = db.signals[i]
                            \/ /\ i \in X /\ db.signals[i].status = "ACTIVE"
                               /\ db.signals[i].last < now
                               /\ work.signals[i].status = "EXPIRED"
    BY <2>1 DEF Inv, ExpirySoFar, IsActive
  <2>3. X \cap confirmedBar = {}
    BY <1>t, <2>2 DEF confirmedBar
  <2>4. phaseBar' = [i \in Identity |-> IF i \in X THEN "lapsed" ELSE phaseBar[i]]
    BY <1>p, <2>1, <2>2 DEF phaseBar
  <2>5. \A i \in X : phaseBar[i] = "open"
    BY <1>p, <2>2 DEF phaseBar
  <2>6. confirmedBar' = {}
    BY <2>1 DEF confirmedBar
  <2>7. X \in SUBSET Identity
    OBVIOUS
  <2> HIDE DEF X
  <2>8. Tracking!EndCycle(X)
    BY <2>3, <2>4, <2>5, <2>6 DEF Tracking!EndCycle
  <2> QED BY <2>7, <2>8 DEF Tracking!Next
<1>4. CASE Fail
  <2>1. db' = db /\ pc' = "idle"
    BY <1>4 DEF Fail
  <2>2. phaseBar' = phaseBar /\ phaseBar = [i \in Identity |-> phaseBar[i]] /\ confirmedBar' = {}
    BY <2>1 DEF phaseBar, confirmedBar
  <2>3. Tracking!EndCycle({})
    BY <2>2 DEF Tracking!EndCycle
  <2> QED BY <2>3 DEF Tracking!Next
<1>5. CASE CleanUp
  <2>1. db'.signals = db.signals /\ now' = now /\ pc' = pc
    BY <1>5, <1>t DEF CleanUp, Prune, Tables
  <2> QED BY <2>1, PromiseStutter
<1>6. CASE NextMarket \/ SaveMovements \/ BeginReconcile \/ UpsertCandidate \/ EndCandidates
           \/ ResolveStale \/ BeginExpire \/ ExpireOne \/ ReportLifecycle \/ MoveStart
           \/ UNCHANGED vars
  <2>1. db' = db /\ now' = now /\ (pc' = "idle" <=> pc = "idle")
    BY <1>6 DEF NextMarket, SaveMovements, BeginReconcile, UpsertCandidate, EndCandidates,
       ResolveStale, BeginExpire, ExpireOne, ReportLifecycle, MoveStart, vars
  <2> QED BY <2>1, PromiseStutter
<1> QED BY <1>1, <1>2, <1>3, <1>4, <1>5, <1>6 DEF Next

(* The cycle implements the promise of OpportunityTracking.                *)
THEOREM Promise == Spec => KeepsPromise
<1>1. Spec => Tracking!Init
  BY PromiseInit DEF Spec
<1> QED BY <1>1, PromiseNext, Invariance, PTL DEF Spec, KeepsPromise, Tracking!Spec

=============================================================================
