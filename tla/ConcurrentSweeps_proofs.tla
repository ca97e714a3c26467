------------------------ MODULE ConcurrentSweeps_proofs ------------------------
(***************************************************************************)
(* Proofs about ConcurrentSweeps for any processes, signals and bounds.    *)
(* A process writes rows it has read from tables that may be out of date   *)
(* by then.  What saves the properties is that the tables only grow: a     *)
(* signal that was there is there, and what was journalled is journalled.  *)
(***************************************************************************)
EXTENDS ConcurrentSweeps, FiniteSetTheorems, TLAPS

(* The journal of t has the milestone that row tells of.                   *)
Claimed(t, i, row) ==
  \E h \in t.history :
    /\ h.signal = i
    /\ h.status = row.status
    /\ IF h.status = "ACTIVE" THEN h.edge = row.peak ELSE h.at = row.resolved

(* The columns of one row agree.                                           *)
Agreeing(row) ==
  /\ row.status = "ACTIVE" <=> row.resolved = None
  /\ row.edge <= row.peak

(* Tables of which both properties hold.                                   *)
Truthful(t) ==
  /\ t \in Tables
  /\ \A i \in Identity : Exists(t, i) =>
       Agreeing(t.signals[i]) /\ Claimed(t, i, t.signals[i])

(* u has every signal and every journal row of t.                          *)
Grows(t, u) ==
  /\ t.history \subseteq u.history
  /\ \A i \in Identity : Exists(t, i) => Exists(u, i)

(* Exactly one process holds the write lock, or none.                      *)
Serialised ==
  /\ \A p, q \in lock : p = q
  /\ \A p \in Proc : p \in lock <=> pc[p] \in {"upsert", "resolve", "expire"}

(* What a process read was true of the tables it will write to, some time  *)
(* ago.                                                                    *)
ReadWasTrue(p) ==
  /\ pc[p] \in {"found", "judged", "selected"} =>
       \A i \in Identity : read[p][i] # NoRow => Exists(db, i) /\ Claimed(db, i, read[p][i])
  /\ pc[p] \in {"resolve", "expire"} =>
       \A i \in Identity : read[p][i] # NoRow => Exists(work, i)
  /\ pc[p] \in {"selected", "expire"} =>
       \A i \in evaluated[p] : read[p][i].status = "ACTIVE"

Inv ==
  /\ TypeOK
  /\ Serialised
  /\ Truthful(db)
  /\ lock # {} => Truthful(work) /\ Grows(db, work)
  /\ \A p \in Proc : ReadWasTrue(p)

-----------------------------------------------------------------------------
(* NoRow is no row.                                                        *)
LEMMA RowExists == NoRow \notin SignalRow
BY DEF NoRow, SignalRow, Status

LEMMA GrowsClaimed ==
  ASSUME NEW t, NEW u, NEW i, NEW row, Grows(t, u), Claimed(t, i, row)
  PROVE  Claimed(u, i, row)
BY DEF Grows, Claimed

(* A row of one signal is replaced by one whose claim is journalled.       *)
LEMMA RowTruthful ==
  ASSUME NEW t, Truthful(t), NEW u \in Tables, NEW i \in Identity, NEW row \in SignalRow,
         u.signals = [t.signals EXCEPT ![i] = row], t.history \subseteq u.history,
         Agreeing(row), Claimed(u, i, row)
  PROVE  Truthful(u) /\ Grows(t, u)
<1>1. /\ t \in Tables /\ u.signals[i] = row
      /\ \A j \in Identity : j # i => u.signals[j] = t.signals[j]
  BY DEF Truthful, Tables
<1>2. Grows(t, u)
  BY <1>1, RowExists DEF Grows, Exists
<1>3. ASSUME NEW j \in Identity, Exists(u, j)
      PROVE  Agreeing(u.signals[j]) /\ Claimed(u, j, u.signals[j])
  <2>1. CASE j = i
    BY <1>1, <2>1
  <2>2. CASE j # i
    <3>1. Exists(t, j) /\ u.signals[j] = t.signals[j]
      BY <1>1, <1>3, <2>2 DEF Exists
    <3>2. Agreeing(t.signals[j]) /\ Claimed(t, j, t.signals[j])
      BY <3>1 DEF Truthful
    <3> QED BY <1>2, <3>1, <3>2, GrowsClaimed
  <2> QED BY <2>1, <2>2
<1> QED BY <1>2, <1>3 DEF Truthful

(* The same with the milestone appended in the same step.                  *)
LEMMA RecordTruthful ==
  ASSUME NEW t, Truthful(t), NEW i \in Identity, NEW row \in SignalRow, NEW kind \in Kind,
         NEW edge \in Edge, NEW at \in Time,
         Agreeing(row),
         row.status = "ACTIVE" => edge = row.peak,
         row.status # "ACTIVE" => at = row.resolved
  PROVE  LET u == WriteAndRecord(t, i, row, kind, edge, at) IN Truthful(u) /\ Grows(t, u)
<1> DEFINE n == [id |-> t.nextId, signal |-> i, kind |-> kind,
                 status |-> row.status, edge |-> edge, at |-> at]
           u == WriteAndRecord(t, i, row, kind, edge, at)
<1>1. t \in Tables
  BY DEF Truthful
<1>2. /\ u.signals = [t.signals EXCEPT ![i] = row] /\ u.history = t.history \cup {n}
      /\ u = [signals |-> [t.signals EXCEPT ![i] = row], history |-> t.history \cup {n},
              nextId |-> t.nextId + 1]
  BY DEF WriteAndRecord
<1>3. n \in HistoryRow
  BY <1>1 DEF Tables, HistoryRow, SignalRow
<1>4. u \in Tables
  BY <1>1, <1>2, <1>3 DEF Tables
<1>5. Claimed(u, i, row)
  <2>1. /\ n \in u.history /\ n.signal = i /\ n.status = row.status
        /\ IF n.status = "ACTIVE" THEN n.edge = row.peak ELSE n.at = row.resolved
    BY <1>2
  <2> HIDE DEF n, u
  <2> QED BY <2>1 DEF Claimed
<1> HIDE DEF n, u
<1>6. Truthful(u) /\ Grows(t, u)
  BY <1>2, <1>4, <1>5, RowTruthful
<1> QED BY <1>6 DEF u

(* The first sighting of a signal.                                         *)
LEMMA InsertTruthful ==
  ASSUME NEW t, Truthful(t), NEW i \in Identity, NEW edge \in Edge, NEW at \in Time
  PROVE  LET u == Insert(t, i, edge, at) IN Truthful(u) /\ Grows(t, u)
<1> DEFINE row == ActiveRow(at, edge, edge, at)
<1>1. row \in SignalRow /\ Agreeing(row) /\ row.status = "ACTIVE" /\ edge = row.peak
  BY BoundsAssumption DEF ActiveRow, SignalRow, Status, Agreeing, Edge
<1>2. Insert(t, i, edge, at) = WriteAndRecord(t, i, row, "created", edge, at)
  BY DEF Insert
<1> HIDE DEF row
<1> QED BY <1>1, <1>2, RecordTruthful DEF Kind

(* A further sighting, decided by a row that may be out of date.           *)
LEMMA TouchTruthful ==
  ASSUME NEW t, Truthful(t), NEW i \in Identity, NEW edge \in Edge, NEW at \in Time,
         Exists(t, i), NEW old \in SignalRow, Claimed(t, i, old)
  PROVE  LET u == Touch(t, i, old, edge, at) IN Truthful(u) /\ Grows(t, u)
<1> DEFINE row(p) == ActiveRow(t.signals[i].first, edge, p, at)
<1>1. t \in Tables /\ t.signals[i] \in SignalRow
  BY DEF Truthful, Tables, Exists
<1>2. \A p \in Edge : /\ row(p) \in SignalRow /\ row(p).status = "ACTIVE" /\ row(p).peak = p
                      /\ row(p).edge = edge /\ row(p).resolved = None
  BY <1>1 DEF ActiveRow, SignalRow, Status
<1>3. old.peak \in Edge /\ \A a \in Edge : a \in Int
  BY BoundsAssumption DEF SignalRow, Edge
<1>4. CASE old.status # "ACTIVE" \/ edge > old.peak
  <2>1. PICK k \in Kind : Touch(t, i, old, edge, at) = WriteAndRecord(t, i, row(edge), k, edge, at)
    BY <1>4 DEF Touch, Kind
  <2>2. Agreeing(row(edge))
    BY <1>2, <1>3 DEF Agreeing
  <2> HIDE DEF row
  <2> QED BY <1>2, <2>1, <2>2, RecordTruthful
<1>5. CASE old.status = "ACTIVE" /\ ~ (edge > old.peak)
  <2> DEFINE u == Touch(t, i, old, edge, at)
  <2>1. u = [signals |-> [t.signals EXCEPT ![i] = row(old.peak)],
             history |-> t.history, nextId |-> t.nextId]
    BY <1>5 DEF Touch, WriteRow
  <2>2. /\ u \in Tables /\ u.history = t.history
        /\ u.signals = [t.signals EXCEPT ![i] = row(old.peak)]
    BY <1>1, <1>2, <1>3, <2>1 DEF Tables
  <2>3. Agreeing(row(old.peak))
    BY <1>2, <1>3, <1>5 DEF Agreeing
  <2>4. Claimed(u, i, row(old.peak))
    <3>1. /\ row(old.peak).status = old.status /\ row(old.peak).peak = old.peak
          /\ old.status = "ACTIVE"
      BY <1>2, <1>3, <1>5
    <3> HIDE DEF row, u
    <3> QED BY <2>2, <3>1 DEF Claimed
  <2> HIDE DEF row, u
  <2>5. Truthful(u) /\ Grows(t, u)
    BY <1>2, <1>3, <2>2, <2>3, <2>4, RowTruthful
  <2> QED BY <2>5 DEF u
<1> QED BY <1>4, <1>5

(* A candidate read and written under the lock.                            *)
LEMMA UpsertTruthful ==
  ASSUME NEW t, Truthful(t), NEW i \in Identity, NEW edge \in Edge, NEW at \in Time
  PROVE  LET u == Upsert(t, i, edge, at) IN Truthful(u) /\ Grows(t, u)
<1>1. CASE Exists(t, i)
  <2>1. t.signals[i] \in SignalRow /\ Claimed(t, i, t.signals[i])
    BY <1>1 DEF Truthful, Tables, Exists
  <2> QED BY <1>1, <2>1, TouchTruthful DEF Upsert
<1>2. CASE ~ Exists(t, i)
  BY <1>2, InsertTruthful DEF Upsert
<1> QED BY <1>1, <1>2

(* A signal is closed, whatever its row says by then.                      *)
LEMMA CloseTruthful ==
  ASSUME NEW t, Truthful(t), NEW i \in Identity, NEW at \in Time, Exists(t, i),
         NEW old \in SignalRow, NEW s \in {"RESOLVED", "EXPIRED"}, NEW k \in Kind
  PROVE  LET u == CloseAs(t, i, old, s, k, at) IN Truthful(u) /\ Grows(t, u)
<1> DEFINE row == ClosedRow(t.signals[i], s, at)
<1>1. t.signals[i] \in SignalRow /\ Agreeing(t.signals[i])
  BY DEF Truthful, Tables, Exists
<1>2. /\ row \in SignalRow /\ row.status = s /\ row.resolved = at
      /\ row.edge = t.signals[i].edge /\ row.peak = t.signals[i].peak
  BY <1>1 DEF ClosedRow, SignalRow, Status
<1>3. at # None
  BY BoundsAssumption DEF Time, None
<1>4. Agreeing(row)
  BY <1>1, <1>2, <1>3 DEF Agreeing
<1>5. CloseAs(t, i, old, s, k, at) = WriteAndRecord(t, i, row, k, old.edge, at)
  BY DEF CloseAs
<1>6. old.edge \in Edge
  BY DEF SignalRow
<1> HIDE DEF row
<1> QED BY <1>2, <1>4, <1>5, <1>6, RecordTruthful

-----------------------------------------------------------------------------
(* The lock is free, or has one holder.                                    *)
LEMMA OneHolder == Cardinality({}) = 0 /\ \A p : Cardinality({p}) = 1
BY FS_EmptySet, FS_Singleton

(* The initial states satisfy the invariant.                               *)
LEMMA InitInv == Init => Inv
<1> SUFFICES ASSUME Init PROVE Inv
  OBVIOUS
<1>1. EmptyTables \in Tables /\ 0 \in Time /\ EmptyTables.signals = [i \in Identity |-> NoRow]
  BY BoundsAssumption DEF EmptyTables, Tables, Time
<1>2. TypeOK
  BY <1>1, OneHolder DEF Init, TypeOK, PC, Nothing
<1>3. Truthful(db)
  BY <1>1 DEF Init, Truthful, Exists, EmptyTables
<1> QED BY <1>2, <1>3 DEF Inv, Init, Serialised, ReadWasTrue

(* A process takes the lock and writes u, which grew out of db.            *)
LEMMA TakesLock ==
  ASSUME Inv, NEW p \in Proc, TakeLock(p), UNCHANGED <<clock, over, db, now, evaluated>>,
         Truthful(work'), Grows(db, work'),
         NEW label \in {"upsert", "resolve", "expire"}, Goto(p, label),
         cands' \in [Proc -> SUBSET (Identity \X Edge)],
         seen' \in [Proc -> SUBSET Identity],
         read' \in [Proc -> [Identity -> SignalRow \cup {NoRow}]],
         \A q \in Proc \ {p} : read'[q] = read[q],
         label # "upsert" => \A i \in Identity : read'[p][i] # NoRow => Exists(work', i),
         label = "expire" => \A i \in evaluated[p] : read'[p][i].status = "ACTIVE"
  PROVE  Inv'
<1> USE DEF Inv
<1>1. /\ lock' = {p} /\ lock = {} /\ pc'[p] = label /\ \A q \in Proc \ {p} : pc'[q] = pc[q]
  BY DEF TakeLock, Goto, TypeOK
<1>2. TypeOK'
  <2>1. lock' \subseteq Proc /\ Cardinality(lock') <= 1
    <3>1. Cardinality(lock') = 1
      BY <1>1, OneHolder, Zenon
    <3> QED BY <1>1, <3>1
  <2>2. pc' \in [Proc -> PC]
    BY DEF Goto, TypeOK, PC
  <2> QED BY <2>1, <2>2 DEF TypeOK, Truthful
<1>3. Serialised'
  BY <1>1 DEF Serialised
<1>4. \A q \in Proc : ReadWasTrue(q)'
  <2>1. \A q \in Proc \ {p} : pc'[q] \notin {"resolve", "expire", "upsert"}
    BY <1>1 DEF Serialised
  <2> QED BY <1>1, <2>1 DEF ReadWasTrue
<1> QED BY <1>2, <1>3, <1>4

(* The holder of the lock writes on: the other processes see nothing.      *)
LEMMA WritesOn ==
  ASSUME Inv, NEW p \in Proc, pc[p] \in {"upsert", "resolve", "expire"},
         UNCHANGED <<clock, over, db, lock, pc, now, evaluated, read>>,
         Truthful(work'), Grows(work, work'),
         cands' \in [Proc -> SUBSET (Identity \X Edge)],
         seen' \in [Proc -> SUBSET Identity]
  PROVE  Inv'
<1> USE DEF Inv
<1>1. p \in lock
  BY DEF Serialised
<1>2. Grows(db, work')
  BY <1>1 DEF Grows
<1>3. TypeOK'
  BY DEF TypeOK, Truthful
<1>4. Serialised'
  BY DEF Serialised
<1>5. \A q \in Proc : ReadWasTrue(q)'
  BY DEF ReadWasTrue, Grows
<1> QED BY <1>1, <1>2, <1>3, <1>4, <1>5

(* The holder commits: what others have read was true, and still is.       *)
LEMMA Commits ==
  ASSUME Inv, NEW p \in Proc, pc[p] \in {"resolve", "expire"}, Commit(p),
         NEW label \in {"swept", "idle"}, Goto(p, label),
         UNCHANGED <<clock, over, now, cands, evaluated, seen, read>>
  PROVE  Inv'
<1> USE DEF Inv
<1>1. /\ lock = {p} /\ lock' = {} /\ db' = work /\ work' = EmptyTables
      /\ pc'[p] = label /\ \A q \in Proc \ {p} : pc'[q] = pc[q]
      /\ Truthful(db') /\ Grows(db, db')
  BY DEF Commit, Goto, Serialised, TypeOK
<1>2. TypeOK'
  <2>1. EmptyTables \in Tables
    BY DEF EmptyTables, Tables
  <2>2. pc' \in [Proc -> PC]
    BY DEF Goto, TypeOK, PC
  <2> QED BY <1>1, <2>1, <2>2, OneHolder DEF TypeOK
<1>3. Serialised'
  BY <1>1 DEF Serialised
<1>4. \A q \in Proc : ReadWasTrue(q)'
  <2>1. \A q \in Proc : pc'[q] \notin {"resolve", "expire"}
    BY <1>1 DEF Serialised
  <2>2. \A i \in Identity : Exists(db, i) => Exists(db', i)
    BY <1>1 DEF Grows
  <2>3. \A i \in Identity, q \in Proc :
          Claimed(db, i, read[q][i]) => Claimed(db', i, read[q][i])
    BY <1>1, GrowsClaimed
  <2> QED BY <1>1, <2>1, <2>2, <2>3 DEF ReadWasTrue
<1> QED BY <1>1, <1>2, <1>3, <1>4

(* A step without the tables: nobody enters or leaves a transaction, and   *)
(* whoever relies on what it read has just read it, or did so before.      *)
LEMMA KeepsStore ==
  ASSUME Inv, TypeOK', UNCHANGED store, NEW p \in Proc,
         pc[p] \notin {"upsert", "resolve", "expire"}, pc'[p] \notin {"upsert", "resolve", "expire"},
         \A q \in Proc \ {p} : pc'[q] = pc[q] /\ read'[q] = read[q] /\ evaluated'[q] = evaluated[q],
         pc'[p] \in {"found", "judged", "selected"} => read'[p] = db.signals,
         pc'[p] = "selected" => \A i \in evaluated'[p] : IsActive(db, i)
  PROVE  Inv'
<1> USE DEF Inv, store
<1>1. Serialised'
  BY DEF Serialised
<1>2. \A q \in Proc : ReadWasTrue(q)'
  <2>1. \A i \in Identity : db.signals[i] # NoRow => Exists(db, i) /\ Claimed(db, i, db.signals[i])
    BY DEF Truthful, Exists
  <2>2. ASSUME NEW q \in Proc \ {p}
        PROVE  ReadWasTrue(q)'
    BY <2>2 DEF ReadWasTrue
  <2> QED BY <2>1, <2>2 DEF ReadWasTrue, IsActive
<1> QED BY <1>1, <1>2

(* Every step, stuttering included, keeps the invariant.                   *)
LEMMA NextInv == Inv /\ [Next]_vars => Inv'
<1> SUFFICES ASSUME Inv, [Next]_vars PROVE Inv'
  OBVIOUS
<1> USE DEF Inv
<1>t. /\ db \in Tables /\ work \in Tables /\ Nothing \in [Identity -> SignalRow \cup {NoRow}]
      /\ \A t \in Tables : t.signals \in [Identity -> SignalRow \cup {NoRow}]
      /\ \A p \in Proc : now[p] \in Time
  BY DEF TypeOK, Tables, Nothing, EmptyTables
<1>1. CASE EventEnds
  <2>1. TypeOK'
    BY <1>1 DEF EventEnds, TypeOK, store, local
  <2> QED BY <1>1, <2>1 DEF EventEnds, store, local, Serialised, ReadWasTrue
<1>2. ASSUME NEW p \in Proc, StartCycle(p)
      PROVE  Inv'
  <2> USE <1>2 DEF StartCycle
  <2>1. clock + 1 \in Time
    BY BoundsAssumption DEF TypeOK, Time
  <2>2. TypeOK'
    BY <2>1 DEF TypeOK, store, Goto, PC
  <2>3. pc'[p] = "cycle" /\ \A q \in Proc \ {p} : pc'[q] = pc[q]
    BY DEF Goto, TypeOK
  <2> QED BY <2>2, <2>3, KeepsStore
<1>3. ASSUME NEW p \in Proc, Sweep(p)
      PROVE  Inv'
  <2> USE <1>3 DEF Sweep
  <2>a. PICK S \in SUBSET Identity : \E C \in SUBSET S : \E edge \in [C -> Edge] :
          /\ evaluated' = [evaluated EXCEPT ![p] = S]
          /\ cands' = [cands EXCEPT ![p] = {<<i, edge[i]>> : i \in C}]
          /\ Goto(p, IF C = {} THEN "judged" ELSE "found")
    OBVIOUS
  <2>b. PICK C \in SUBSET S : \E edge \in [C -> Edge] :
          /\ evaluated' = [evaluated EXCEPT ![p] = S]
          /\ cands' = [cands EXCEPT ![p] = {<<i, edge[i]>> : i \in C}]
          /\ Goto(p, IF C = {} THEN "judged" ELSE "found")
    BY <2>a
  <2>1. PICK edge \in [C -> Edge] :
          /\ evaluated' = [evaluated EXCEPT ![p] = S]
          /\ cands' = [cands EXCEPT ![p] = {<<i, edge[i]>> : i \in C}]
          /\ Goto(p, IF C = {} THEN "judged" ELSE "found")
    BY <2>b
  <2>2. {<<i, edge[i]>> : i \in C} \in SUBSET (Identity \X Edge)
    OBVIOUS
  <2>3. TypeOK'
    BY <1>t, <2>1, <2>2 DEF TypeOK, store, Goto, PC
  <2>4. /\ pc'[p] \in {"judged", "found"} /\ read'[p] = db.signals
        /\ \A q \in Proc \ {p} : pc'[q] = pc[q] /\ read'[q] = read[q] /\ evaluated'[q] = evaluated[q]
    BY <2>1 DEF Goto, TypeOK
  <2> QED BY <2>3, <2>4, KeepsStore
<1>4. ASSUME NEW p \in Proc, WriteFirst(p)
      PROVE  Inv'
  <2> USE <1>4 DEF WriteFirst
  <2>1. PICK c \in cands[p] :
          /\ IF read[p][c[1]] # NoRow
               THEN work' = Touch(db, c[1], read[p][c[1]], c[2], now[p])
               ELSE ~ Exists(db, c[1]) /\ work' = Insert(db, c[1], c[2], now[p])
          /\ cands' = [cands EXCEPT ![p] = @ \ {c}]
          /\ seen' = [seen EXCEPT ![p] = {c[1]}]
    OBVIOUS
  <2>2. /\ cands[p] \subseteq Identity \X Edge /\ c[1] \in Identity /\ c[2] \in Edge
        /\ read[p][c[1]] \in SignalRow \cup {NoRow}
    BY <2>1 DEF TypeOK
  <2>3. Truthful(work') /\ Grows(db, work')
    <3>1. CASE read[p][c[1]] # NoRow
      <4>1. /\ Exists(db, c[1]) /\ Claimed(db, c[1], read[p][c[1]])
            /\ read[p][c[1]] \in SignalRow
        BY <2>2, <3>1 DEF ReadWasTrue
      <4> QED BY <1>t, <2>1, <2>2, <3>1, <4>1, TouchTruthful
    <3>2. CASE read[p][c[1]] = NoRow
      BY <1>t, <2>1, <2>2, <3>2, InsertTruthful
    <3> QED BY <3>1, <3>2
  <2>4. /\ cands' \in [Proc -> SUBSET (Identity \X Edge)]
        /\ seen' \in [Proc -> SUBSET Identity]
        /\ read' \in [Proc -> [Identity -> SignalRow \cup {NoRow}]]
        /\ \A q \in Proc \ {p} : read'[q] = read[q]
    BY <1>t, <2>1, <2>2 DEF TypeOK
  <2> QED BY <2>3, <2>4, TakesLock
<1>5. ASSUME NEW p \in Proc, WriteNext(p)
      PROVE  Inv'
  <2> USE <1>5 DEF WriteNext
  <2>1. PICK c \in cands[p] :
          /\ work' = Upsert(work, c[1], c[2], now[p])
          /\ cands' = [cands EXCEPT ![p] = @ \ {c}]
          /\ seen' = [seen EXCEPT ![p] = @ \cup {c[1]}]
    OBVIOUS
  <2>2. cands[p] \subseteq Identity \X Edge /\ c[1] \in Identity /\ c[2] \in Edge
    BY <2>1 DEF TypeOK
  <2>3. Truthful(work') /\ Grows(work, work')
    BY <1>t, <2>1, <2>2, UpsertTruthful DEF Serialised
  <2>4. /\ cands' \in [Proc -> SUBSET (Identity \X Edge)]
        /\ seen' \in [Proc -> SUBSET Identity]
    BY <2>1, <2>2 DEF TypeOK
  <2> QED BY <2>3, <2>4, WritesOn
<1>6. ASSUME NEW p \in Proc, EndCandidates(p)
      PROVE  Inv'
  <2> USE <1>6 DEF EndCandidates, store
  <2>1. /\ pc' = [pc EXCEPT ![p] = "resolve"] /\ pc'[p] = "resolve" /\ read'[p] = work.signals
        /\ \A q \in Proc \ {p} : pc'[q] = pc[q] /\ read'[q] = read[q]
    BY DEF Goto, TypeOK
  <2>2. TypeOK'
    BY <1>t, <2>1 DEF TypeOK, PC
  <2>3. Serialised'
    BY <2>1 DEF Serialised
  <2>4. \A q \in Proc : ReadWasTrue(q)'
    BY <2>1 DEF ReadWasTrue, Exists
  <2> QED BY <2>2, <2>3, <2>4
<1>7. ASSUME NEW p \in Proc, ResolveFirst(p)
      PROVE  Inv'
  <2> USE <1>7 DEF ResolveFirst, local
  <2>1. CASE Stale(p) = {}
    <3>1. /\ pc'[p] = "swept" /\ UNCHANGED store
          /\ \A q \in Proc \ {p} : pc'[q] = pc[q]
      BY <2>1 DEF Goto, TypeOK
    <3>2. TypeOK'
      BY <2>1 DEF TypeOK, Goto, PC, store
    <3> QED BY <3>1, <3>2, KeepsStore
  <2>2. CASE Stale(p) # {}
    <3>1. /\ TakeLock(p) /\ work' = db /\ db' = db /\ Goto(p, "resolve")
          /\ Truthful(work') /\ Grows(db, work')
      BY <2>2 DEF Grows
    <3>2. \A i \in Identity : read[p][i] # NoRow => Exists(work', i)
      BY <3>1 DEF ReadWasTrue, Exists
    <3> QED BY <3>1, <3>2, TakesLock DEF TypeOK
  <2> QED BY <2>1, <2>2
<1>8. ASSUME NEW p \in Proc, ResolveNext(p)
      PROVE  Inv'
  <2> USE <1>8 DEF ResolveNext
  <2>1. PICK i \in Stale(p) :
          /\ work' = CloseAs(work, i, read[p][i], "RESOLVED", "resolved", now[p])
          /\ seen' = [seen EXCEPT ![p] = @ \cup {i}]
    OBVIOUS
  <2>2. i \in Identity /\ read[p][i] \in SignalRow /\ read[p][i] # NoRow
    BY <2>1 DEF Stale, TypeOK, NoRow
  <2>3. Exists(work, i) /\ Truthful(work)
    BY <2>2 DEF ReadWasTrue, Serialised
  <2>4. Truthful(work') /\ Grows(work, work')
    BY <1>t, <2>1, <2>2, <2>3, CloseTruthful DEF Kind
  <2>5. seen' \in [Proc -> SUBSET Identity]
    BY <2>1, <2>2 DEF TypeOK
  <2> QED BY <2>4, <2>5, WritesOn DEF TypeOK
<1>9. ASSUME NEW p \in Proc, CommitReconcile(p)
      PROVE  Inv'
  BY <1>9, Commits DEF CommitReconcile
<1>10. ASSUME NEW p \in Proc, SelectExpirable(p)
       PROVE  Inv'
  <2> USE <1>10 DEF SelectExpirable
  <2>1. TypeOK'
    BY <1>t DEF TypeOK, store, Goto, PC
  <2>2. /\ pc'[p] = "selected" /\ read'[p] = db.signals
        /\ \A i \in evaluated'[p] : IsActive(db, i)
        /\ \A q \in Proc \ {p} : pc'[q] = pc[q] /\ read'[q] = read[q] /\ evaluated'[q] = evaluated[q]
    BY DEF Goto, TypeOK
  <2> QED BY <2>1, <2>2, KeepsStore
<1>11. ASSUME NEW p \in Proc, ExpireFirst(p)
       PROVE  Inv'
  <2> USE <1>11 DEF ExpireFirst, local
  <2>1. CASE evaluated[p] = {}
    <3>1. /\ pc'[p] = "idle" /\ UNCHANGED store
          /\ \A q \in Proc \ {p} : pc'[q] = pc[q]
      BY <2>1 DEF Goto, TypeOK
    <3>2. TypeOK'
      BY <2>1 DEF TypeOK, Goto, PC, store
    <3> QED BY <3>1, <3>2, KeepsStore
  <2>2. CASE evaluated[p] # {}
    <3>1. /\ TakeLock(p) /\ work' = db /\ db' = db /\ Goto(p, "expire")
          /\ Truthful(work') /\ Grows(db, work')
      BY <2>2 DEF Grows
    <3>2. /\ \A i \in Identity : read[p][i] # NoRow => Exists(work', i)
          /\ \A i \in evaluated[p] : read[p][i].status = "ACTIVE"
      BY <3>1 DEF ReadWasTrue, Exists
    <3> QED BY <3>1, <3>2, TakesLock DEF TypeOK
  <2> QED BY <2>1, <2>2
<1>12. ASSUME NEW p \in Proc, ExpireNext(p)
       PROVE  Inv'
  <2> USE <1>12 DEF ExpireNext
  <2>1. PICK i \in evaluated[p] \ seen[p] :
          /\ work' = CloseAs(work, i, read[p][i], "EXPIRED", "expired", now[p])
          /\ seen' = [seen EXCEPT ![p] = @ \cup {i}]
    OBVIOUS
  <2>2. i \in Identity /\ read[p][i].status = "ACTIVE"
    BY <2>1 DEF TypeOK, ReadWasTrue
  <2>3. read[p][i] \in SignalRow /\ read[p][i] # NoRow
    BY <2>2 DEF TypeOK, NoRow
  <2>4. Exists(work, i) /\ Truthful(work)
    BY <2>2, <2>3 DEF ReadWasTrue, Serialised
  <2>5. Truthful(work') /\ Grows(work, work')
    BY <1>t, <2>1, <2>2, <2>3, <2>4, CloseTruthful DEF Kind
  <2>6. seen' \in [Proc -> SUBSET Identity]
    BY <2>1, <2>2 DEF TypeOK
  <2> QED BY <2>5, <2>6, WritesOn DEF TypeOK
<1>13. ASSUME NEW p \in Proc, CommitExpire(p)
       PROVE  Inv'
  BY <1>13, Commits DEF CommitExpire, local
<1>14. ASSUME NEW p \in Proc, Fail(p)
       PROVE  Inv'
  <2> USE <1>14 DEF Fail
  <2>1. /\ pc' = [pc EXCEPT ![p] = "idle"] /\ pc'[p] = "idle"
        /\ \A q \in Proc \ {p} : pc'[q] = pc[q]
    BY DEF Goto, TypeOK
  <2>2. \/ p \in lock /\ lock = {p} /\ lock' = {} /\ work' = EmptyTables
        \/ p \notin lock /\ lock' = lock /\ work' = work
    BY DEF Serialised
  <2>3. TypeOK'
    <3>1. EmptyTables \in Tables
      BY DEF EmptyTables, Tables
    <3>2. Cardinality(lock) <= 1
      BY DEF TypeOK
    <3>3. Cardinality(lock') <= 1
      <4>1. CASE lock' = {}
        <5>1. Cardinality(lock') = 0
          BY <4>1, OneHolder, Zenon
        <5> QED BY <5>1
      <4>2. CASE lock' = lock
        BY <3>2, <4>2, Zenon
      <4> QED BY <2>2, <4>1, <4>2
    <3>4. lock' \subseteq Proc /\ work' \in Tables
      BY <2>2, <3>1 DEF TypeOK
    <3> QED BY <2>1, <3>3, <3>4 DEF TypeOK, PC
  <2>4. Serialised'
    BY <2>1, <2>2 DEF Serialised
  <2>5. \A q \in Proc : ReadWasTrue(q)'
    <3>1. \A q \in Proc : pc'[q] \in {"resolve", "expire"} => work' = work
      BY <2>1, <2>2 DEF Serialised
    <3> QED BY <2>1, <3>1 DEF ReadWasTrue
  <2> QED BY <2>2, <2>3, <2>4, <2>5
<1>15. CASE UNCHANGED vars
  <2>1. TypeOK'
    BY <1>15 DEF vars, store, local, TypeOK
  <2> QED BY <1>15, <2>1 DEF vars, store, local, Serialised, ReadWasTrue
<1> QED BY <1>1, <1>2, <1>3, <1>4, <1>5, <1>6, <1>7, <1>8, <1>9, <1>10, <1>11, <1>12,
           <1>13, <1>14, <1>15 DEF Next

(* Inv holds for ever.                                                     *)
LEMMA Invariance == Spec => []Inv
BY InitInv, NextInv, PTL DEF Spec

(* Every variable keeps its type: SQLite's write lock has one holder.      *)
THEOREM Typing == Spec => []TypeOK
BY Invariance, PTL DEF Inv

(* Any number of processes that write rows on the strength of stale reads  *)
(* never leave columns that contradict each other.                         *)
THEOREM ColumnsAlwaysAgree == Spec => []ColumnsAgree
<1>1. Inv => ColumnsAgree
  BY DEF Inv, Truthful, Agreeing, ColumnsAgree
<1> QED BY <1>1, Invariance, PTL

(* Nor a row whose peak or end nobody journalled.                          *)
THEOREM NothingUnjournalled == Spec => []ClaimsAreJournalled
<1>1. Inv => ClaimsAreJournalled
  BY DEF Inv, Truthful, Claimed, ClaimsAreJournalled
<1> QED BY <1>1, Invariance, PTL

===============================================================================
