--------------------------- MODULE ConcurrentSweeps ---------------------------
(***************************************************************************)
(* Detection cycles of several processes on one database file: the poller, *)
(* and every app.py that scripts/watch_capture.py starts for a captured    *)
(* file.  Each process runs the transactions of module DetectionCycle for  *)
(* one market and one signal type, and each ends its cycle with the        *)
(* expiry.                                                                 *)
(*                                                                         *)
(* SignalRepository writes in "with connection" blocks.  Python's sqlite3  *)
(* opens such a transaction at the first INSERT or UPDATE, not at the      *)
(* start of the block, so the SELECT that comes first (the row _find reads *)
(* for the first candidate, the rows of _resolve_stale when there is no    *)
(* candidate, the rows of expire_active_signals) runs on its own, and      *)
(* another process may commit before the write that relies on it.  From    *)
(* the first write to the commit the process holds SQLite's only write     *)
(* lock; under WAL everybody else reads the committed tables.              *)
(***************************************************************************)
EXTENDS SignalStore, FiniteSets

CONSTANT Proc         \* the processes

VARIABLES
  clock,      \* the latest instant any process has read
  over,       \* events that are known to be over, or started before the cutoff
  db,         \* the committed tables
  work,       \* the tables as the holder of the write lock sees them
  lock,       \* the process that holds the write lock, a set of at most one
  pc,         \* where each process is
  now,        \* the instant of its cycle
  cands,      \* the candidates of its sweep not written yet: pairs <<i, edge>>
  evaluated,  \* the signals its sweep judged
  seen,       \* the signals its sweep has written
  read        \* what its first SELECT returned: a function of the identity

store == <<db, work, lock>>
local == <<now, cands, evaluated, seen, read>>
vars == <<clock, over, store, pc, local>>

PC == {"idle", "cycle", "found", "upsert", "judged", "resolve", "swept", "selected", "expire"}

TypeOK ==
  /\ clock \in Time
  /\ over \subseteq Event
  /\ db \in Tables /\ work \in Tables
  /\ lock \subseteq Proc /\ Cardinality(lock) <= 1
  /\ pc \in [Proc -> PC]
  /\ now \in [Proc -> Time]
  /\ cands \in [Proc -> SUBSET (Identity \X Edge)]
  /\ evaluated \in [Proc -> SUBSET Identity]
  /\ seen \in [Proc -> SUBSET Identity]
  /\ read \in [Proc -> [Identity -> SignalRow \cup {NoRow}]]

Nothing == EmptyTables.signals      \* no row read

Init ==
  /\ clock = 0 /\ over = {}
  /\ db = EmptyTables /\ work = EmptyTables /\ lock = {}
  /\ pc = [p \in Proc |-> "idle"]
  /\ now = [p \in Proc |-> 0]
  /\ cands = [p \in Proc |-> {}]
  /\ evaluated = [p \in Proc |-> {}] /\ seen = [p \in Proc |-> {}]
  /\ read = [p \in Proc |-> Nothing]

Goto(p, label) == pc' = [pc EXCEPT ![p] = label]

(* Mutant: nothing serialises the writers.                                 *)
TakeLockAnyway(p) == lock' = lock \cup {p}

(* The write lock is free; p takes it and sees the committed tables.       *)
TakeLock(p) == lock = {} /\ lock' = {p}

Commit(p) == db' = work /\ lock' = {} /\ work' = EmptyTables

-----------------------------------------------------------------------------
(* run_detection fixes now; two processes never read the same instant.     *)
StartCycle(p) ==
  /\ pc[p] = "idle"
  /\ clock < MaxTime
  /\ clock' = clock + 1
  /\ now' = [now EXCEPT ![p] = clock + 1]
  /\ Goto(p, "cycle")
  /\ UNCHANGED <<over, store, cands, evaluated, seen, read>>

(* The sweep has run on the odds.  With candidates, reconcile starts with  *)
(* _find of the first one; without, with the SELECT of _resolve_stale.     *)
Sweep(p) ==
  /\ pc[p] = "cycle"
  /\ \E S \in SUBSET Identity : \E C \in SUBSET S : \E edge \in [C -> Edge] :
       /\ evaluated' = [evaluated EXCEPT ![p] = S]
       /\ cands' = [cands EXCEPT ![p] = {<<i, edge[i]>> : i \in C}]
       /\ Goto(p, IF C = {} THEN "judged" ELSE "found")
  /\ seen' = [seen EXCEPT ![p] = {}]
  /\ read' = [read EXCEPT ![p] = db.signals]
  /\ UNCHANGED <<clock, over, store, now>>

(* The first write of a reconcile with candidates: it takes the lock and   *)
(* relies on a row read before.  If the row was absent then and is not     *)
(* now, uq_signals_identity refuses the INSERT (see Fail).                 *)
WriteFirst(p) ==
  /\ pc[p] = "found"
  /\ TakeLock(p)
  /\ \E c \in cands[p] :
       LET i == c[1] IN
       /\ IF read[p][i] # NoRow
            THEN work' = Touch(db, i, read[p][i], c[2], now[p])
            ELSE ~ Exists(db, i) /\ work' = Insert(db, i, c[2], now[p])
       /\ cands' = [cands EXCEPT ![p] = @ \ {c}]
       /\ seen' = [seen EXCEPT ![p] = {i}]
  /\ read' = [read EXCEPT ![p] = Nothing]
  /\ Goto(p, "upsert")
  /\ UNCHANGED <<clock, over, db, now, evaluated>>

(* The other candidates are read and written under the lock.               *)
WriteNext(p) ==
  /\ pc[p] = "upsert"
  /\ \E c \in cands[p] :
       /\ work' = Upsert(work, c[1], c[2], now[p])
       /\ cands' = [cands EXCEPT ![p] = @ \ {c}]
       /\ seen' = [seen EXCEPT ![p] = @ \cup {c[1]}]
  /\ UNCHANGED <<clock, over, db, lock, pc, now, evaluated, read>>

(* _resolve_stale after candidates: its SELECT runs under the lock.        *)
EndCandidates(p) ==
  /\ pc[p] = "upsert"
  /\ cands[p] = {}
  /\ read' = [read EXCEPT ![p] = work.signals]
  /\ Goto(p, "resolve")
  /\ UNCHANGED <<clock, over, store, now, cands, evaluated, seen>>

Stale(p) == {i \in evaluated[p] \ seen[p] : read[p][i].status = "ACTIVE"}

(* _resolve_stale without candidates: if its SELECT found something, the   *)
(* first UPDATE takes the lock; else nothing is written.                   *)
ResolveFirst(p) ==
  /\ pc[p] = "judged"
  /\ IF Stale(p) = {} THEN Goto(p, "swept") /\ UNCHANGED store
     ELSE TakeLock(p) /\ work' = db /\ Goto(p, "resolve") /\ UNCHANGED db
  /\ UNCHANGED <<clock, over, local>>

(* One row of _resolve_stale, updated whatever its status is by now.       *)
ResolveNext(p) ==
  /\ pc[p] = "resolve"
  /\ \E i \in Stale(p) :
       /\ work' = CloseAs(work, i, read[p][i], "RESOLVED", "resolved", now[p])
       /\ seen' = [seen EXCEPT ![p] = @ \cup {i}]
  /\ UNCHANGED <<clock, over, db, lock, pc, now, cands, evaluated, read>>

CommitReconcile(p) ==
  /\ pc[p] = "resolve"
  /\ Stale(p) = {}
  /\ Commit(p)
  /\ Goto(p, "swept")
  /\ UNCHANGED <<clock, over, now, cands, evaluated, seen, read>>

(* The SELECT of expire_active_signals.                                    *)
SelectExpirable(p) ==
  /\ pc[p] = "swept"
  /\ evaluated' = [evaluated EXCEPT ![p] =
       {i \in Identity : /\ IsActive(db, i)
                         /\ db.signals[i].last < now[p]
                         /\ i.event \in over}]
  /\ seen' = [seen EXCEPT ![p] = {}]
  /\ read' = [read EXCEPT ![p] = db.signals]
  /\ Goto(p, "selected")
  /\ UNCHANGED <<clock, over, store, now, cands>>

(* No row: the cycle is over.  Otherwise the first UPDATE takes the lock.  *)
ExpireFirst(p) ==
  /\ pc[p] = "selected"
  /\ IF evaluated[p] = {} THEN Goto(p, "idle") /\ UNCHANGED store
     ELSE TakeLock(p) /\ work' = db /\ Goto(p, "expire") /\ UNCHANGED db
  /\ UNCHANGED <<clock, over, local>>

ExpireNext(p) ==
  /\ pc[p] = "expire"
  /\ \E i \in evaluated[p] \ seen[p] :
       /\ work' = CloseAs(work, i, read[p][i], "EXPIRED", "expired", now[p])
       /\ seen' = [seen EXCEPT ![p] = @ \cup {i}]
  /\ UNCHANGED <<clock, over, db, lock, pc, now, cands, evaluated, read>>

CommitExpire(p) ==
  /\ pc[p] = "expire"
  /\ evaluated[p] = seen[p]
  /\ Commit(p)
  /\ Goto(p, "idle")
  /\ UNCHANGED <<clock, over, local>>

(* An exception (a refused INSERT, a lock not obtained in time) or a crash *)
(* ends the cycle and rolls the transaction back.                          *)
Fail(p) ==
  /\ pc[p] # "idle"
  /\ IF p \in lock THEN lock' = {} /\ work' = EmptyTables ELSE UNCHANGED <<lock, work>>
  /\ cands' = [cands EXCEPT ![p] = {}]
  /\ Goto(p, "idle")
  /\ UNCHANGED <<clock, over, db, now, evaluated, seen, read>>

(* A provider reports that an event is over, or its start passes the       *)
(* cutoff while bookmakers still quote it.                                 *)
EventEnds ==
  /\ \E e \in Event \ over : over' = over \cup {e}
  /\ UNCHANGED <<clock, store, pc, local>>

Next ==
  \/ EventEnds
  \/ \E p \in Proc :
       \/ StartCycle(p) \/ Sweep(p)
       \/ WriteFirst(p) \/ WriteNext(p) \/ EndCandidates(p)
       \/ ResolveFirst(p) \/ ResolveNext(p) \/ CommitReconcile(p)
       \/ SelectExpirable(p) \/ ExpireFirst(p) \/ ExpireNext(p) \/ CommitExpire(p)
       \/ Fail(p)

Spec == Init /\ [][Next]_vars

-----------------------------------------------------------------------------
(* Stale reads never leave columns that contradict each other: a row is    *)
(* closed exactly when resolved_at is set, and its peak bounds its edge.   *)
ColumnsAgree ==
  \A i \in Identity : Exists(db, i) =>
    LET row == db.signals[i] IN
    /\ row.status = "ACTIVE" <=> row.resolved = None
    /\ row.edge <= row.peak

(* What a row claims was once journalled: the peak of an open episode as a *)
(* milestone, the end of a closed one at the very instant the row names.   *)
ClaimsAreJournalled ==
  \A i \in Identity : Exists(db, i) =>
    \E h \in db.history :
      /\ h.signal = i
      /\ h.status = db.signals[i].status
      /\ IF h.status = "ACTIVE" THEN h.edge = db.signals[i].peak
                                ELSE h.at = db.signals[i].resolved
=============================================================================
