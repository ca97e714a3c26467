-------------------------- MODULE OddsMovement_proofs --------------------------
(***************************************************************************)
(* For every number of streams, providers and prices, whenever a reading   *)
(* was polled and however its source dates it, and whatever another        *)
(* process stores or cleans up while a sweep runs: a movement is a change  *)
(* of one provider's price between readings that were stored; nothing      *)
(* later was known when it was found; and a sweep raises only if it was    *)
(* overtaken or a source's clock went back.                                *)
(*                                                                         *)
(* The argument: a sweep holds at most one reading, a row the table has    *)
(* had; the second query sees one moment of the table, and the two checks  *)
(* of detect_rapid_movement together order its row before that reading.    *)
(***************************************************************************)
EXTENDS OddsMovement, TLAPS

Moves == movements \cup found

(* What MovementsAreTransitions says, of the movements not saved too.      *)
Faithful(m) ==
  \E p, c \in ever :
    /\ p.stream = m.stream /\ p.price = m.from /\ p.observed = m.previous
    /\ c.stream = m.stream /\ c.price = m.to /\ c.observed = m.current
    /\ p.provider = c.provider
    /\ p.quote <= c.quote /\ p.observed <= c.observed

(* LIMIT 1: the first query returned at most one row, of those there were. *)
OneCurrent == current \subseteq ever /\ \A c, d \in current : c = d

Inv ==
  /\ TypeOK
  /\ OneCurrent
  /\ \A m \in Moves : Faithful(m)

-----------------------------------------------------------------------------
(* What the two queries return are rows of the stream asked for.           *)
LEMMA LatestIsARow ==
  ASSUME NEW s, NEW c \in Latest(Of(s))
  PROVE  c \in snapshots /\ c.stream = s /\ \A r \in Of(s) \ {c} : Later(c, r)
BY DEF Latest, Of

LEMMA EarlierIsARow ==
  ASSUME NEW c, NEW p \in Latest(EarlierReadings(c))
  PROVE  /\ p \in snapshots /\ p.stream = c.stream /\ p.provider = c.provider /\ p # c
         /\ p \in EarlierReadings(c)
         /\ \A r \in EarlierReadings(c) \ {p} : Later(p, r)
BY DEF Latest, EarlierReadings, Of

(* The times of a reading are numbers.                                     *)
LEMMA Instants ==
  ASSUME TypeOK, NEW r \in ever
  PROVE  r \in Snapshot /\ r.observed \in Nat /\ r.quote \in Int
BY OddsAssumption DEF TypeOK, Snapshot, Time

(* What a sweep finds it finds on the reading in its hands and the latest  *)
(* other one of that provider, neither clock running back between them.    *)
LEMMA FoundIsPair ==
  ASSUME Inv, Compare, NEW m \in found', m \notin found
  PROVE  \E c \in current : \E p \in EarlierReadings(c) :
           /\ p \in snapshots /\ p.stream = c.stream /\ p.provider = c.provider
           /\ \A r \in EarlierReadings(c) \ {p} : Later(p, r)
           /\ m = Transition(p, c)
           /\ p.observed <= c.observed /\ p.quote <= c.quote
<1> DEFINE pairs == {<<p, c>> : p \in UNION {Latest(EarlierReadings(c)) : c \in current},
                                c \in current}
<1>1. PICK q \in pairs : /\ m = Transition(q[1], q[2])
                         /\ ~ OutOfOrder(q[1], q[2]) /\ Detected(q[1], q[2])
  BY DEF Compare
<1>2. q[2] \in current /\ q[1] \in Latest(EarlierReadings(q[2]))
  BY DEF OneCurrent, Inv
<1> HIDE DEF pairs
<1>3. /\ q[1] \in snapshots /\ q[1].stream = q[2].stream /\ q[1].provider = q[2].provider
      /\ q[1] \in EarlierReadings(q[2])
      /\ \A r \in EarlierReadings(q[2]) \ {q[1]} : Later(q[1], r)
  BY <1>2, EarlierIsARow
<1>4. q[1] \in ever /\ q[2] \in ever /\ TypeOK
  BY <1>2, <1>3 DEF Inv, TypeOK, OneCurrent
<1>5. q[1].observed <= q[2].observed /\ q[1].quote <= q[2].quote
  BY <1>1, <1>4, Instants DEF OutOfOrder, Detected
<1> QED BY <1>1, <1>2, <1>3, <1>5

LEMMA InitInv == Init => Inv
<1> SUFFICES ASSUME Init PROVE Inv
  OBVIOUS
<1>1. 0 \in Time
  BY OddsAssumption DEF Time
<1> QED BY <1>1 DEF Init, Inv, TypeOK, OneCurrent, Moves

(* A reading stored, whenever it was polled, disturbs nothing.             *)
LEMMA PollInv == Inv /\ Ingest => Inv'
<1> SUFFICES ASSUME Inv, Ingest PROVE Inv'
  OBVIOUS
<1>1. /\ UNCHANGED <<movements, pc, todo, current, found>>
      /\ clock' \in Time /\ clock' \in Nat
  BY OddsAssumption DEF Ingest, Inv, TypeOK, Time
<1>2. PICK s \in Stream, p \in Provider, price \in Price, observed \in 0 .. clock', lag \in Lag :
        Store([stream |-> s, provider |-> p, price |-> price,
               observed |-> observed, quote |-> observed - lag])
  BY DEF Ingest
<1> DEFINE row == [stream |-> s, provider |-> p, price |-> price,
                   observed |-> observed, quote |-> observed - lag]
<1>3. row \in Snapshot
  BY <1>1, OddsAssumption DEF Snapshot, Time
<1> HIDE DEF row
<1>4. \/ UNCHANGED <<snapshots, ever>>
      \/ snapshots' = snapshots \cup {row} /\ ever' = ever \cup {row}
  BY <1>2 DEF Store, row
<1>5. TypeOK' /\ ever \subseteq ever'
  BY <1>1, <1>3, <1>4 DEF Inv, TypeOK
<1> QED BY <1>1, <1>5 DEF Inv, OneCurrent, Moves, Faithful

(* What the sweep has found it has found on stored readings.               *)
LEMMA CompareInv == Inv /\ Compare => Inv'
<1> SUFFICES ASSUME Inv, Compare PROVE Inv'
  OBVIOUS
<1>1. /\ UNCHANGED <<clock, snapshots, ever, movements, todo>> /\ current' = {}
      /\ pc' \in {"raised", "scan"}
  BY DEF Compare
<1>2. ASSUME NEW m \in found', m \notin found
      PROVE  m \in Movement /\ Faithful(m)
  <2>0. PICK c \in current : \E p \in EarlierReadings(c) :
               /\ p \in snapshots /\ p.stream = c.stream /\ p.provider = c.provider
               /\ m = Transition(p, c)
               /\ p.observed <= c.observed /\ p.quote <= c.quote
    BY <1>2, FoundIsPair
  <2>1. PICK p \in EarlierReadings(c) :
               /\ p \in snapshots /\ p.stream = c.stream /\ p.provider = c.provider
               /\ m = Transition(p, c)
               /\ p.observed <= c.observed /\ p.quote <= c.quote
    BY <2>0
  <2>2. /\ m.stream = c.stream /\ m.from = p.price /\ m.to = c.price
        /\ m.previous = p.observed /\ m.current = c.observed
    BY <2>1 DEF Transition
  <2>3. c \in ever /\ p \in ever
    BY <2>1 DEF Inv, TypeOK, OneCurrent
  <2>4. m \in Movement
    BY <2>1, <2>3 DEF Transition, Movement, Inv, TypeOK, Snapshot
  <2> QED BY <2>1, <2>2, <2>3, <2>4 DEF Faithful
<1>3. TypeOK'
  BY <1>1, <1>2 DEF Inv, TypeOK
<1>4. \A m \in Moves' : Faithful(m)'
  BY <1>1, <1>2 DEF Inv, Moves, Faithful
<1> QED BY <1>1, <1>3, <1>4 DEF Inv, OneCurrent

(* Every step, stuttering included, keeps the invariant.                   *)
LEMMA NextInv == Inv /\ [Next]_vars => Inv'
<1> SUFFICES ASSUME Inv, [Next]_vars PROVE Inv'
  OBVIOUS
<1> USE DEF Inv
(* A step that finds nothing, and holds no other reading than it did.      *)
<1>a. ASSUME TypeOK', UNCHANGED ever, current' \subseteq current, Moves' \subseteq Moves
      PROVE  Inv'
  BY <1>a DEF OneCurrent, Faithful
<1>1. CASE Ingest
  BY <1>1, PollInv
<1>2. CASE CleanUp
  BY <1>2, <1>a DEF CleanUp, TypeOK, Moves
<1>3. CASE BeginScan
  BY <1>3, <1>a DEF BeginScan, TypeOK, Moves, Snapshot
<1>4. CASE ReadLatest
  <2>1. PICK s \in todo : todo' = todo \ {s} /\ current' = Latest(Of(s))
    BY <1>4 DEF ReadLatest
  <2>2. current' \subseteq ever
    BY <2>1, LatestIsARow DEF TypeOK
  <2>3. \A c, d \in current' : c = d
    <3>1. \A c, d \in current' : c = d \/ (Later(c, d) /\ Later(d, c))
      BY <2>1 DEF Latest
    <3>2. \A c \in current' : c.quote \in Int /\ c.observed \in Nat
      BY <2>2, Instants
    <3> QED BY <3>1, <3>2 DEF Later
  <2>4. TypeOK'
    BY <1>4, <2>1, <2>2 DEF ReadLatest, TypeOK
  <2> QED BY <1>4, <2>2, <2>3, <2>4 DEF ReadLatest, OneCurrent, Moves, Faithful
<1>5. CASE Compare
  BY <1>5, CompareInv
<1>6. CASE EndScan
  BY <1>6, <1>a DEF EndScan, TypeOK, Moves
<1>7. CASE SaveMovement
  <2>1. PICK m \in found : /\ found' = found \ {m}
                           /\ movements' \in {movements, movements \cup {m}}
    BY <1>7 DEF SaveMovement
  <2> QED BY <1>7, <1>a, <2>1 DEF SaveMovement, TypeOK, Moves
<1>8. CASE EndSweep
  BY <1>8, <1>a DEF EndSweep, TypeOK, Moves
<1>9. CASE Restart
  BY <1>9, <1>a DEF Restart, TypeOK, Moves
<1>10. CASE UNCHANGED vars
  BY <1>10, <1>a DEF vars, TypeOK, Moves
<1> QED BY <1>1, <1>2, <1>3, <1>4, <1>5, <1>6, <1>7, <1>8, <1>9, <1>10 DEF Next

(* Inv holds for ever.                                                     *)
LEMMA Invariance == Spec => []Inv
BY InitInv, NextInv, PTL DEF Spec

(* Every variable keeps its type: what a sweep holds are readings and      *)
(* movements of the tables' shape.                                         *)
THEOREM Typing == Spec => []TypeOK
BY Invariance, PTL DEF Inv

(* A saved movement is a change of one provider's price between two        *)
(* readings that were stored, and neither clock runs back between them,    *)
(* in whatever order readings were stored and whoever cleaned up since.    *)
THEOREM NeverAcrossProviders == Spec => []MovementsAreTransitions
<1>1. Inv => MovementsAreTransitions
  BY DEF Inv, Moves, Faithful, MovementsAreTransitions
<1> QED BY <1>1, Invariance, PTL

(* A sweep that was overtaken between its queries, or reads what was       *)
(* stored late, never reports a change from or to an outdated reading.     *)
THEOREM NothingOutdated == Spec => MovementsJoinNewest
<1>1. ASSUME Inv, [Next]_vars, NEW m \in found', m \notin found, NEW c \in current
      PROVE  /\ m.current = c.observed
             /\ \A r \in EarlierReadings(c) :
                  /\ ~ Later(r, c)
                  /\ r.observed = m.previous \/ \E q \in EarlierReadings(c) :
                                                   q.observed = m.previous /\ Later(q, r)
  <2>1. Compare
    BY <1>1 DEF Next, vars, Ingest, CleanUp, BeginScan, ReadLatest, EndScan, SaveMovement,
                EndSweep, Restart
  <2>2. PICK d \in current : \E p \in EarlierReadings(d) :
               /\ \A r \in EarlierReadings(d) \ {p} : Later(p, r)
               /\ m = Transition(p, d)
               /\ p.observed <= d.observed /\ p.quote <= d.quote
    BY <1>1, <2>1, FoundIsPair
  <2>3. d = c
    BY <1>1 DEF Inv, OneCurrent
  <2>4. PICK p \in EarlierReadings(c) :
               /\ \A r \in EarlierReadings(c) \ {p} : Later(p, r)
               /\ m = Transition(p, c)
               /\ p.observed <= c.observed /\ p.quote <= c.quote
    BY <2>2, <2>3
  <2>5. m.previous = p.observed /\ m.current = c.observed
    BY <2>4 DEF Transition
  <2>6. TypeOK /\ c \in ever /\ EarlierReadings(c) \subseteq ever
    BY <1>1 DEF Inv, OneCurrent, TypeOK, EarlierReadings, Of
  <2>7. ASSUME NEW r \in EarlierReadings(c)
        PROVE  /\ r = p \/ Later(p, r)
               /\ ~ Later(r, c)
    <3>1. r = p \/ Later(p, r)
      BY <2>4
    <3>2. /\ r.observed \in Nat /\ p.observed \in Nat /\ c.observed \in Nat
          /\ r.quote \in Int /\ p.quote \in Int /\ c.quote \in Int
      BY <2>6, Instants
    <3> QED BY <2>4, <3>1, <3>2 DEF Later
  <2> QED BY <2>5, <2>7
<1>2. Inv /\ [Next]_vars
        => [\A m \in found' \ found, c \in current :
              /\ m.current = c.observed
              /\ \A r \in EarlierReadings(c) :
                   /\ ~ Later(r, c)
                   /\ r.observed = m.previous \/ \E q \in EarlierReadings(c) :
                                                    q.observed = m.previous /\ Later(q, r)]_vars
  BY <1>1
<1> QED BY <1>2, Invariance, PTL DEF Spec, MovementsJoinNewest

(* detect_rapid_movement raises only on a reading that is no longer the    *)
(* latest, or when a source's clock went back; nothing is assumed of the   *)
(* sources, and nothing else is a reason.                                  *)
THEOREM RaisingMeansDisorder == Spec => RaisesOnlyOnDisorder
<1>1. ASSUME Inv, [Next]_vars, pc # "raised", pc' = "raised"
      PROVE  \E c \in current :
               \/ Latest(Of(c.stream)) # {c}
               \/ \E r \in EarlierReadings(c) : r.observed > c.observed /\ r.quote < c.quote
  <2>1. Compare
    BY <1>1 DEF Next, vars, Ingest, CleanUp, BeginScan, ReadLatest, EndScan, SaveMovement,
                EndSweep, Restart
  <2>2. PICK c \in current : \E p \in Latest(EarlierReadings(c)) : OutOfOrder(p, c)
    BY <1>1, <2>1 DEF Compare, OneCurrent, Inv
  <2>3. PICK p \in Latest(EarlierReadings(c)) : OutOfOrder(p, c)
    BY <2>2
  <2>4. /\ p \in EarlierReadings(c) /\ p \in snapshots /\ p.stream = c.stream /\ p # c
        /\ p \in Of(c.stream)
    BY EarlierIsARow DEF Of
  <2>5. /\ p.observed \in Nat /\ c.observed \in Nat
        /\ p.quote \in Int /\ c.quote \in Int
    BY <1>1, <2>4, Instants DEF Inv, OneCurrent, TypeOK
  <2>6. Latest(Of(c.stream)) = {c} => Later(c, p)
    BY <2>4, LatestIsARow
  <2>7. p.observed > c.observed
    BY <2>3, <2>5 DEF OutOfOrder
  <2>8. Later(c, p) => p.quote < c.quote
    BY <2>5, <2>7 DEF Later
  <2> QED BY <2>4, <2>6, <2>7, <2>8
<1>2. Inv /\ [Next]_vars
        => [(pc # "raised" /\ pc' = "raised") =>
              \E c \in current :
                \/ Latest(Of(c.stream)) # {c}
                \/ \E r \in EarlierReadings(c) : r.observed > c.observed /\ r.quote < c.quote]_vars
  BY <1>1
<1> QED BY <1>2, Invariance, PTL DEF Spec, RaisesOnlyOnDisorder

================================================================================
