------------------------ MODULE WriteContention_proofs ------------------------
(***************************************************************************)
(* Proofs about WriteContention for any number of collectors, records and  *)
(* markets, whether or not a source is rate-limited.                       *)
(***************************************************************************)
EXTENDS WriteContention, TLAPS

(* Where in its loops the cycle is: what they count is not used up before  *)
(* the step that counts.                                                   *)
Counting ==
  /\ pc \in {"start", "collect", "match", "odds", "payload", "finish"} => polls > 0
  /\ pc \in {"match", "odds", "payload"} => records > 0
  /\ pc \in {"signals", "movements"} => markets > 0

Inv == TypeOK /\ Counting /\ DetectionStartsClean

(* The initial state satisfies the invariant.                              *)
LEMMA InitInv == Init => Inv
<1>1. 0 \in 0 .. MaxPolls /\ 0 \in 0 .. MaxRecords /\ 0 \in 0 .. MaxMarkets
  BY ContentionAssumption
<1> QED BY <1>1 DEF Init, Inv, TypeOK, Counting, DetectionStartsClean

(* Every step, stuttering included, keeps it.                              *)
LEMMA NextInv == Inv /\ [Next]_vars => Inv'
<1> SUFFICES ASSUME Inv, [Next]_vars PROVE Inv'
  OBVIOUS
<1> USE ContentionAssumption DEF Inv, TypeOK, Counting, DetectionStartsClean, work
<1>w. /\ WriteOk => tx' = "none"
      /\ ManagedFails => tx' = "none"
      /\ BareFails => tx' \in {"open", "pinned", "stale"}
  BY DEF WriteOk, ManagedFails, BareFails
<1>n. NextCycle => pc' = "gate" /\ polls' = 0 /\ records' = 0 /\ markets' = 0
  BY DEF NextCycle
<1>1. CASE OtherBegins
  BY <1>1 DEF OtherBegins
<1>2. CASE OtherCommits
  BY <1>2 DEF OtherCommits
<1>3. CASE OtherRollsBack
  BY <1>3 DEF OtherRollsBack
<1>4. CASE Gate
  BY <1>4 DEF Gate, ChooseCollectors
<1>5. CASE Start
  BY <1>5, <1>w, <1>n DEF Start
<1>6. CASE Collect
  BY <1>6 DEF Collect
<1>7. CASE Match
  BY <1>7 DEF Match
<1>8. CASE SaveOdds
  BY <1>8, <1>w DEF SaveOdds
<1>9. CASE SavePayload
  BY <1>9, <1>w DEF SavePayload
<1>10. CASE Finish
  <2>1. CASE WriteOk /\ GoOn
    <3>1. /\ held' = held /\ tx' = "none" /\ records' = records
          /\ polls' = polls - 1 /\ polls' \in 0 .. MaxPolls
          /\ markets' \in 0 .. MaxMarkets
      BY <1>10, <2>1, <1>w DEF Finish, GoOn
    <3>2. \/ pc' = "start" /\ polls' > 0
          \/ pc' = "signals" /\ markets' > 0
          \/ pc' = "expire"
      BY <2>1 DEF GoOn
    <3> QED BY <3>1, <3>2
  <2>2. CASE BareFails /\ NextCycle
    BY <1>10, <2>2, <1>w, <1>n DEF Finish
  <2> QED BY <1>10, <2>1, <2>2 DEF Finish
<1>11. CASE Reconcile
  BY <1>11, <1>w, <1>n DEF Reconcile
<1>12. CASE SaveMovement
  BY <1>12, <1>w, <1>n DEF SaveMovement
<1>13. CASE ExpireSignals
  BY <1>13, <1>w, <1>n DEF ExpireSignals
<1>14. CASE Sleep
  BY <1>14, <1>n DEF Sleep
<1>15. CASE UNCHANGED vars
  BY <1>15 DEF vars
<1> QED BY <1>1, <1>2, <1>3, <1>4, <1>5, <1>6, <1>7, <1>8, <1>9, <1>10, <1>11, <1>12,
           <1>13, <1>14, <1>15 DEF Next, Poller

(* Inv holds for ever.                                                     *)
LEMMA Invariance == Spec => []Inv
BY InitInv, NextInv, PTL DEF Spec

(* Every variable keeps its type: the loops of the cycle never count below *)
(* zero.                                                                   *)
THEOREM Typing == Spec => []TypeOK
BY Invariance, PTL DEF Inv

(* Whatever failed earlier in the cycle or in the cycles before, and       *)
(* whatever other processes do, the sweeps, the movements and the expiry   *)
(* never begin inside a transaction that somebody left open.               *)
THEOREM DetectionIsClean == Spec => []DetectionStartsClean
BY Invariance, PTL DEF Inv

===============================================================================
