-------------------------- MODULE OpportunityTracking --------------------------
(***************************************************************************)
(* What the detection engine promises about a stored signal, with no row,  *)
(* journal, timestamp or transaction: a signal is open while sweeps        *)
(* confirm it, gone when a sweep judged its market and did not find it,    *)
(* and lapsed when its event ran out of time and nobody confirmed it in    *)
(* the current cycle.  "Could not tell" changes nothing, and a sweep       *)
(* speaks for one signal type and one market only.                         *)
(***************************************************************************)
CONSTANT Identity      \* records with at least the fields type and market

VARIABLES
  phase,       \* what is known of each signal
  confirmed    \* the signals the current cycle has found open

vars == <<phase, confirmed>>

Phase == {"unseen", "open", "gone", "lapsed"}

TypeOK == phase \in [Identity -> Phase] /\ confirmed \subseteq Identity

Init == phase = [i \in Identity |-> "unseen"] /\ confirmed = {}

(* A sweep judged the signals of S and found those of H to hold.           *)
Sweep(S, H) ==
  /\ \A i, j \in S : i.type = j.type /\ i.market = j.market
  /\ phase' = [i \in Identity |->
                 IF i \in H THEN "open"
                 ELSE IF i \in S /\ phase[i] = "open" THEN "gone"
                 ELSE phase[i]]
  /\ confirmed' = (confirmed \ S) \cup H

(* The cycle ends and lets the signals of X lapse.                         *)
EndCycle(X) ==
  /\ X \cap confirmed = {}
  /\ \A i \in X : phase[i] = "open"
  /\ phase' = [i \in Identity |-> IF i \in X THEN "lapsed" ELSE phase[i]]
  /\ confirmed' = {}

Next ==
  \/ \E S \in SUBSET Identity : \E H \in SUBSET S : Sweep(S, H)
  \/ \E X \in SUBSET Identity : EndCycle(X)

Spec == Init /\ [][Next]_vars
=============================================================================
