-------------------------- MODULE MCConcurrentSweeps --------------------------
(* Two processes on two signals of one event.                              *)
EXTENDS ConcurrentSweeps, TLC

CONSTANTS p1, p2, e1, m1, home, away

Gap(o) == [type |-> "VALUE_GAP", event |-> e1, market |-> m1, outcome |-> o]

TwoSignals == {Gap(home), Gap(away)}

(* The processes run the same code, and no outcome is special.             *)
Alike == Permutations(Proc) \cup Permutations({home, away})
=============================================================================
