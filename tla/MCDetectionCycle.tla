--------------------------- MODULE MCDetectionCycle ---------------------------
(* A small instance of DetectionCycle: two signals of one event, of        *)
(* different markets and types.                                            *)
EXTENDS DetectionCycle

CONSTANTS e1, m1, m2

Signal(type, m) == [type |-> type, event |-> e1, market |-> m, outcome |-> "any"]
TwoSignals == {Signal("VALUE_GAP", m1), Signal("SUREBET", m2)}
=============================================================================
