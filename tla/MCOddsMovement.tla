---------------------------- MODULE MCOddsMovement ----------------------------
(* One stream that two providers report, with dates behind and ahead of    *)
(* the poll.                                                               *)
EXTENDS OddsMovement

CONSTANTS s1, bet1, bet2

MCLag == {-1, 1}
=============================================================================
