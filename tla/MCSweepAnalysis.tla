--------------------------- MODULE MCSweepAnalysis ---------------------------
EXTENDS SweepAnalysis, TLC

CONSTANTS b1, b2, b3, b4, over, under

Four == {b1, b2, b3, b4}
Totals == <<over, under>>
Alike == Permutations(Bookmaker)

\* Tenths.  1.1 and 11.3 are an arbitrage of 0.24%, which pays stakes of 41 and 4; with
\* three digits their shares are 0.909 and 0.0885, and the sum of these 0.998
EdgeOdds == {11, 113}
ThreeDigits == {1, 10, 100}
EdgeBets == {<<41, 4>>, <<4, 41>>, <<1, 1>>}
=============================================================================
