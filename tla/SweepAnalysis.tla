----------------------------- MODULE SweepAnalysis -----------------------------
(***************************************************************************)
(* What one detection sweep concludes from the stored odds of one event    *)
(* and one market: which quotes are fresh, whether their best prices are   *)
(* an arbitrage, which prices stand out of the consensus, and which        *)
(* signals the sweep can judge at all.  Quotes arrive, time passes, and a  *)
(* sweep opens the signals it finds and resolves the ones it judged and    *)
(* did not find (SignalRepository.reconcile; the rows are in SignalStore). *)
(*                                                                         *)
(* A Decimal result has 28 significant digits: its last digit stands for   *)
(* 10^-28 between 0.1 and 1, for 10^-27 from 1 to 10, and for less and     *)
(* less below 0.1, as the quotient 1/odds is of odds of 10.00 and more.    *)
(* Quotients and their sums are integers here, in units of the smallest of *)
(* these last digits, and are rounded to their own, half to even.          *)
(***************************************************************************)
EXTENDS Integers, Sequences, FiniteSets, FiniteSetsExt, Functions

CONSTANTS
  Bookmaker,      \* canonical bookmakers
  Order,          \* REQUIRED_OUTCOMES of the market's type, a tuple
  Odds, Unit,     \* prices that are quoted, in multiples of 1/Unit
  MaxTime,        \* instants of the run
  MaxQuotes,      \* bounds the quotes stored at one time
  MaxSnapshotAge, \* FreshnessPolicy.max_snapshot_age
  MaxSpread,      \* FreshnessPolicy.max_observation_spread
  Skew,           \* FreshnessPolicy.allowed_future_skew
  Ahead,          \* how much further than that a provider's clock may be ahead
  Threshold,      \* threshold_percent of an outlier
  MinBookmakers,  \* quotes an outcome needs for a consensus
  Scale,          \* the power of ten that stands for decimal's precision, 10^28
  Ulps, Ulp,      \* what a last digit may stand for, and what it does between 0.1 and 1,
                  \* in units of the smallest: 1, 10, ... Ulp, 10 * Ulp
  Bets            \* what may be staked on the outcomes

(* The validator wants odds above 1, and has no upper limit: the longest   *)
(* price has the smallest last digit.                                      *)
ASSUME AnalysisAssumption ==
  /\ IsFiniteSet(Bookmaker)
  /\ Order \in Seq(Range(Order)) /\ Len(Order) \in {2, 3} /\ IsInjective(Order)
  /\ Unit \in Nat \ {0} /\ Ulp \in Nat \ {0}
  /\ \A p \in Odds : p \in Nat /\ Unit < p /\ p <= 10 * Ulp * Unit
  /\ {1, Ulp, 10 * Ulp} \subseteq Ulps /\ \A u \in Ulps : u \in 1 .. Ulp \/ u = 10 * Ulp
  /\ MaxTime \in Nat /\ MaxQuotes \in Nat /\ MaxSnapshotAge \in Nat /\ MaxSpread \in Nat
  /\ Skew \in Nat /\ Ahead \in Nat
  /\ Threshold \in Nat \ {0} /\ MinBookmakers \in Nat \ {0}
  /\ Scale \in Nat \ {0} /\ Scale % 10 = 0 /\ Bets \subseteq [DOMAIN Order -> Nat \ {0}]

Outcome == Range(Order)

VARIABLES
  time,     \* the wall clock
  quotes,   \* the latest snapshot per (bookmaker, outcome): find_latest_for_market
  active    \* the signals of this event and market whose status is ACTIVE

vars == <<time, quotes, active>>

\* quote_time may lie ahead of the clock: a provider's clock may be wrong
Quote == [odds : Odds, at : 0 .. MaxTime + Skew + Ahead]
NoQuote == [odds |-> 0, at |-> -1]

Slot == Bookmaker \X Outcome
Signal == {<<"SUREBET", "any">>} \cup ({"VALUE_GAP"} \X Outcome)
Surebet == <<"SUREBET", "any">>

Init == time = 0 /\ quotes = [s \in Slot |-> NoQuote] /\ active = {}

-----------------------------------------------------------------------------
Stored(q) == {s \in Slot : q[s] # NoQuote}

(* The snapshots that are neither too old nor too far in the future.       *)
Fresh(q) == {s \in Stored(q) : /\ time - q[s].at >= -Skew
                               /\ time - q[s].at <= MaxSnapshotAge}

Together(q, S) == \A s, t \in S : q[s].at - q[t].at <= MaxSpread

(* Mutant: the spread of everything stored, the lagging quotes included.   *)
CohortOfAll(q) == IF Fresh(q) # {} /\ Together(q, Stored(q)) THEN Fresh(q) ELSE {}

(* validate_freshness: the fresh snapshots if they were observed closely   *)
(* enough together, and otherwise no verdict at all.                       *)
Cohort(q) == IF Fresh(q) # {} /\ Together(q, Fresh(q)) THEN Fresh(q) ELSE {}

For(q, o) == {s \in Cohort(q) : s[2] = o}

(* find_best_odds.                                                         *)
Best(q, o) == Max({q[s].odds : s \in For(q, o)})

(* set(best) = needed_set.                                                 *)
AllPriced(q) == \A o \in Outcome : For(q, o) # {}

RoundHalfEven(n, d) ==
  LET down == n \div d  twice == 2 * (n % d) IN
  IF twice > d \/ (twice = d /\ down % 2 = 1) THEN down + 1 ELSE down

(* What Decimal makes of the number n/d, which is 10 at most.              *)
LastDigit(n, d) == Min({u \in Ulps : n <= d * Scale * u})
Rounded(n, d) == LastDigit(n, d) * RoundHalfEven(n, d * LastDigit(n, d))

One == Scale * Ulp

(* Mutant: whole percents, as a report would show them.                    *)
WholePercents(odds) == RoundHalfEven(100 * Unit, odds) * (One \div 100)

(* Decimal("1") / odds.                                                    *)
Share(odds) == Rounded(Unit * One, odds)

SumOf(s) ==
  LET upTo[i \in 0 .. Len(s)] == IF i = 0 THEN 0 ELSE upTo[i - 1] + s[i] IN upTo[Len(s)]

(* sum(..., start=Decimal("0")), rounded at every addition.                *)
DecimalSum(s) ==
  LET upTo[i \in 0 .. Len(s)] == IF i = 0 THEN 0 ELSE Rounded(upTo[i - 1] + s[i], 1)
  IN  upTo[Len(s)]

Shares(q) == [i \in DOMAIN Order |-> Share(Best(q, Order[i]))]

(* calculate_arbitrage.                                                    *)
Margin(q) == DecimalSum(Shares(q))

(* detect_surebet_candidates.                                              *)
SurebetJudged(q) == AllPriced(q)
SurebetFound(q)  == SurebetJudged(q) /\ Margin(q) < One

-----------------------------------------------------------------------------
(* statistics.median of the odds of an outcome, twice: the middle price,   *)
(* or the sum of the two middle ones.                                      *)
Below(q, S, s) == Cardinality({t \in S : q[t].odds < q[s].odds})
NotAbove(q, S, s) == Cardinality({t \in S : q[t].odds <= q[s].odds})
Nth(q, S, n) == LET nth == {s \in S : Below(q, S, s) < n /\ n <= NotAbove(q, S, s)}
                IN  CHOOSE p \in {q[s].odds : s \in nth} : TRUE

TwiceMedian(q, S) ==
  LET n == Cardinality(S) IN
  IF n % 2 = 1 THEN 2 * Nth(q, S, (n + 1) \div 2)
               ELSE Nth(q, S, n \div 2) + Nth(q, S, n \div 2 + 1)

(* detect_outliers, the ones above the consensus.                          *)
Outliers(q, o) ==
  LET S == For(q, o) IN
  IF Cardinality(S) < MinBookmakers THEN {}
  ELSE {s \in S : 100 * (2 * q[s].odds - TwiceMedian(q, S)) >= Threshold * TwiceMedian(q, S)}

(* Mutant: the sweep counts one bookmaker more than the detector needs.    *)
GapJudgedStrictly(q, o) == Cardinality(For(q, o)) > MinBookmakers

(* detect_value_gap_candidates: evaluated_keys repeats the count the       *)
(* detector makes.                                                         *)
GapJudged(q, o) == Cardinality(For(q, o)) >= MinBookmakers
GapFound(q, o)  == Outliers(q, o) # {}

Judged(q) == {sg \in Signal : IF sg = Surebet THEN SurebetJudged(q) ELSE GapJudged(q, sg[2])}

Found(q)  == {sg \in Signal : IF sg = Surebet THEN SurebetFound(q)  ELSE GapFound(q, sg[2])}

-----------------------------------------------------------------------------
(* One record is stored: a bookmaker's price for an outcome or for all of  *)
(* them.  A snapshot that is older than the latest one changes nothing.    *)
StoreQuote ==
  /\ \E b \in Bookmaker, at \in 0 .. time + Skew + Ahead,
        O \in {Outcome} \cup {{o} : o \in Outcome} :
       \E price \in [O -> Odds] :
         quotes' = [s \in Slot |->
                      IF s[1] = b /\ s[2] \in O /\ at >= quotes[s].at
                      THEN [odds |-> price[s[2]], at |-> at] ELSE quotes[s]]
  /\ Cardinality(Stored(quotes')) <= MaxQuotes
  /\ UNCHANGED <<time, active>>

(* A cycle sweeps the market, and time passes until the next one.          *)
Sweep ==
  /\ time < MaxTime
  /\ time' = time + 1
  /\ active' = (active \ Judged(quotes)) \cup Found(quotes)
  /\ UNCHANGED quotes

Next == StoreQuote \/ Sweep

Spec == Init /\ [][Next]_vars

-----------------------------------------------------------------------------
(* reconcile refuses a candidate that is not among the evaluated keys, so  *)
(* the two counts of the value-gap detection must agree on any odds.       *)
CandidatesAreJudged == Found(quotes) \subseteq Judged(quotes)

(* Reference definition of an arbitrage: whoever bets a stake on every     *)
(* outcome, each at a bookmaker that quotes it now, gets back more than    *)
(* all the stakes, whichever outcome comes true.                           *)
Pays(stake, price) == \A i \in DOMAIN Order : stake[i] * price[i] > Unit * SumOf(stake)

Offers(q) == {leg \in [DOMAIN Order -> Bookmaker] :
                \A i \in DOMAIN Order : <<leg[i], Order[i]>> \in Fresh(q)}
PricesOf(q, leg) == [i \in DOMAIN Order |-> q[<<leg[i], Order[i]>>].odds]

(* What anybody stakes is small against 10^28: with three outcomes and     *)
(* prices in hundredths, 10^25 in all.                                     *)
ASSUME BetsAssumption ==
  \A stake \in Bets : Len(Order) * (Unit * SumOf(stake) + 1) < Scale

(* The sweep sees every arbitrage that fresh, simultaneous quotes offer,   *)
(* whichever bookmakers it needs and however many others are out of date,  *)
(* and however the quotients and their sum are rounded.                    *)
NoArbitrageMissed ==
  (/\ Together(quotes, Fresh(quotes))
   /\ \E leg \in Offers(quotes), stake \in Bets : Pays(stake, PricesOf(quotes, leg)))
    => SurebetFound(quotes)

(* One lagging bookmaker does not decide: a sweep concludes what it would  *)
(* conclude if the quotes that are not fresh had never been stored.        *)
LaggardsDoNotMatter ==
  LET q == [s \in Slot |-> IF s \in Stored(quotes) /\ time - quotes[s].at \in -Skew .. MaxSnapshotAge
                           THEN quotes[s] ELSE NoQuote]
  IN  Judged(quotes) = Judged(q) /\ Found(quotes) = Found(q)
=============================================================================
