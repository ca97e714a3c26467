------------------------ MODULE SweepAnalysis_proofs ------------------------
(***************************************************************************)
(* What a sweep concludes depends on the fresh quotes alone, every         *)
(* candidate is among what it judged, no arbitrage that the fresh quotes   *)
(* offer is missed, and a surebet it finds pays for its stakes but for     *)
(* some of the last digits: for any bookmakers, prices and thresholds.     *)
(*                                                                         *)
(* The CHOOSE of the median is never unfolded: it is enough that it is     *)
(* applied to the same things.  The sums are unfolded into their partial   *)
(* sums, by the smallest of a set of counterexamples, and followed over    *)
(* the outcomes.                                                           *)
(***************************************************************************)
EXTENDS SweepAnalysis, FiniteSetTheorems, WellFoundedInduction, TLAPS

Inv ==
  /\ time \in 0 .. MaxTime
  /\ quotes \in [Slot -> Quote \cup {NoQuote}]

(* The quotes q with those that are not fresh never stored.                *)
Cleaned(q) == [s \in Slot |-> IF s \in Stored(q) /\ time - q[s].at \in -Skew .. MaxSnapshotAge
                              THEN q[s] ELSE NoQuote]

-----------------------------------------------------------------------------
LEMMA SameMedian ==
  ASSUME NEW q, NEW r, NEW S, \A s \in S : q[s] = r[s]
  PROVE  TwiceMedian(q, S) = TwiceMedian(r, S)
<1>1. \A s \in S : Below(q, S, s) = Below(r, S, s) /\ NotAbove(q, S, s) = NotAbove(r, S, s)
  <2> SUFFICES ASSUME NEW s \in S
               PROVE  Below(q, S, s) = Below(r, S, s) /\ NotAbove(q, S, s) = NotAbove(r, S, s)
    OBVIOUS
  <2>1. {t \in S : q[t].odds < q[s].odds} = {t \in S : r[t].odds < r[s].odds}
    OBVIOUS
  <2>2. {t \in S : q[t].odds <= q[s].odds} = {t \in S : r[t].odds <= r[s].odds}
    OBVIOUS
  <2>3. QED BY <2>1, <2>2, Zenon DEF Below, NotAbove
<1>2. ASSUME NEW n PROVE Nth(q, S, n) = Nth(r, S, n)
  <2> DEFINE nth(f) == {s \in S : Below(f, S, s) < n /\ n <= NotAbove(f, S, s)}
             prices(f) == {f[s].odds : s \in nth(f)}
  <2>1. nth(q) = nth(r)
    BY <1>1
  <2>2. nth(q) \subseteq S
    OBVIOUS
  <2> HIDE DEF nth
  <2>3. prices(q) = prices(r)
    BY <2>1, <2>2
  <2>4. /\ Nth(q, S, n) = (CHOOSE p \in prices(q) : TRUE)
        /\ Nth(r, S, n) = (CHOOSE p \in prices(r) : TRUE)
    BY Zenon DEF Nth, nth
  <2> HIDE DEF prices
  <2>5. QED BY <2>3, <2>4, Zenon
<1>3. QED BY <1>2 DEF TwiceMedian

(* Quotes with the same fresh ones lead to the same conclusions.           *)
LEMMA SameConclusions ==
  ASSUME NEW q, NEW r, Fresh(q) = Fresh(r), \A s \in Fresh(q) : q[s] = r[s]
  PROVE  Judged(q) = Judged(r) /\ Found(q) = Found(r)
<1>1. Cohort(q) = Cohort(r) /\ Cohort(q) \subseteq Fresh(q)
  <2>1. Together(q, Fresh(q)) <=> Together(r, Fresh(r))
    BY DEF Together
  <2>2. QED BY <2>1 DEF Cohort
<1>2. \A s \in Cohort(q) : q[s] = r[s]
  BY <1>1
<1>3. \A o : For(q, o) = For(r, o) /\ For(q, o) \subseteq Cohort(q)
  BY <1>1 DEF For
<1>4. \A o : Best(q, o) = Best(r, o)
  <2> SUFFICES ASSUME NEW o PROVE Best(q, o) = Best(r, o)
    OBVIOUS
  <2>1. {q[s].odds : s \in For(q, o)} = {r[s].odds : s \in For(r, o)}
    BY <1>2, <1>3
  <2>2. QED BY <2>1, Zenon DEF Best
<1>5. Margin(q) = Margin(r)
  <2>1. Shares(q) = Shares(r)
    BY <1>4 DEF Shares
  <2>2. QED BY <2>1, Zenon DEF Margin
<1>6. SurebetJudged(q) = SurebetJudged(r) /\ SurebetFound(q) = SurebetFound(r)
  <2>1. AllPriced(q) = AllPriced(r)
    BY <1>3 DEF AllPriced
  <2>2. QED BY <2>1, <1>5 DEF SurebetJudged, SurebetFound
<1>7. \A o : Outliers(q, o) = Outliers(r, o)
  <2> SUFFICES ASSUME NEW o PROVE Outliers(q, o) = Outliers(r, o)
    OBVIOUS
  <2> DEFINE S == For(q, o)
  <2>1. For(q, o) = S /\ For(r, o) = S /\ \A s \in S : q[s] = r[s]
    BY <1>2, <1>3
  <2> HIDE DEF S
  <2>2. TwiceMedian(q, S) = TwiceMedian(r, S)
    BY <2>1, SameMedian
  <2>3. QED BY <2>1, <2>2 DEF Outliers
<1>8. \A o : GapJudged(q, o) = GapJudged(r, o) /\ GapFound(q, o) = GapFound(r, o)
  BY <1>3, <1>7 DEF GapJudged, GapFound
<1>9. QED BY <1>6, <1>8 DEF Judged, Found

(* What is left of the quotes is what was fresh.                           *)
LEMMA CleanedIsFresh ==
  ASSUME Inv
  PROVE  Fresh(Cleaned(quotes)) = Fresh(quotes)
         /\ \A s \in Fresh(quotes) : quotes[s] = Cleaned(quotes)[s]
<1> DEFINE q == Cleaned(quotes)
<1>1. \A s \in Stored(quotes) : quotes[s].at \in Int
  BY DEF Inv, Stored, Quote, NoQuote
<1>2. time \in Int /\ Skew \in Int /\ MaxSnapshotAge \in Int
  BY AnalysisAssumption DEF Inv
<1>3. Fresh(quotes) \subseteq Stored(quotes) /\ Stored(quotes) \subseteq Slot
  BY DEF Fresh, Stored
<1>4. \A s \in Slot : q[s] = IF s \in Fresh(quotes) THEN quotes[s] ELSE NoQuote
  BY <1>1, <1>2 DEF Cleaned, Fresh
<1> HIDE DEF q
<1>5. Stored(q) = Fresh(quotes)
  BY <1>3, <1>4 DEF Stored
<1>6. \A s \in Fresh(quotes) : q[s] = quotes[s]
  BY <1>3, <1>4
<1>7. Fresh(q) = Fresh(quotes)
  BY <1>3, <1>5, <1>6 DEF Fresh
<1>8. QED BY <1>6, <1>7 DEF q

-----------------------------------------------------------------------------
LEMMA FewOutcomes == IsFiniteSet(Outcome)
<1>1. /\ Order \in Seq(Outcome) /\ Len(Order) \in Nat /\ DOMAIN Order = 1 .. Len(Order)
      /\ Outcome = {Order[i] : i \in DOMAIN Order}
  BY AnalysisAssumption DEF Outcome, Range
<1>2. Order \in [1 .. Len(Order) -> Outcome]
  BY <1>1
<1>3. Order \in Surjection(1 .. Len(Order), Outcome)
  BY <1>1, <1>2 DEF Surjection
<1>4. IsFiniteSet(1 .. Len(Order))
  BY <1>1, FS_Interval
<1>5. QED BY <1>3, <1>4, FS_Surjection

LEMMA InvInit == Init => Inv
BY AnalysisAssumption DEF Init, Inv

LEMMA InvStep == Inv /\ [Next]_vars => Inv'
<1> SUFFICES ASSUME Inv, [Next]_vars PROVE Inv'
  OBVIOUS
<1>1. MaxTime \in Nat /\ Skew \in Nat /\ Ahead \in Nat /\ time \in 0 .. MaxTime
  BY AnalysisAssumption DEF Inv
<1>2. CASE StoreQuote
  <2>1. time' = time
    BY <1>2 DEF StoreQuote
  <2>2. PICK b \in Bookmaker, at \in 0 .. time + Skew + Ahead,
             O \in {Outcome} \cup {{o} : o \in Outcome} :
          \E price \in [O -> Odds] :
             quotes' = [s \in Slot |->
                          IF s[1] = b /\ s[2] \in O /\ at >= quotes[s].at
                          THEN [odds |-> price[s[2]], at |-> at] ELSE quotes[s]]
    BY <1>2 DEF StoreQuote
  <2>3. PICK price \in [O -> Odds] :
          quotes' = [s \in Slot |->
                       IF s[1] = b /\ s[2] \in O /\ at >= quotes[s].at
                       THEN [odds |-> price[s[2]], at |-> at] ELSE quotes[s]]
    BY <2>2
  <2>4. at \in 0 .. MaxTime + Skew + Ahead
    BY <1>1
  <2>5. \A s \in Slot : quotes'[s] \in Quote \cup {NoQuote}
    <3> SUFFICES ASSUME NEW s \in Slot PROVE quotes'[s] \in Quote \cup {NoQuote}
      OBVIOUS
    <3>1. CASE s[1] = b /\ s[2] \in O /\ at >= quotes[s].at
      <4>1. quotes'[s] = [odds |-> price[s[2]], at |-> at] /\ price[s[2]] \in Odds
        BY <2>3, <3>1
      <4>2. QED BY <2>4, <4>1 DEF Quote
    <3>2. CASE ~ (s[1] = b /\ s[2] \in O /\ at >= quotes[s].at)
      BY <2>3, <3>2 DEF Inv
    <3>3. QED BY <3>1, <3>2
  <2>6. quotes' \in [Slot -> Quote \cup {NoQuote}]
    BY <2>3, <2>5
  <2>7. QED BY <1>1, <2>1, <2>6 DEF Inv
<1>3. CASE Sweep
  BY <1>1, <1>3 DEF Sweep, Inv
<1>4. CASE UNCHANGED vars
  BY <1>4 DEF Inv, vars
<1>5. QED BY <1>2, <1>3, <1>4 DEF Next

(* The clock and the latest quotes keep their types.                       *)
THEOREM Types == Spec => []Inv
BY InvInit, InvStep, PTL DEF Spec

(* A sweep judges and finds what it would if the quotes that are not fresh *)
(* had never been stored: a source that lags behind, or whose clock is far *)
(* ahead, neither hides a signal nor makes one.                            *)
THEOREM OnlyFreshQuotesCount == Spec => []LaggardsDoNotMatter
<1>1. Inv => LaggardsDoNotMatter
  <2> SUFFICES ASSUME Inv PROVE LaggardsDoNotMatter
    OBVIOUS
  <2>1. Judged(quotes) = Judged(Cleaned(quotes)) /\ Found(quotes) = Found(Cleaned(quotes))
    BY CleanedIsFresh, SameConclusions
  <2>2. QED BY <2>1 DEF LaggardsDoNotMatter, Cleaned
<1>2. QED BY <1>1, Types, PTL

(* The two halves of a detection, the key it calls evaluated and the       *)
(* candidate it returns, cannot disagree in the way reconcile refuses.     *)
THEOREM EveryCandidateIsJudged == Spec => []CandidatesAreJudged
<1>1. Inv => CandidatesAreJudged
  <2> SUFFICES ASSUME Inv, NEW sg \in Signal, sg \in Found(quotes) PROVE sg \in Judged(quotes)
    BY DEF CandidatesAreJudged, Found
  <2>1. CASE sg = Surebet
    BY <2>1 DEF Found, Judged, SurebetFound
  <2>2. CASE sg # Surebet
    <3>1. Outliers(quotes, sg[2]) # {}
      BY <2>2 DEF Found, GapFound
    <3>2. ~ (Cardinality(For(quotes, sg[2])) < MinBookmakers)
      BY <3>1 DEF Outliers
    <3>3. For(quotes, sg[2]) \subseteq Slot
      BY DEF For, Cohort, Fresh, Stored
    <3>4. IsFiniteSet(Slot)
      BY AnalysisAssumption, FewOutcomes, FS_Product DEF Slot
    <3>5. Cardinality(For(quotes, sg[2])) \in Nat
      BY <3>3, <3>4, FS_Subset, FS_CardinalityType
    <3>6. MinBookmakers \in Nat
      BY AnalysisAssumption
    <3>7. GapJudged(quotes, sg[2])
      BY <3>2, <3>5, <3>6 DEF GapJudged
    <3>8. QED BY <2>2, <3>7 DEF Judged
  <2>3. QED BY <2>1, <2>2
<1>2. QED BY <1>1, Types, PTL

-----------------------------------------------------------------------------
(* A set of numbers has a least one.                                       *)
LEMMA Least ==
  ASSUME NEW S, S \subseteq Nat, S # {} PROVE \E x \in S : \A y \in S : x <= y
<1> DEFINE R == OpToRel(<, Nat)
<1>1. IsWellFoundedOn(R, Nat)
  BY NatLessThanWellFounded
<1>2. \A x, y \in Nat : x < y => <<x, y>> \in R
  BY DEF OpToRel
<1> HIDE DEF R
<1>3. PICK x \in S : \A y \in S : ~ (<<y, x>> \in R)
  BY <1>1, WFMin
<1>4. \A y \in S : ~ (y < x)
  BY <1>2, <1>3
<1>5. x \in Nat /\ \A y \in S : y \in Nat
  OBVIOUS
<1>6. QED BY <1>4, <1>5

(* Induction, on the members of a set.                                     *)
LEMMA Induct ==
  ASSUME NEW n \in Nat, NEW Good, 0 \in Good, \A i \in 1 .. n : i - 1 \in Good => i \in Good
  PROVE  \A i \in 0 .. n : i \in Good
<1> DEFINE Bad == (0 .. n) \ Good
<1> SUFFICES ASSUME Bad # {} PROVE FALSE
  OBVIOUS
<1>1. Bad \subseteq Nat
  OBVIOUS
<1>2. PICK m \in Bad : \A k \in Bad : m <= k
  <2> HIDE DEF Bad
  <2> QED BY <1>1, Least
<1>3. m \in 1 .. n
  BY <1>2
<1>4. m - 1 \in 0 .. n /\ m - 1 \notin Bad
  BY <1>2, <1>3
<1> QED BY <1>2, <1>3, <1>4

-----------------------------------------------------------------------------
(* Sums.  The partial sums that SumOf and DecimalSum speak of exist.       *)
LEMMA SumUnfolds ==
  ASSUME NEW s \in Seq(Int)
  PROVE  \E h : /\ SumOf(s) = h[Len(s)] /\ h[0] = 0
                /\ \A i \in 1 .. Len(s) : h[i] = h[i - 1] + s[i]
<1> DEFINE Upto(m, h) == [i \in 0 .. m |-> IF i = 0 THEN 0 ELSE h[i - 1] + s[i]]
           Bad == {m \in Nat : ~ \E h : h = Upto(m, h)}
           total == CHOOSE h : h = Upto(Len(s), h)
<1>1. ASSUME Bad # {} PROVE FALSE
  <2>1. Bad \subseteq Nat
    OBVIOUS
  <2> HIDE DEF Bad
  <2>2. PICK m \in Bad : \A k \in Bad : m <= k
    BY <1>1, <2>1, Least
  <2>3. m \in Nat /\ ~ \E h : h = Upto(m, h)
    BY DEF Bad
  <2>4. CASE m = 0
    <3> DEFINE h == [i \in 0 .. 0 |-> 0]
    <3>1. h = Upto(m, h)
      BY <2>4
    <3> QED BY <2>3, <3>1
  <2>5. CASE m # 0
    <3>1. m - 1 \in Nat /\ m - 1 \notin Bad
      BY <2>2, <2>3, <2>5
    <3>2. PICK g : g = Upto(m - 1, g)
      BY <3>1 DEF Bad
    <3> DEFINE h == [i \in 0 .. m |-> IF i = m THEN g[m - 1] + s[m] ELSE g[i]]
    <3>3. \A i \in 0 .. m : i # m => i \in 0 .. m - 1 /\ g[i] = IF i = 0 THEN 0 ELSE g[i - 1] + s[i]
      BY <2>3, <3>2
    <3>4. \A i \in 0 .. m : h[i] = IF i = 0 THEN 0 ELSE h[i - 1] + s[i]
      BY <2>3, <2>5, <3>3
    <3>5. h = Upto(m, h)
      BY <3>4
    <3> QED BY <2>3, <3>5
  <2> QED BY <2>4, <2>5
<1>2. Len(s) \in Nat
  OBVIOUS
<1>3. \E h : h = Upto(Len(s), h)
  BY <1>1, <1>2
<1>4. total = Upto(Len(s), total)
  BY <1>3, Zenon
<1>5. SumOf(s) = total[Len(s)]
  BY Zenon DEF SumOf
<1> HIDE DEF total
<1>6. /\ total[0] = 0
      /\ \A i \in 1 .. Len(s) : total[i] = total[i - 1] + s[i]
  BY <1>2, <1>4
<1> QED BY <1>5, <1>6

LEMMA DecimalSumUnfolds ==
  ASSUME NEW s \in Seq(Int)
  PROVE  \E h : /\ DecimalSum(s) = h[Len(s)] /\ h[0] = 0
                /\ \A i \in 1 .. Len(s) : h[i] = Rounded(h[i - 1] + s[i], 1)
<1> DEFINE Upto(m, h) == [i \in 0 .. m |-> IF i = 0 THEN 0 ELSE Rounded(h[i - 1] + s[i], 1)]
           Bad == {m \in Nat : ~ \E h : h = Upto(m, h)}
           total == CHOOSE h : h = Upto(Len(s), h)
<1>1. ASSUME Bad # {} PROVE FALSE
  <2>1. Bad \subseteq Nat
    OBVIOUS
  <2> HIDE DEF Bad
  <2>2. PICK m \in Bad : \A k \in Bad : m <= k
    BY <1>1, <2>1, Least
  <2>3. m \in Nat /\ ~ \E h : h = Upto(m, h)
    BY DEF Bad
  <2>4. CASE m = 0
    <3> DEFINE h == [i \in 0 .. 0 |-> 0]
    <3>1. h = Upto(m, h)
      BY <2>4
    <3> QED BY <2>3, <3>1
  <2>5. CASE m # 0
    <3>1. m - 1 \in Nat /\ m - 1 \notin Bad
      BY <2>2, <2>3, <2>5
    <3>2. PICK g : g = Upto(m - 1, g)
      BY <3>1 DEF Bad
    <3> DEFINE h == [i \in 0 .. m |-> IF i = m THEN Rounded(g[m - 1] + s[m], 1) ELSE g[i]]
    <3>3. \A i \in 0 .. m :
            i # m => i \in 0 .. m - 1 /\ g[i] = IF i = 0 THEN 0 ELSE Rounded(g[i - 1] + s[i], 1)
      BY <2>3, <3>2
    <3>4. \A i \in 0 .. m : h[i] = IF i = 0 THEN 0 ELSE Rounded(h[i - 1] + s[i], 1)
      BY <2>3, <2>5, <3>3
    <3>5. h = Upto(m, h)
      BY <3>4
    <3> QED BY <2>3, <3>5
  <2> QED BY <2>4, <2>5
<1>2. Len(s) \in Nat
  OBVIOUS
<1>3. \E h : h = Upto(Len(s), h)
  BY <1>1, <1>2
<1>4. total = Upto(Len(s), total)
  BY <1>3, Zenon
<1>5. DecimalSum(s) = total[Len(s)]
  BY Zenon DEF DecimalSum
<1> HIDE DEF total
<1>6. /\ total[0] = 0
      /\ \A i \in 1 .. Len(s) : total[i] = Rounded(total[i - 1] + s[i], 1)
  BY <1>2, <1>4
<1> QED BY <1>5, <1>6

(* A bound on every term bounds the sum.                                   *)
LEMMA SumBound ==
  ASSUME NEW r \in Seq(Int), NEW t \in Seq(Int), Len(t) = Len(r),
         NEW A \in Int, NEW C \in Int, NEW K \in Int,
         \A i \in 1 .. Len(r) : A * r[i] + C <= K * t[i]
  PROVE  /\ SumOf(r) \in Int /\ SumOf(t) \in Int
         /\ A * SumOf(r) + C * Len(r) <= K * SumOf(t)
<1>1. PICK g : /\ SumOf(r) = g[Len(r)] /\ g[0] = 0
               /\ \A i \in 1 .. Len(r) : g[i] = g[i - 1] + r[i]
  BY SumUnfolds
<1>2. PICK h : /\ SumOf(t) = h[Len(t)] /\ h[0] = 0
               /\ \A i \in 1 .. Len(t) : h[i] = h[i - 1] + t[i]
  BY SumUnfolds
<1>3. Len(r) \in Nat /\ \A i \in 1 .. Len(r) : r[i] \in Int /\ t[i] \in Int
  OBVIOUS
<1> DEFINE Good == {i \in 0 .. Len(r) : /\ g[i] \in Int /\ h[i] \in Int
                                        /\ A * g[i] + C * i <= K * h[i]}
<1>4. 0 \in Good
  BY <1>1, <1>2, <1>3
<1>5. ASSUME NEW i \in 1 .. Len(r), i - 1 \in Good
      PROVE  i \in Good
  <2>1. /\ g[i - 1] \in Int /\ h[i - 1] \in Int /\ i - 1 \in Int
        /\ A * g[i - 1] + C * (i - 1) <= K * h[i - 1]
    BY <1>5
  <2>2. g[i] = g[i - 1] + r[i] /\ h[i] = h[i - 1] + t[i]
    BY <1>1, <1>2, <1>3
  <2>3. \A a, b, c, d, n \in Int :
          A * a + C <= K * b /\ A * c + C * n <= K * d => A * (c + a) + C * (n + 1) <= K * (d + b)
    OBVIOUS
  <2>4. A * (g[i - 1] + r[i]) + C * ((i - 1) + 1) <= K * (h[i - 1] + t[i])
    BY <1>3, <2>1, <2>3
  <2>5. (i - 1) + 1 = i /\ i \in 0 .. Len(r)
    BY <1>3
  <2>6. A * g[i] + C * i <= K * h[i]
    BY <2>2, <2>4, <2>5
  <2>7. g[i] \in Int /\ h[i] \in Int
    <3>1. r[i] \in Int /\ t[i] \in Int
      BY <1>3
    <3>2. \A a, b \in Int : a + b \in Int
      OBVIOUS
    <3> QED BY <2>1, <2>2, <3>1, <3>2, Zenon
  <2> QED BY <2>5, <2>6, <2>7
<1> DEFINE n == Len(r)
<1>6. n \in Nat /\ \A i \in 1 .. n : i - 1 \in Good => i \in Good
  BY <1>3, <1>5
<1> HIDE DEF Good, n
<1>7. \A i \in 0 .. n : i \in Good
  BY <1>4, <1>6, Induct
<1>8. n \in Good
  BY <1>6, <1>7
<1> QED BY <1>1, <1>2, <1>8 DEF Good, n

-----------------------------------------------------------------------------
(* Rounding.                                                               *)

(* An integer quotient is rounded by half of one at most, and so to no     *)
(* more, and no less, than any integer it does not exceed, or is above.    *)
LEMMA HalfEven ==
  ASSUME NEW n \in Nat, NEW d \in Nat \ {0}
  PROVE  /\ RoundHalfEven(n, d) \in Nat
         /\ d * (2 * RoundHalfEven(n, d) - 1) <= 2 * n
         /\ 2 * n <= d * (2 * RoundHalfEven(n, d) + 1)
<1> DEFINE down == n \div d
           rest == n % d
<1>1. down \in Nat /\ rest \in Int /\ n = d * down + rest /\ 0 <= rest /\ rest < d
  OBVIOUS
<1>2. RoundHalfEven(n, d)
        = IF 2 * rest > d \/ (2 * rest = d /\ down % 2 = 1) THEN down + 1 ELSE down
  BY DEF RoundHalfEven
<1> HIDE DEF down, rest
<1>3. \A k \in Int : d * k \in Int /\ d * (2 * k - 1) = 2 * (d * k) - d
                     /\ d * (2 * k + 1) = 2 * (d * k) + d /\ d * (k + 1) = d * k + d
  OBVIOUS
<1>4. CASE 2 * rest > d \/ (2 * rest = d /\ down % 2 = 1)
  <2>1. RoundHalfEven(n, d) = down + 1 /\ down + 1 \in Nat /\ 2 * rest >= d
    BY <1>1, <1>2, <1>4
  <2>2. d * (down + 1) = d * down + d /\ d * down \in Int
    BY <1>1, <1>3
  <2>3. d * (2 * (down + 1) - 1) = 2 * (d * (down + 1)) - d
        /\ d * (2 * (down + 1) + 1) = 2 * (d * (down + 1)) + d
    BY <1>3, <2>1
  <2>4. QED BY <1>1, <2>1, <2>2, <2>3
<1>5. CASE ~ (2 * rest > d \/ (2 * rest = d /\ down % 2 = 1))
  <2>1. RoundHalfEven(n, d) = down /\ 2 * rest <= d
    BY <1>1, <1>2, <1>5
  <2>2. d * (2 * down - 1) = 2 * (d * down) - d /\ d * (2 * down + 1) = 2 * (d * down) + d
        /\ d * down \in Int
    BY <1>1, <1>3
  <2>3. QED BY <1>1, <2>1, <2>2
<1>6. QED BY <1>4, <1>5

LEMMA HalfEvenIsMonotone ==
  ASSUME NEW n \in Nat, NEW d \in Nat \ {0}, NEW m \in Nat
  PROVE  /\ n <= m * d => RoundHalfEven(n, d) <= m
         /\ m * d <= n => m <= RoundHalfEven(n, d)
<1> DEFINE R == RoundHalfEven(n, d)
<1>1. R \in Nat /\ d * (2 * R - 1) <= 2 * n /\ 2 * n <= d * (2 * R + 1)
  BY HalfEven
<1> HIDE DEF R
<1>2. \A a, b \in Int : d * a <= d * b => a <= b
  OBVIOUS
<1>3. 2 * (m * d) = d * (2 * m) /\ 2 * m \in Int /\ m * d \in Nat
  OBVIOUS
<1>4. ASSUME n <= m * d PROVE R <= m
  <2>1. d * (2 * R - 1) <= d * (2 * m)
    <3>1. d * (2 * R - 1) \in Int /\ d * (2 * m) \in Int
      BY <1>1
    <3> QED BY <1>1, <1>3, <1>4, <3>1
  <2>2. 2 * R - 1 <= 2 * m
    BY <1>1, <1>2, <1>3, <2>1
  <2> QED BY <1>1, <2>2
<1>5. ASSUME m * d <= n PROVE m <= R
  <2>1. d * (2 * m) <= d * (2 * R + 1)
    <3>1. d * (2 * R + 1) \in Int /\ d * (2 * m) \in Int
      BY <1>1
    <3> QED BY <1>1, <1>3, <1>5, <3>1
  <2>2. 2 * m <= 2 * R + 1
    BY <1>1, <1>2, <1>3, <2>1
  <2> QED BY <1>1, <2>2
<1> QED BY <1>4, <1>5 DEF R

Halves(n, d, v) == d * (2 * v - Ulp) <= 2 * n /\ 2 * n <= d * (2 * v + Ulp)

LEMMA OneIs ==
  /\ Ulp \in Nat \ {0} /\ Scale \in Nat \ {0} /\ One \in Nat \ {0} /\ One = Scale * Ulp
  /\ \E tenth \in Nat : Scale = 10 * tenth
<1>1. Ulp \in Nat \ {0} /\ Scale \in Nat \ {0} /\ Scale % 10 = 0
  BY AnalysisAssumption
<1>2. Scale = 10 * (Scale \div 10) /\ Scale \div 10 \in Nat
  BY <1>1
<1>3. \A a, b \in Nat \ {0} : a * b \in Nat \ {0}
  OBVIOUS
<1> QED BY <1>1, <1>2, <1>3 DEF One

(* The last digit of a result of 1 at most is a small one.                 *)
LEMMA LastDigits ==
  ASSUME NEW n \in Nat, NEW d \in Nat \ {0}, n <= d * (3 * One)
  PROVE  LET u == LastDigit(n, d)
         IN  /\ u \in Nat \ {0} /\ n <= d * Scale * u /\ (u <= Ulp \/ u = 10 * Ulp)
             /\ n <= d * One => u <= Ulp
             /\ d * One <= n => Ulp <= u
<1> DEFINE able == {u \in Ulps : n <= d * Scale * u}
           u == LastDigit(n, d)
<1>1. /\ Ulp \in Ulps /\ 10 * Ulp \in Ulps /\ Ulp \in Nat \ {0}
      /\ \A v \in Ulps : v \in 1 .. Ulp \/ v = 10 * Ulp
  BY AnalysisAssumption
<1>2. /\ d * Scale \in Nat \ {0} /\ d * One = (d * Scale) * Ulp
      /\ d * (3 * One) <= (d * Scale) * (10 * Ulp)
  <2>1. \A a, b, c \in Nat \ {0} :
          /\ a * b \in Nat \ {0} /\ a * (b * c) = (a * b) * c
          /\ a * (3 * (b * c)) = 3 * ((a * b) * c) /\ (a * b) * (10 * c) = 10 * ((a * b) * c)
    OBVIOUS
  <2>2. /\ d * Scale \in Nat \ {0} /\ (d * Scale) * Ulp \in Nat
        /\ d * One = (d * Scale) * Ulp
        /\ d * (3 * One) = 3 * ((d * Scale) * Ulp)
        /\ (d * Scale) * (10 * Ulp) = 10 * ((d * Scale) * Ulp)
    BY <2>1, OneIs
  <2> QED BY <2>2
<1> DEFINE D == d * Scale
<1>3. able = {v \in Ulps : n <= D * v} /\ D \in Nat \ {0}
  BY <1>2
<1> HIDE DEF able, D
<1>4. able \subseteq Nat /\ 10 * Ulp \in able
  <2>1. n <= D * (10 * Ulp)
    <3>1. d * (3 * One) \in Nat /\ D * (10 * Ulp) \in Nat
      BY <1>1, <1>3, OneIs
    <3> QED BY <1>2, <3>1 DEF D
  <2>2. \A v \in Ulps : v \in Nat
    BY <1>1
  <2> QED BY <1>1, <1>3, <2>1, <2>2
<1>5. \E m \in able : \A v \in able : m <= v
  BY <1>4, Least
<1>6. u \in able /\ \A v \in able : u <= v
  <2>1. u = CHOOSE m \in able : \A v \in able : m <= v
    BY Zenon DEF LastDigit, Min, able
  <2> HIDE DEF u
  <2> QED BY <1>5, <2>1, Zenon
<1> HIDE DEF u
<1>7. u \in Ulps /\ n <= D * u /\ u \in Nat \ {0} /\ (u <= Ulp \/ u = 10 * Ulp)
  BY <1>1, <1>3, <1>6
<1>8. ASSUME n <= d * One PROVE u <= Ulp
  BY <1>1, <1>2, <1>3, <1>6, <1>8 DEF D
<1>9. ASSUME d * One <= n PROVE Ulp <= u
  <2>1. D * Ulp <= D * u
    <3>1. D * Ulp \in Nat /\ D * u \in Nat
      BY <1>1, <1>3, <1>7
    <3> QED BY <1>2, <1>7, <1>9, <3>1 DEF D
  <2>2. \A a, b \in Nat : D * a <= D * b => a <= b
    BY <1>3
  <2> QED BY <1>1, <1>7, <2>1, <2>2
<1> QED BY <1>7, <1>8, <1>9 DEF D, u

(* What Decimal makes of a number is off by half a last digit, and keeps   *)
(* to the side of 1 that the number is on.                                 *)
LEMMA Rounding ==
  ASSUME NEW n \in Nat, NEW d \in Nat \ {0}, n <= d * (3 * One)
  PROVE  /\ Rounded(n, d) \in Nat
         /\ n <= d * One => Rounded(n, d) <= One /\ Halves(n, d, Rounded(n, d))
         /\ d * One <= n => One <= Rounded(n, d)
         /\ \A k \in 1 .. 3 : n <= d * (k * One) => Rounded(n, d) <= k * One
<1> DEFINE u == LastDigit(n, d)
           D == d * u
           R == RoundHalfEven(n, D)
<1>1. /\ u \in Nat \ {0} /\ n <= d * Scale * u /\ (u <= Ulp \/ u = 10 * Ulp)
      /\ n <= d * One => u <= Ulp
      /\ d * One <= n => Ulp <= u
  BY LastDigits
<1>2. Rounded(n, d) = u * R
  BY DEF Rounded
<1> HIDE DEF u
<1>3. D \in Nat \ {0}
  <2>1. \A a, b \in Nat \ {0} : a * b \in Nat \ {0}
    OBVIOUS
  <2> QED BY <1>1, <2>1
<1>4. R \in Nat /\ D * (2 * R - 1) <= 2 * n /\ 2 * n <= D * (2 * R + 1)
  BY <1>3, HalfEven
<1>5. \A m \in Nat : (n <= m * D => R <= m) /\ (m * D <= n => m <= R)
  BY <1>3, HalfEvenIsMonotone
<1> HIDE DEF R
<1>6. u * R \in Nat
  BY <1>1, <1>4
<1>7. ASSUME n <= d * One PROVE u * R <= One /\ Halves(n, d, u * R)
  <2>1. u <= Ulp /\ Ulp - u \in Nat
    BY <1>1, <1>7, OneIs
  <2>2. R <= Scale
    <3>1. d * Scale * u = Scale * D
      BY <1>1, OneIs
    <3> QED BY <1>1, <1>5, <3>1, OneIs
  <2>3. u * R <= Scale * Ulp
    <3>1. u * R <= u * Scale /\ u * Scale <= Ulp * Scale
      <4>1. \A a, b, c \in Nat : a <= b => c * a <= c * b /\ a * c <= b * c
        OBVIOUS
      <4> QED BY <1>1, <1>4, <2>1, <2>2, <4>1, OneIs
    <3> QED BY <1>1, <1>6, <3>1, OneIs
  <2>4. D * (2 * R - 1) = d * (2 * (u * R)) - d * u /\ D * (2 * R + 1) = d * (2 * (u * R)) + d * u
    <3>1. \A a, b, c \in Int : /\ (a * b) * (2 * c - 1) = a * (2 * (b * c)) - a * b
                               /\ (a * b) * (2 * c + 1) = a * (2 * (b * c)) + a * b
      OBVIOUS
    <3> QED BY <1>1, <1>4, <3>1
  <2>5. d * u <= d * Ulp
    BY <1>1, <2>1, OneIs
  <2>6. \A x \in Nat : /\ d * (2 * x - Ulp) = d * (2 * x) - d * Ulp
                       /\ d * (2 * x + Ulp) = d * (2 * x) + d * Ulp
    BY OneIs
  <2>7. d * (2 * (u * R)) \in Int /\ d * u \in Int /\ d * Ulp \in Int
    BY <1>1, <1>6, OneIs
  <2>8. /\ d * (2 * (u * R) - Ulp) = d * (2 * (u * R)) - d * Ulp
        /\ d * (2 * (u * R) + Ulp) = d * (2 * (u * R)) + d * Ulp
    BY <1>6, <2>6
  <2>9. Halves(n, d, u * R)
    BY <1>4, <2>4, <2>5, <2>7, <2>8 DEF Halves
  <2> QED BY <2>3, <2>9, OneIs
<1>8. PICK tenth \in Nat : Scale = 10 * tenth
  BY OneIs
<1>9. ASSUME u = 10 * Ulp, NEW k \in Nat
      PROVE  d * (k * One) = (k * tenth) * D /\ u * (k * tenth) = k * One
  <2>1. \A a, b, c, e \in Nat : /\ a * (b * ((10 * c) * e)) = (b * c) * (a * (10 * e))
                                /\ (10 * e) * (b * c) = b * ((10 * c) * e)
    OBVIOUS
  <2> QED BY <1>8, <1>9, <2>1, OneIs
<1>10. ASSUME d * One <= n PROVE One <= u * R
  <2>1. CASE u = 10 * Ulp
    <3>1. d * (1 * One) = (1 * tenth) * D /\ u * (1 * tenth) = 1 * One
      BY <1>9, <2>1
    <3>2. tenth * D <= n /\ u * tenth = One
      BY <1>10, <3>1, OneIs
    <3>3. tenth <= R
      BY <1>5, <3>2
    <3>4. u * tenth <= u * R
      BY <1>1, <1>4, <3>3
    <3> QED BY <3>2, <3>4
  <2>2. CASE u <= Ulp
    <3>1. u = Ulp
      BY <1>1, <1>10, <2>2, OneIs
    <3>2. Scale * D = d * One
      BY <3>1, OneIs
    <3>3. Scale <= R
      BY <1>5, <1>10, <3>2, OneIs
    <3>4. u * Scale <= u * R
      BY <1>1, <1>4, <3>3, OneIs
    <3> QED BY <3>1, <3>4, OneIs
  <2> QED BY <1>1, <2>1, <2>2
<1>11. ASSUME NEW k \in 1 .. 3, n <= d * (k * One)
       PROVE  u * R <= k * One
  <2>1. CASE u = 10 * Ulp
    <3>0. k \in Nat
      OBVIOUS
    <3>1. d * (k * One) = (k * tenth) * D /\ u * (k * tenth) = k * One
      BY <1>9, <2>1, <3>0
    <3>4. k * tenth \in Nat
      OBVIOUS
    <3>2. R <= k * tenth
      BY <1>5, <1>11, <3>1, <3>4
    <3>3. u * R <= u * (k * tenth)
      BY <1>1, <1>4, <3>2, <3>4
    <3> QED BY <3>1, <3>3
  <2>2. CASE u <= Ulp
    <3>1. n <= d * One
      <4>1. d * Scale * u <= d * Scale * Ulp /\ d * Scale * Ulp = d * One
        <5>1. \A c \in Nat : c * u <= c * Ulp
          BY <1>1, <2>2, OneIs
        <5>2. d * Scale \in Nat /\ d * Scale * Ulp = d * (Scale * Ulp)
          BY OneIs
        <5> QED BY <5>1, <5>2, OneIs
      <4>2. d * Scale * u \in Nat /\ d * One \in Nat
        BY <1>1, OneIs
      <4> QED BY <1>1, <4>1, <4>2
    <3>2. u * R <= One /\ One <= k * One
      BY <1>7, <3>1, OneIs
    <3> QED BY <1>6, <3>2, OneIs
  <2> QED BY <1>1, <2>1, <2>2
<1> HIDE DEF D
<1> QED BY <1>2, <1>6, <1>7, <1>10, <1>11

-----------------------------------------------------------------------------
(* The margin.                                                             *)

(* A price is less than Unit from below, and its share is one at most.     *)
LEMMA ShareFacts ==
  ASSUME NEW p \in Odds
  PROVE  /\ p \in Nat \ {0} /\ Unit \in Nat \ {0} /\ Unit <= p /\ Unit * One \in Nat
         /\ Share(p) \in Nat /\ Share(p) <= One /\ Halves(Unit * One, p, Share(p))
<1>1. p \in Nat \ {0} /\ Unit \in Nat \ {0} /\ Unit <= p
  BY AnalysisAssumption
<1>2. Unit * One \in Nat /\ Unit * One <= p * One /\ p * One <= p * (3 * One)
  <2>1. \A a, b, c \in Nat : a <= b => a * c \in Nat /\ a * c <= b * c /\ b * c <= b * (3 * c)
    OBVIOUS
  <2> QED BY <1>1, <2>1, OneIs
<1>3. Unit * One <= p * (3 * One)
  BY <1>1, <1>2, OneIs
<1> QED BY <1>1, <1>2, <1>3, Rounding DEF Share

(* One addition of Decimals.                                               *)
LEMMA Addition ==
  ASSUME NEW x \in Nat, x <= 3 * One
  PROVE  /\ Rounded(x, 1) \in Nat
         /\ x <= One => 2 * Rounded(x, 1) <= 2 * x + Ulp /\ 2 * x <= 2 * Rounded(x, 1) + Ulp
         /\ Rounded(x, 1) < One => x < One
         /\ \A k \in 1 .. 3 : x <= k * One => Rounded(x, 1) <= k * One
<1> DEFINE R == Rounded(x, 1)
<1>1. \A y \in Nat : 1 * y = y
  OBVIOUS
<1>2. \A k \in 1 .. 3 : k * One \in Nat
  BY OneIs
<1>3. /\ R \in Nat
      /\ x <= 1 * One => Halves(x, 1, R)
      /\ 1 * One <= x => One <= R
      /\ \A k \in 1 .. 3 : x <= 1 * (k * One) => R <= k * One
  <2>1. x <= 1 * (3 * One)
    BY OneIs
  <2> QED BY <2>1, Rounding
<1>4. Halves(x, 1, R) => 2 * R <= 2 * x + Ulp /\ 2 * x <= 2 * R + Ulp
  <2> HIDE DEF R
  <2> QED BY <1>3, OneIs DEF Halves
<1> HIDE DEF R
<1>5. \A k \in 1 .. 3 : x <= k * One => R <= k * One
  BY <1>1, <1>2, <1>3
<1> QED BY <1>3, <1>4, <1>5, OneIs DEF R

(* The sum of Decimals is off by half a last digit for every addition, on  *)
(* either side of 1.                                                       *)
LEMMA MarginIsNear ==
  ASSUME NEW r \in Seq(Nat), Len(r) \in {2, 3}, \A i \in 1 .. Len(r) : r[i] <= One
  PROVE  /\ SumOf(r) \in Nat
         /\ 2 * SumOf(r) + Len(r) * Ulp < 2 * One => DecimalSum(r) < One
         /\ DecimalSum(r) < One => 2 * SumOf(r) < 2 * One + Len(r) * Ulp
<1> DEFINE n == Len(r)
<1>0. n \in {2, 3} /\ r \in Seq(Int) /\ \A i \in 1 .. n : r[i] \in Nat /\ r[i] <= One
  OBVIOUS
<1>1. PICK g : SumOf(r) = g[n] /\ g[0] = 0 /\ \A i \in 1 .. n : g[i] = g[i - 1] + r[i]
  BY <1>0, SumUnfolds
<1>2. PICK h : /\ DecimalSum(r) = h[n] /\ h[0] = 0
               /\ \A i \in 1 .. n : h[i] = Rounded(h[i - 1] + r[i], 1)
  BY <1>0, DecimalSumUnfolds
<1> HIDE DEF n
<1> DEFINE Good == {i \in 0 .. n : /\ g[i] \in Nat /\ h[i] \in Nat /\ h[i] <= i * One
                                   /\ 2 * g[i] + i * Ulp < 2 * One => 2 * h[i] <= 2 * g[i] + i * Ulp
                                   /\ h[i] < One => 2 * g[i] <= 2 * h[i] + i * Ulp}
<1>3. 0 \in Good
  <2>1. 0 * One = 0 /\ 0 * Ulp = 0 /\ 0 \in 0 .. n
    BY <1>0, OneIs
  <2>2. g[0] = 0 /\ h[0] = 0
    BY <1>1, <1>2
  <2>3. /\ g[0] \in Nat /\ h[0] \in Nat /\ h[0] <= 0 * One
        /\ 2 * g[0] + 0 * Ulp < 2 * One => 2 * h[0] <= 2 * g[0] + 0 * Ulp
        /\ h[0] < One => 2 * g[0] <= 2 * h[0] + 0 * Ulp
    BY <2>1, <2>2
  <2> QED BY <2>1, <2>3
<1>4. ASSUME NEW i \in 1 .. n, i - 1 \in Good
      PROVE  i \in Good
  <2>1. /\ g[i - 1] \in Nat /\ h[i - 1] \in Nat /\ h[i - 1] <= (i - 1) * One
        /\ 2 * g[i - 1] + (i - 1) * Ulp < 2 * One => 2 * h[i - 1] <= 2 * g[i - 1] + (i - 1) * Ulp
        /\ h[i - 1] < One => 2 * g[i - 1] <= 2 * h[i - 1] + (i - 1) * Ulp
    BY <1>4
  <2>2. /\ i \in 1 .. 3 /\ r[i] \in Nat /\ r[i] <= One
        /\ g[i] = g[i - 1] + r[i] /\ h[i] = Rounded(h[i - 1] + r[i], 1)
    BY <1>0, <1>1, <1>2
  <2>3. /\ (i - 1) * One + One = i * One /\ i * One <= 3 * One
        /\ (i - 1) * Ulp + Ulp = i * Ulp
        /\ i * One \in Nat /\ i * Ulp \in Nat /\ (i - 1) * One \in Nat /\ (i - 1) * Ulp \in Nat
    BY <2>2, OneIs
  <2> DEFINE G == g[i - 1]
             H == h[i - 1]
             x == H + r[i]
             R == Rounded(x, 1)
             a == (i - 1) * Ulp
             b == i * Ulp
  <2>4. x \in Nat /\ x <= i * One /\ x <= 3 * One
    <3> DEFINE c == (i - 1) * One
               e == i * One
               f == 3 * One
    <3>1. /\ H \in Nat /\ H <= c /\ r[i] \in Nat /\ r[i] <= One /\ One \in Nat
          /\ c + One = e /\ e <= f /\ c \in Nat /\ e \in Nat /\ f \in Nat
      BY <2>1, <2>2, <2>3, OneIs
    <3> HIDE DEF H, c, e, f
    <3> QED BY <3>1 DEF e, f
  <2> HIDE DEF x
  <2>5. /\ R \in Nat /\ R <= i * One
        /\ x <= One => 2 * R <= 2 * x + Ulp /\ 2 * x <= 2 * R + Ulp
        /\ R < One => x < One
    BY <2>2, <2>4, Addition
  <2>6. h[i] = R /\ g[i] = G + r[i]
    BY <2>2 DEF x
  <2>7. G \in Nat /\ H \in Nat /\ a \in Nat /\ b \in Nat /\ a + Ulp = b /\ x = H + r[i]
        /\ (2 * G + a < 2 * One => 2 * H <= 2 * G + a)
        /\ (H < One => 2 * G <= 2 * H + a)
    BY <2>1, <2>3 DEF x
  <2> DEFINE z == r[i]
             U == Ulp
             W == One
  <2>8. /\ G \in Nat /\ H \in Nat /\ R \in Nat /\ a \in Nat /\ b \in Nat /\ x \in Nat
        /\ z \in Nat /\ z <= W /\ U \in Nat /\ W \in Nat /\ a + U = b /\ x = H + z
        /\ (2 * G + a < 2 * W => 2 * H <= 2 * G + a)
        /\ (H < W => 2 * G <= 2 * H + a)
        /\ (x <= W => 2 * R <= 2 * x + U /\ 2 * x <= 2 * R + U)
        /\ (R < W => x < W)
    BY <2>2, <2>4, <2>5, <2>7, OneIs
  <2>9. g[i] = G + z /\ h[i] = R
    BY <2>6
  <2> HIDE DEF G, H, R, a, b, z, U, W
  <2>10. /\ 2 * (G + z) + b < 2 * W => 2 * R <= 2 * (G + z) + b
         /\ R < W => 2 * (G + z) <= 2 * R + b
         /\ G + z \in Nat
    BY <2>8
  <2>11. /\ 2 * g[i] + b < 2 * One => 2 * h[i] <= 2 * g[i] + b
         /\ h[i] < One => 2 * g[i] <= 2 * h[i] + b
         /\ g[i] \in Nat /\ h[i] \in Nat
    BY <2>8, <2>9, <2>10 DEF W
  <2>12. h[i] <= i * One /\ i \in 0 .. n
    BY <1>0, <2>5, <2>9 DEF R
  <2> QED BY <2>11, <2>12 DEF b
<1>5. n \in Nat
  BY <1>0
<1> HIDE DEF Good
<1>6. n \in Good
  <2>1. \A i \in 0 .. n : i \in Good
    BY <1>3, <1>4, <1>5, Induct
  <2> QED BY <1>5, <2>1
<1>7. /\ g[n] \in Nat /\ h[n] \in Nat
      /\ 2 * g[n] + n * Ulp < 2 * One => 2 * h[n] <= 2 * g[n] + n * Ulp
      /\ h[n] < One => 2 * g[n] <= 2 * h[n] + n * Ulp
  BY <1>6 DEF Good
<1>8. n * Ulp \in Nat
  BY <1>5, OneIs
<1>9. /\ g[n] \in Nat
      /\ 2 * g[n] + n * Ulp < 2 * One => h[n] < One
      /\ h[n] < One => 2 * g[n] < 2 * One + n * Ulp
  <2> DEFINE b == n * Ulp
  <2> HIDE DEF b
  <2> QED BY <1>7, <1>8, OneIs DEF b
<1> QED BY <1>1, <1>2, <1>9 DEF n

(* One bet of those that pay: the share of its price is small against it.  *)
LEMMA PayingBet ==
  ASSUME NEW T \in Nat, NEW t \in Nat \ {0}, NEW p \in Nat \ {0}, NEW b \in Nat, p <= b,
         NEW n \in Nat, n * (Unit * T + 1) < Scale, t * p > Unit * T,
         NEW r \in Nat, b * (2 * r - Ulp) <= 2 * (Unit * One)
  PROVE  T * (2 * r - Ulp) + 1 <= (2 * Ulp * (Scale - n)) * t
<1> DEFINE k == 2 * r - Ulp
           m == Scale - n
<1>1. /\ Unit \in Nat \ {0} /\ Unit * T \in Nat /\ k \in Int
      /\ Ulp \in Nat \ {0} /\ Scale \in Nat \ {0} /\ One = Scale * Ulp
  BY AnalysisAssumption, OneIs
<1>2. m \in Nat \ {0}
  <2>1. n <= n * (Unit * T + 1)
    <3>1. \A a, c \in Nat : a <= a * (c + 1)
      OBVIOUS
    <3> QED BY <1>1, <3>1
  <2>2. n * (Unit * T + 1) \in Nat
    BY <1>1
  <2> QED BY <1>1, <2>1, <2>2
<1>3. Scale * (Unit * T) < (t * p) * m
  <2> DEFINE c == Unit * T
             e == t * p
  <2>1. c \in Nat /\ e \in Nat /\ c + 1 <= e /\ n * (c + 1) < Scale /\ m = Scale - n
    BY <1>1
  <2> HIDE DEF c, e, m
  <2>2. (c + 1) * m <= e * m
    BY <1>2, <2>1
  <2>3. (c + 1) * m = Scale * c + Scale - n * (c + 1)
    BY <1>1, <2>1
  <2>4. Scale * c \in Nat /\ n * (c + 1) \in Nat /\ e * m \in Nat
    BY <1>1, <1>2, <2>1
  <2> QED BY <1>1, <2>1, <2>2, <2>3, <2>4 DEF c, e
<1> HIDE DEF k, m
<1>4. (2 * Ulp * m) * t \in Nat \ {0}
  <2>1. \A a, c, e \in Nat \ {0} : (2 * a * c) * e \in Nat \ {0}
    OBVIOUS
  <2> QED BY <1>1, <1>2, <2>1
<1>5. CASE k <= 0
  <2>1. T * k <= 0 /\ T * k \in Int
    BY <1>1, <1>5
  <2> QED BY <1>4, <2>1 DEF k, m
<1>6. CASE k > 0
  <2> DEFINE c == Unit * T
             Q == Unit * Scale
  <2>1. k \in Nat \ {0} /\ Q \in Nat \ {0}
    <3>1. \A x, y \in Nat \ {0} : x * y \in Nat \ {0}
      OBVIOUS
    <3> QED BY <1>1, <1>6, <3>1
  <2>2. k * (Scale * c) < k * ((t * p) * m)
    <3>1. \A x, y \in Nat : x < y => k * x < k * y
      BY <2>1
    <3>2. Scale * c \in Nat /\ (t * p) * m \in Nat
      BY <1>1, <1>2
    <3> QED BY <1>3, <3>1, <3>2
  <2>3. p * k <= 2 * (Unit * One)
    <3>1. p * k <= b * k
      BY <2>1
    <3>2. p * k \in Nat /\ b * k \in Nat /\ 2 * (Unit * One) \in Nat
      BY <1>1, <2>1
    <3> QED BY <3>1, <3>2 DEF k
  <2>4. (t * m) * (p * k) <= (t * m) * (2 * (Unit * One))
    <3>1. \A x, y, z \in Nat : x <= y => z * x <= z * y
      OBVIOUS
    <3>2. p * k \in Nat /\ 2 * (Unit * One) \in Nat /\ t * m \in Nat
      BY <1>1, <1>2, <2>1
    <3> QED BY <2>3, <3>1, <3>2
  <2>5. /\ k * (Scale * c) = Q * (T * k)
        /\ k * ((t * p) * m) = (t * m) * (p * k)
        /\ (t * m) * (2 * (Unit * One)) = Q * ((2 * Ulp * m) * t)
    <3>1. \A x, y, z, v \in Nat : x * (y * (z * v)) = (z * y) * (v * x)
      OBVIOUS
    <3>2. \A x, y, z, v \in Nat : x * ((y * z) * v) = (y * v) * (z * x)
      OBVIOUS
    <3>3. \A x, y, z, v, e \in Nat : (x * y) * (2 * (z * (v * e))) = (z * v) * ((2 * e * y) * x)
      OBVIOUS
    <3> QED BY <1>1, <1>2, <2>1, <3>1, <3>2, <3>3
  <2>6. T * k \in Nat
    BY <2>1
  <2> HIDE DEF Q
  <2>7. Q * (T * k) < Q * ((2 * Ulp * m) * t)
    <3>1. /\ k * ((t * p) * m) \in Nat /\ Q * (T * k) \in Nat
          /\ Q * ((2 * Ulp * m) * t) \in Nat
      BY <1>1, <1>2, <1>4, <2>1, <2>6
    <3> QED BY <2>2, <2>4, <2>5, <3>1
  <2>8. \A x, y \in Nat : Q * x < Q * y => x < y
    BY <2>1
  <2>9. T * k < (2 * Ulp * m) * t
    BY <1>4, <2>6, <2>7, <2>8
  <2> QED BY <1>4, <2>6, <2>9 DEF k, m
<1> QED BY <1>1, <1>5, <1>6

LEMMA OrderIs ==
  /\ Len(Order) \in {2, 3} /\ DOMAIN Order = 1 .. Len(Order)
  /\ \A i \in DOMAIN Order : Order[i] \in Outcome
  /\ \A o \in Outcome : \E i \in DOMAIN Order : o = Order[i]
  /\ \A S : \A f \in [DOMAIN Order -> S] :
       f \in Seq(S) /\ Len(f) = Len(Order) /\ \A i \in 1 .. Len(Order) : f[i] \in S
<1>1. Order \in Seq(Outcome) /\ Len(Order) \in {2, 3}
  BY AnalysisAssumption DEF Outcome
<1>2. DOMAIN Order = 1 .. Len(Order) /\ Len(Order) \in Nat
  BY <1>1
<1>3. ASSUME NEW S, NEW f \in [DOMAIN Order -> S]
      PROVE  f \in Seq(S) /\ Len(f) = Len(Order) /\ \A i \in 1 .. Len(Order) : f[i] \in S
  BY <1>2
<1> QED BY <1>1, <1>2, <1>3 DEF Outcome, Range

(* Where bets pay, the shares of prices at least as good add up to so much *)
(* less than one that rounding them and their sum does not matter.         *)
LEMMA PayingBets ==
  ASSUME NEW best \in [DOMAIN Order -> Odds], NEW price \in [DOMAIN Order -> Odds],
         \A i \in DOMAIN Order : price[i] <= best[i],
         NEW stake \in Bets, Pays(stake, price)
  PROVE  DecimalSum([i \in DOMAIN Order |-> Share(best[i])]) < One
<1> DEFINE r == [i \in DOMAIN Order |-> Share(best[i])]
           n == Len(Order)
           T == SumOf(stake)
           K == 2 * Ulp * (Scale - n)
<1>1. stake \in [DOMAIN Order -> Nat \ {0}] /\ n * (Unit * T + 1) < Scale
  BY AnalysisAssumption, BetsAssumption
<1>2. r \in [DOMAIN Order -> Nat] /\ \A i \in DOMAIN Order : r[i] = Share(best[i])
  BY ShareFacts
<1> HIDE DEF r
<1>3. /\ n \in {2, 3} /\ n \in Nat /\ DOMAIN Order = 1 .. n
      /\ r \in Seq(Nat) /\ Len(r) = n /\ stake \in Seq(Nat) /\ Len(stake) = n
      /\ \A i \in 1 .. n : r[i] \in Nat /\ stake[i] \in Nat \ {0}
  <2>1. stake \in [DOMAIN Order -> Nat]
    BY <1>1
  <2> QED BY <1>1, <1>2, <2>1, OrderIs
<1>4. r \in Seq(Int) /\ stake \in Seq(Int)
  BY <1>3
<1>5. T \in Nat
  <2>1. \A i \in 1 .. Len(stake) : 0 * stake[i] + 0 <= 1 * stake[i]
    BY <1>3
  <2> DEFINE zero == 0
             one == 1
  <2>2. /\ zero \in Int /\ one \in Int
        /\ \A i \in 1 .. Len(stake) : zero * stake[i] + zero <= one * stake[i]
    BY <2>1
  <2> HIDE DEF zero, one
  <2>3. T \in Int /\ zero * T + zero * Len(stake) <= one * T
    BY <1>4, <2>2, SumBound
  <2> QED BY <1>3, <2>3 DEF zero, one
<1> HIDE DEF T, n
<1>6. ASSUME NEW i \in 1 .. n
      PROVE  T * (2 * r[i] - Ulp) + 1 <= K * stake[i]
  <2>1. /\ best[i] \in Odds /\ price[i] \in Odds /\ price[i] <= best[i] /\ r[i] = Share(best[i])
        /\ stake[i] * price[i] > Unit * T
    BY <1>2, <1>3 DEF Pays, T
  <2>2. /\ price[i] \in Nat \ {0} /\ best[i] \in Nat
        /\ best[i] * (2 * r[i] - Ulp) <= 2 * (Unit * One)
    BY <2>1, ShareFacts DEF Halves
  <2> QED BY <1>1, <1>3, <1>5, <2>1, <2>2, PayingBet
<1>7. /\ Ulp \in Nat \ {0} /\ Scale \in Nat /\ One = Scale * Ulp /\ K \in Int
  BY <1>3, OneIs
<1> DEFINE A == 2 * T
           C == 1 - T * Ulp
<1>8. A \in Int /\ C \in Int
  BY <1>5, <1>7
<1>9. \A i \in 1 .. Len(r) : A * r[i] + C <= K * stake[i]
  <2> SUFFICES ASSUME NEW i \in 1 .. n PROVE A * r[i] + C <= K * stake[i]
    BY <1>3
  <2>1. \A a, b, u \in Nat : (2 * a) * b + (1 - a * u) = a * (2 * b - u) + 1
    OBVIOUS
  <2>2. A * r[i] + C = T * (2 * r[i] - Ulp) + 1
    BY <1>3, <1>5, <1>7, <2>1
  <2>3. T * (2 * r[i] - Ulp) + 1 <= K * stake[i]
    BY <1>6
  <2> HIDE DEF A, C, K
  <2> QED BY <2>2, <2>3
<1> DEFINE s == SumOf(r)
<1>10. s \in Int /\ A * s + C * n <= K * T
  <2> HIDE DEF A, C, K
  <2>1. SumOf(r) \in Int /\ A * SumOf(r) + C * Len(r) <= K * SumOf(stake)
    BY <1>3, <1>4, <1>7, <1>8, <1>9, SumBound
  <2> QED BY <1>3, <2>1 DEF T
<1> HIDE DEF s
<1>11. 2 * s + n * Ulp < 2 * One
  <2> DEFINE y == 2 * s + n * Ulp - 2 * One
  <2>1. y \in Int
    BY <1>3, <1>7, <1>10
  <2>2. A * s + C * n - K * T = T * y + n
    <3>1. K = 2 * One - 2 * (n * Ulp)
      BY <1>3, <1>7
    <3>2. K * T = T * (2 * One) - T * (2 * (n * Ulp))
      BY <1>3, <1>5, <1>7, <3>1
    <3>3. A * s = T * (2 * s) /\ C * n = n - T * (n * Ulp)
      BY <1>3, <1>5, <1>7, <1>10
    <3>4. \A a, b, c \in Int : T * (a + b - c) = T * a + T * b - T * c
      BY <1>5
    <3>5. T * y = T * (2 * s) + T * (n * Ulp) - T * (2 * One)
      BY <1>3, <1>7, <1>10, <3>4
    <3>6. T * (2 * (n * Ulp)) = 2 * (T * (n * Ulp)) /\ T * (n * Ulp) \in Int
          /\ T * (2 * One) \in Int /\ T * (2 * s) \in Int
      BY <1>3, <1>5, <1>7, <1>10
    <3> QED BY <1>3, <3>2, <3>3, <3>5, <3>6
  <2>3. T * y + n <= 0
    <3> DEFINE x == A * s + C * n
               z == K * T
    <3>1. x \in Int /\ z \in Int /\ x <= z /\ x - z = T * y + n
      BY <1>3, <1>5, <1>7, <1>8, <1>10, <2>2
    <3> HIDE DEF x, z, y
    <3> QED BY <3>1
  <2>4. ASSUME y >= 0 PROVE FALSE
    <3> HIDE DEF y
    <3>1. T * y \in Int /\ T * y >= 0
      BY <1>5, <2>1, <2>4
    <3> QED BY <1>3, <2>3, <3>1
  <2> QED BY <1>3, <1>7, <1>10, <2>1, <2>4
<1>12. ASSUME NEW i \in 1 .. Len(r) PROVE r[i] <= One
  <2>1. r[i] = Share(best[i]) /\ best[i] \in Odds
    BY <1>2, <1>3
  <2>2. Share(best[i]) <= One
    BY <2>1, ShareFacts
  <2> QED BY <2>1, <2>2
<1> QED BY <1>3, <1>11, <1>12, MarginIsNear DEF r, s

(* And where the margin is below one, the shares pay for themselves, but   *)
(* for a few units of the last digit.                                      *)
LEMMA SharesPay ==
  ASSUME NEW best \in [DOMAIN Order -> Odds],
         DecimalSum([i \in DOMAIN Order |-> Share(best[i])]) < One,
         NEW i \in DOMAIN Order
  PROVE  2 * Unit * SumOf([j \in DOMAIN Order |-> Share(best[j])])
           < best[i] * (2 * Share(best[i]) + (Len(Order) + 1) * Ulp)
<1> DEFINE r == [j \in DOMAIN Order |-> Share(best[j])]
           n == Len(Order)
           T == SumOf(r)
           p == best[i]
           v == Share(p)
<1>1. r \in [DOMAIN Order -> Nat] /\ \A j \in DOMAIN Order : r[j] = Share(best[j])
  BY ShareFacts
<1> HIDE DEF r
<1>2. r \in Seq(Nat) /\ Len(r) = n /\ n \in {2, 3} /\ DOMAIN Order = 1 .. n
  BY <1>1, OrderIs
<1>2a. ASSUME NEW j \in 1 .. Len(r) PROVE r[j] <= One
  <2>1. r[j] = Share(best[j]) /\ best[j] \in Odds
    BY <1>1, <1>2
  <2>2. Share(best[j]) <= One
    BY <2>1, ShareFacts
  <2> QED BY <2>1, <2>2
<1>3. T \in Nat /\ 2 * T < 2 * One + n * Ulp
  BY <1>2, <1>2a, MarginIsNear DEF r
<1>4. /\ p \in Nat \ {0} /\ Unit \in Nat \ {0} /\ Unit <= p
      /\ v \in Nat /\ 2 * (Unit * One) <= p * (2 * v + Ulp)
  BY ShareFacts DEF Halves
<1>5. Ulp \in Nat \ {0} /\ One \in Nat /\ n \in Nat
  BY <1>2, OneIs
<1> HIDE DEF T, p, v, n
<1>6. Unit * (2 * T) < Unit * (2 * One + n * Ulp)
  <2>1. \A a, b \in Nat : a < b => Unit * a < Unit * b
    BY <1>4
  <2> QED BY <1>3, <1>5, <2>1
<1>7. Unit * (n * Ulp) <= p * (n * Ulp)
  <2>1. \A a \in Nat : Unit * a <= p * a
    BY <1>4
  <2> QED BY <1>5, <2>1
<1>8. /\ Unit * (2 * One + n * Ulp) = 2 * (Unit * One) + Unit * (n * Ulp)
      /\ 2 * Unit * T = Unit * (2 * T)
      /\ p * (2 * v + (n + 1) * Ulp) = p * (2 * v + Ulp) + p * (n * Ulp)
  BY <1>3, <1>4, <1>5
<1>9. /\ Unit * (2 * T) \in Int /\ Unit * One \in Int /\ Unit * (n * Ulp) \in Int
      /\ p * (n * Ulp) \in Int /\ p * (2 * v + Ulp) \in Int
  BY <1>3, <1>4, <1>5
<1> QED BY <1>4, <1>6, <1>7, <1>8, <1>9 DEF T, p, v, n, r

-----------------------------------------------------------------------------
(* The best price of an outcome is one of its prices, and no less than any.*)
LEMMA BestPrice ==
  ASSUME NEW q, NEW o, For(q, o) # {}, \A s \in For(q, o) : q[s].odds \in Odds
  PROVE  /\ Best(q, o) \in Odds
         /\ \A s \in For(q, o) : q[s].odds <= Best(q, o)
         /\ \E s \in For(q, o) : q[s].odds = Best(q, o)
<1> DEFINE prices == {q[s].odds : s \in For(q, o)}
           longest == 10 * Ulp * Unit
           gaps == {longest - p : p \in prices}
<1>1. /\ prices \subseteq Odds /\ prices # {} /\ longest \in Nat
      /\ \A p \in prices : p \in 0 .. longest
  <2>1. prices \subseteq Odds /\ prices # {}
    OBVIOUS
  <2> HIDE DEF prices
  <2>2. QED BY <2>1, AnalysisAssumption
<1>2. Best(q, o) = CHOOSE m \in prices : \A p \in prices : m >= p
  BY Zenon DEF Best, Max
<1>3. \A s \in For(q, o) : q[s].odds \in prices
  OBVIOUS
<1> HIDE DEF prices, longest
<1>4. gaps \subseteq Nat /\ gaps # {} /\ \A p \in prices : longest - p \in gaps
  BY <1>1
<1>5. PICK least \in gaps : \A g \in gaps : least <= g
  BY <1>4, Least
<1>6. PICK m \in prices : least = longest - m
  BY <1>5
<1>7. \A p \in prices : m >= p
  <2> SUFFICES ASSUME NEW p \in prices PROVE m >= p
    OBVIOUS
  <2>1. least <= longest - p
    BY <1>4, <1>5
  <2>2. m \in 0 .. longest /\ p \in 0 .. longest
    BY <1>1
  <2>3. QED BY <1>1, <1>6, <2>1, <2>2
<1>8. Best(q, o) \in prices /\ \A p \in prices : Best(q, o) >= p
  BY <1>2, <1>7, Zenon
<1>9. \E s \in For(q, o) : q[s].odds = Best(q, o)
  BY <1>8 DEF prices
<1>10. ASSUME NEW s \in For(q, o) PROVE q[s].odds <= Best(q, o)
  BY <1>1, <1>3, <1>8
<1>11. QED BY <1>1, <1>8, <1>9, <1>10

(* Every fresh quote has one of the prices, and when the fresh quotes were *)
(* seen together they are the ones a sweep looks at.                       *)
LEMMA CohortPrices ==
  ASSUME Inv
  PROVE  /\ \A s \in Fresh(quotes) : quotes[s].odds \in Odds
         /\ \A o : For(quotes, o) \subseteq Fresh(quotes)
         /\ Together(quotes, Fresh(quotes)) =>
              \A o : For(quotes, o) = {s \in Fresh(quotes) : s[2] = o}
<1>1. \A s \in Fresh(quotes) : quotes[s] \in Quote
  BY DEF Inv, Fresh, Stored
<1>2. \A s \in Fresh(quotes) : quotes[s].odds \in Odds
  BY <1>1 DEF Quote
<1>3. Cohort(quotes) \subseteq Fresh(quotes)
      /\ (Together(quotes, Fresh(quotes)) => Cohort(quotes) = Fresh(quotes))
  BY DEF Cohort
<1>4. QED BY <1>2, <1>3 DEF For

(* The best prices, when every outcome has one, are prices to bet at.      *)
LEMMA BestPrices ==
  ASSUME Inv, AllPriced(quotes)
  PROVE  /\ \A o \in Outcome : \A s \in For(quotes, o) : quotes[s].odds <= Best(quotes, o)
         /\ [i \in DOMAIN Order |-> Best(quotes, Order[i])] \in [DOMAIN Order -> Odds]
         /\ \E leg \in Offers(quotes) :
              PricesOf(quotes, leg) = [i \in DOMAIN Order |-> Best(quotes, Order[i])]
<1> DEFINE best == [i \in DOMAIN Order |-> Best(quotes, Order[i])]
<1>1. ASSUME NEW o \in Outcome
      PROVE  /\ Best(quotes, o) \in Odds
             /\ \A s \in For(quotes, o) : quotes[s].odds <= Best(quotes, o)
             /\ \E s \in For(quotes, o) : quotes[s].odds = Best(quotes, o)
  <2>1. For(quotes, o) # {} /\ For(quotes, o) \subseteq Fresh(quotes)
    BY CohortPrices DEF AllPriced
  <2>2. \A s \in For(quotes, o) : quotes[s].odds \in Odds
    BY <2>1, CohortPrices
  <2>3. QED BY <2>1, <2>2, BestPrice
<1> DEFINE at(o) == CHOOSE s \in For(quotes, o) : quotes[s].odds = Best(quotes, o)
           leg == [i \in DOMAIN Order |-> at(Order[i])[1]]
<1>2. ASSUME NEW i \in DOMAIN Order
      PROVE  /\ Best(quotes, Order[i]) \in Odds /\ leg[i] \in Bookmaker
             /\ <<leg[i], Order[i]>> \in Fresh(quotes)
             /\ quotes[<<leg[i], Order[i]>>].odds = Best(quotes, Order[i])
  <2> DEFINE o == Order[i]
  <2>0. o \in Outcome
    BY OrderIs
  <2>1. PICK s \in For(quotes, o) : quotes[s].odds = Best(quotes, o)
    BY <1>1, <2>0
  <2>2. at(o) \in For(quotes, o) /\ quotes[at(o)].odds = Best(quotes, o)
    BY <2>1, Zenon
  <2>3. leg[i] = at(o)[1]
    OBVIOUS
  <2> HIDE DEF at, leg, o
  <2>4. at(o) \in Fresh(quotes) /\ at(o)[2] = o
    BY <2>2, CohortPrices DEF For
  <2>5. at(o) \in Bookmaker \X Outcome
    BY <2>4 DEF Fresh, Stored, Slot
  <2>6. at(o) = <<leg[i], o>> /\ leg[i] \in Bookmaker
    BY <2>3, <2>4, <2>5
  <2>7. QED BY <1>1, <2>0, <2>2, <2>4, <2>6 DEF o
<1> HIDE DEF leg
<1>3. leg \in [DOMAIN Order -> Bookmaker]
  <2>1. \A i \in DOMAIN Order : leg[i] \in Bookmaker
    BY <1>2
  <2>2. leg = [i \in DOMAIN Order |-> leg[i]]
    BY DEF leg
  <2>3. QED BY <2>1, <2>2
<1>4. best \in [DOMAIN Order -> Odds]
  BY <1>2
<1>5. leg \in Offers(quotes)
  BY <1>2, <1>3 DEF Offers
<1>6. PricesOf(quotes, leg) = best
  BY <1>2 DEF PricesOf
<1>7. QED BY <1>1, <1>4, <1>5, <1>6

(* No arbitrage is missed: when bets at fresh quotes that were seen        *)
(* together pay more than is staked, the sweep finds a surebet.  Rounding  *)
(* the shares and their sum cannot hide it, however long the prices are,   *)
(* as long as the stakes are small against decimal's 10^28.                *)
THEOREM NothingMissed == Spec => []NoArbitrageMissed
<1>1. Inv => NoArbitrageMissed
  <2> SUFFICES ASSUME Inv, Together(quotes, Fresh(quotes)),
                      NEW leg \in Offers(quotes), NEW stake \in Bets,
                      Pays(stake, PricesOf(quotes, leg))
               PROVE  SurebetFound(quotes)
    BY DEF NoArbitrageMissed
  <2> DEFINE price == PricesOf(quotes, leg)
             best == [i \in DOMAIN Order |-> Best(quotes, Order[i])]
  <2>1. \A i \in DOMAIN Order : /\ <<leg[i], Order[i]>> \in Fresh(quotes)
                                /\ <<leg[i], Order[i]>> \in For(quotes, Order[i])
    BY CohortPrices DEF Offers
  <2>2. AllPriced(quotes)
    <3> SUFFICES ASSUME NEW o \in Outcome PROVE For(quotes, o) # {}
      BY DEF AllPriced
    <3>1. PICK i \in DOMAIN Order : o = Order[i]
      BY OrderIs
    <3>2. QED BY <2>1, <3>1
  <2>3. price \in [DOMAIN Order -> Odds]
    BY <2>1, CohortPrices DEF PricesOf
  <2>4. best \in [DOMAIN Order -> Odds]
    BY <2>2, BestPrices
  <2>5. \A i \in DOMAIN Order : price[i] <= best[i]
    BY <2>1, <2>2, BestPrices, OrderIs DEF PricesOf
  <2>6. Shares(quotes) = [i \in DOMAIN Order |-> Share(best[i])]
    BY DEF Shares
  <2> HIDE DEF price, best
  <2>7. Pays(stake, price)
    BY DEF price
  <2>8. DecimalSum([i \in DOMAIN Order |-> Share(best[i])]) < One
    BY <2>3, <2>4, <2>5, <2>7, PayingBets
  <2>9. Margin(quotes) < One
    BY <2>6, <2>8 DEF Margin
  <2>10. QED BY <2>2, <2>9 DEF SurebetFound, SurebetJudged
<1>2. QED BY <1>1, Types, PTL

(* A surebet that was found pays for itself: each outcome has a fresh      *)
(* quote to bet at, and whoever stakes the shares gets back all that was   *)
(* staked, but for what is paid on half a last digit for each outcome and  *)
(* one half more.  Not every surebet gains: three prices of 3.00 have the  *)
(* shares 0.333..., whose sum is just below one (calculate_arbitrage).     *)
SurebetsPay ==
  SurebetFound(quotes) =>
    \E leg \in Offers(quotes) : \A i \in DOMAIN Order :
      PricesOf(quotes, leg)[i] * (2 * Shares(quotes)[i] + (Len(Order) + 1) * Ulp)
        > 2 * Unit * SumOf(Shares(quotes))

THEOREM NothingLost == Spec => []SurebetsPay
<1>1. Inv => SurebetsPay
  <2> SUFFICES ASSUME Inv, SurebetFound(quotes)
               PROVE  \E leg \in Offers(quotes) : \A i \in DOMAIN Order :
                        PricesOf(quotes, leg)[i] * (2 * Shares(quotes)[i] + (Len(Order) + 1) * Ulp)
                          > 2 * Unit * SumOf(Shares(quotes))
    BY DEF SurebetsPay
  <2> DEFINE best == [i \in DOMAIN Order |-> Best(quotes, Order[i])]
             shares == [i \in DOMAIN Order |-> Share(best[i])]
  <2>1. AllPriced(quotes) /\ Margin(quotes) < One
    BY DEF SurebetFound, SurebetJudged
  <2>2. best \in [DOMAIN Order -> Odds]
    BY <2>1, BestPrices
  <2>3. PICK leg \in Offers(quotes) : PricesOf(quotes, leg) = best
    BY <2>1, BestPrices
  <2>4. Shares(quotes) = shares
    BY DEF Shares
  <2>5. \A i \in DOMAIN Order : shares[i] = Share(best[i])
    OBVIOUS
  <2> HIDE DEF best
  <2>6. DecimalSum(shares) < One
    BY <2>1, <2>4 DEF Margin
  <2>7. ASSUME NEW i \in DOMAIN Order
        PROVE  2 * Unit * SumOf(shares) < best[i] * (2 * Share(best[i]) + (Len(Order) + 1) * Ulp)
    BY <2>2, <2>6, SharesPay
  <2> DEFINE cost == 2 * Unit * SumOf(shares)
             pays(i) == best[i] * (2 * Share(best[i]) + (Len(Order) + 1) * Ulp)
  <2>8. \A i \in DOMAIN Order : pays(i) > cost
    <3>1. \A i \in DOMAIN Order : cost < pays(i)
      BY <2>7
    <3> HIDE DEF cost, pays
    <3>2. QED BY <3>1
  <2> HIDE DEF shares
  <2>9. \A i \in DOMAIN Order :
          PricesOf(quotes, leg)[i] * (2 * Shares(quotes)[i] + (Len(Order) + 1) * Ulp)
            > 2 * Unit * SumOf(Shares(quotes))
    BY <2>3, <2>4, <2>5, <2>8
  <2>10. QED BY <2>9
<1>2. QED BY <1>1, Types, PTL
=============================================================================
