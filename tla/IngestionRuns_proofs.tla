------------------------- MODULE IngestionRuns_proofs -------------------------
(***************************************************************************)
(* Proofs about IngestionRuns for any processes, intervals and bounds.     *)
(* The inductive invariant has three parts beside the types: which rows    *)
(* there are (Ledger), what the local counters of a live run say of its    *)
(* row (Accounts), and how a process's requests are paid for by instants   *)
(* at which rows were inserted (Budget).                                   *)
(***************************************************************************)
EXTENDS IngestionRuns, TLAPS

(* p is between start and finish of a run.                                 *)
Live(p) == pc[p] \in {"collect", "ingest", "audit", "finish"}

(* Rows are inserted in order and never deleted; a row nobody inserted yet *)
(* has nothing stored under it; each live run has a row of its own, which  *)
(* nobody has given a verdict; no row lies in the future.                  *)
Ledger ==
  /\ \A r \in Rows : \A q \in Run : q < r => q \in Rows
  /\ \A r \in Run \ Rows : stored[r] = 0 /\ audited[r] = 0
  /\ \A r \in Rows : runs[r].started <= clock
  /\ \A p \in Proc : Live(p) =>
       /\ mine[p] \in Rows
       /\ runs[mine[p]].status = "RUNNING" \/ runs[mine[p]].interrupted
  /\ \A p, q \in Proc : Live(p) /\ Live(q) /\ mine[p] = mine[q] => p = q

(* What the counters of a live run say of the rows stored under it: the    *)
(* record whose odds are done and whose payload is not is the one step by  *)
(* which the counts of "audit" differ.                                     *)
Accounts ==
  \A p \in Proc : Live(p) =>
    LET w == work[p] IN
    /\ w.accepted = stored[mine[p]]
    /\ w.received = w.accepted + w.rejected
    /\ w.received <= w.total
    /\ pc[p] # "audit" => w.received = audited[mine[p]] + w.lost
    /\ pc[p] = "audit" => w.received = audited[mine[p]] + w.lost + 1
    /\ w.failed => w.received = 0 /\ pc[p] = "finish"
    /\ pc[p] = "collect" => w.received = 0 /\ w.total = 0

(* Each request after the first came an interval after an earlier row, and *)
(* each request has a row that no other request of the process has.        *)
Budget ==
  \A p \in Proc :
    /\ requests[p] # 0 =>
         /\ requests[p] \in Rows
         /\ \E r \in Rows : (requests[p] - 1) * MinInterval <= runs[r].started
    /\ pc[p] = "start" => requests[p] * MinInterval <= clock
    /\ pc[p] = "collect" => /\ requests[p] < mine[p]
                            /\ requests[p] * MinInterval <= runs[mine[p]].started

Inv == TypeOK /\ Ledger /\ Accounts /\ Budget /\ VerdictsAreTrue

-----------------------------------------------------------------------------
(* The arithmetic of the budget.                                           *)
LEMMA NextInterval ==
  ASSUME NEW n \in Nat, n # 0, NEW m \in Nat, NEW t \in Int, NEW c \in Int,
         (n - 1) * m <= t, ~ (c - t < m)
  PROVE  n * m <= c
<1>1. n * m = (n - 1) * m + m
  OBVIOUS
<1> QED BY <1>1

LEMMA IntervalsPassed ==
  ASSUME NEW n \in Nat, NEW m \in Nat \ {0}, NEW c \in Nat, n * m <= c
  PROVE  n <= c \div m
<1>1. c = m * (c \div m) + (c % m) /\ c % m \in 0 .. m - 1 /\ c \div m \in Int
  OBVIOUS
<1>2. SUFFICES ASSUME n >= c \div m + 1 PROVE FALSE
  BY <1>1
<1>3. \A a, b \in Int : a >= b => m * a >= m * b
  OBVIOUS
<1>4. m * n >= m * (c \div m + 1)
  BY <1>1, <1>2, <1>3
<1> QED BY <1>1, <1>4

(* A row that exists is not the row that does not.                         *)
LEMMA RowExists == NoRow \notin Row
BY DEF NoRow, Row, Final

(* The initial states satisfy the invariant.                               *)
LEMMA InitInv == Init => Inv
<1> SUFFICES ASSUME Init PROVE Inv
  OBVIOUS
<1>1. TypeOK
  BY RunsAssumption DEF Init, TypeOK, Run, Count, Work, NoWork
<1>2. Rows = {} /\ \A p \in Proc : ~ Live(p) /\ pc[p] = "down" /\ requests[p] = 0
  BY DEF Init, Rows, Live
<1> QED BY <1>1, <1>2 DEF Inv, Ledger, Accounts, Budget, VerdictsAreTrue, Init

(* What is left of the invariant's parts when a step keeps the rows and    *)
(* only changes the process p, which then is in no run.                    *)
LEMMA LeavesRun ==
  ASSUME Inv, NEW p \in Proc, UNCHANGED <<clock, tables, requests>>, Forget(p),
         NEW label \in {"down", "idle"}, Goto(p, label)
  PROVE  Inv'
<1> USE DEF Inv, Forget, Keep, Goto, tables
<1>1. TypeOK'
  <2>1. NoWork \in Work /\ 1 \in Run
    BY RunsAssumption DEF Run, Count, Work, NoWork
  <2> QED BY <2>1 DEF TypeOK
<1>2. /\ Rows' = Rows /\ ~ Live(p)' /\ pc'[p] \notin {"start", "collect"}
      /\ \A q \in Proc \ {p} : /\ pc'[q] = pc[q] /\ mine'[q] = mine[q] /\ work'[q] = work[q]
                               /\ Live(q)' <=> Live(q)
  BY DEF TypeOK, Rows, Live
<1>3. Ledger'
  BY <1>2 DEF Ledger
<1>4. Accounts'
  BY <1>2 DEF Accounts
<1>5. Budget'
  BY <1>2 DEF Budget
<1>6. VerdictsAreTrue'
  BY <1>2 DEF VerdictsAreTrue
<1> QED BY <1>1, <1>3, <1>4, <1>5, <1>6

(* Every step, stuttering included, keeps the invariant.                   *)
LEMMA NextInv == Inv /\ [Next]_vars => Inv'
<1> SUFFICES ASSUME Inv, [Next]_vars PROVE Inv'
  OBVIOUS
<1> USE DEF Inv
<1>t. /\ clock \in Nat /\ \A r \in Rows : runs[r] \in Row /\ runs[r].started \in Nat
      /\ \A p \in Proc : requests[p] \in Nat /\ mine[p] \in Run
      /\ MinInterval \in Nat \ {0} /\ MaxRuns \in Nat /\ MaxTime \in Nat /\ MaxRecords \in Nat
  BY RunsAssumption DEF TypeOK, Rows, Row, Run
<1>1. CASE Tick
  <2>1. TypeOK'
    BY <1>1, <1>t DEF Tick, TypeOK, tables
  <2>2. /\ Rows' = Rows /\ clock' >= clock /\ clock' \in Nat
        /\ \A p \in Proc : Live(p)' <=> Live(p)
    BY <1>1, <1>t DEF Tick, tables, Rows, Live
  <2>3. Ledger'
    BY <1>1, <1>t, <2>2 DEF Tick, tables, Ledger
  <2>4. Accounts'
    BY <1>1, <2>2 DEF Tick, tables, Accounts
  <2>5. Budget'
    <3>1. \A p \in Proc : requests[p] * MinInterval \in Nat
      BY <1>t
    <3> QED BY <1>1, <1>t, <2>2, <3>1 DEF Tick, tables, Budget
  <2>6. VerdictsAreTrue'
    BY <1>1, <2>2 DEF Tick, tables, VerdictsAreTrue
  <2> QED BY <2>1, <2>3, <2>4, <2>5, <2>6
<1>2. ASSUME NEW p \in Proc, Startup(p)
      PROVE  Inv'
  <2> USE <1>2 DEF Startup, Goto
  <2>1. \A r \in Run : runs'[r] = IF r \in StaleRunning
          THEN [runs[r] EXCEPT !.status = "FAILED", !.interrupted = TRUE] ELSE runs[r]
    OBVIOUS
  <2>2. /\ Rows \subseteq Run
        /\ \A r \in StaleRunning : r \in Rows /\ runs[r].status = "RUNNING"
    BY DEF StaleRunning, Rows
  <2>3. \A r \in StaleRunning :
          /\ runs'[r] \in Row /\ runs'[r].interrupted /\ runs'[r].started = runs[r].started
    BY <1>t, <2>1, <2>2 DEF Row, Final
  <2>4. TypeOK'
    BY <2>1, <2>3 DEF TypeOK
  <2>5. /\ Rows' = Rows /\ \A r \in Rows : runs'[r].started = runs[r].started
        /\ \A q \in Proc : Live(q)' <=> Live(q)
        /\ \A q \in Proc : pc'[q] \in {"start", "collect"} => pc'[q] = pc[q]
    BY <2>1, <2>2, <2>3, RowExists DEF Rows, Live, TypeOK
  <2>6. Ledger'
    BY <2>1, <2>2, <2>3, <2>5 DEF Ledger
  <2>7. Accounts'
    BY <2>5 DEF Accounts, Live, TypeOK
  <2>8. Budget'
    <3>1. \A q \in Proc : Live(q) => mine[q] \in Rows
      BY DEF Ledger
    <3>2. ASSUME NEW q \in Proc, requests[q] # 0
          PROVE  \E r \in Rows : (requests[q] - 1) * MinInterval <= runs'[r].started
      BY <2>5, <3>2 DEF Budget
    <3>3. ASSUME NEW q \in Proc, pc'[q] = "collect"
          PROVE  requests[q] * MinInterval <= runs'[mine[q]].started
      BY <2>5, <3>1, <3>3 DEF Budget, Live
    <3> QED BY <2>5, <3>2, <3>3 DEF Budget
  <2>9. VerdictsAreTrue'
    BY <2>1, <2>2, <2>3, <2>5 DEF VerdictsAreTrue
  <2> QED BY <2>4, <2>6, <2>7, <2>8, <2>9
<1>3. ASSUME NEW p \in Proc, Gate(p)
      PROVE  Inv'
  <2> USE <1>3 DEF Gate, Goto, tables
  <2>1. TypeOK'
    BY DEF TypeOK
  <2>2. /\ Rows' = Rows /\ \A q \in Proc : Live(q)' <=> Live(q)
        /\ \A q \in Proc \ {p} : pc'[q] = pc[q]
        /\ pc'[p] = "start" /\ ~ Live(p)
    BY DEF Rows, Live, TypeOK
  <2>3. Ledger'
    BY <2>2 DEF Ledger
  <2>4. Accounts'
    BY <2>2 DEF Accounts
  <2>5. Budget'
    <3>1. requests[p] * MinInterval <= clock
      <4>1. CASE requests[p] = 0
        BY <1>t, <4>1
      <4>2. CASE requests[p] # 0
        <5>1. PICK r \in Rows : (requests[p] - 1) * MinInterval <= runs[r].started
          BY <4>2 DEF Budget
        <5>2. ~ (clock - runs[r].started < MinInterval)
          BY <5>1 DEF RecentRun
        <5> QED BY <1>t, <4>2, <5>1, <5>2, NextInterval
      <4> QED BY <4>1, <4>2
    <3> QED BY <2>2, <3>1 DEF Budget
  <2>6. VerdictsAreTrue'
    BY <2>2 DEF VerdictsAreTrue
  <2> QED BY <2>1, <2>3, <2>4, <2>5, <2>6
<1>4. ASSUME NEW p \in Proc, Start(p)
      PROVE  Inv'
  <2>1. PICK r \in Run \ Rows :
          /\ \A q \in Run \ Rows : r <= q
          /\ runs' = [runs EXCEPT ![r] =
               [status |-> "RUNNING", started |-> clock, interrupted |-> FALSE,
                received |-> 0, accepted |-> 0, rejected |-> 0]]
          /\ mine' = [mine EXCEPT ![p] = r]
    BY <1>4 DEF Start
  <2>2. /\ pc[p] = "start" /\ clock <= LastStart /\ UNCHANGED <<clock, stored, audited, requests>>
        /\ work' = [work EXCEPT ![p] = NoWork] /\ pc' = [pc EXCEPT ![p] = "collect"]
    BY <1>4 DEF Start, Keep, Goto
  <2>3. /\ runs'[r] \in Row /\ runs'[r].status = "RUNNING" /\ runs'[r].started = clock
        /\ \A q \in Run \ {r} : runs'[q] = runs[q]
    BY <1>t, <2>1 DEF TypeOK, Row, Count
  <2>4. TypeOK'
    BY <1>t, <2>1, <2>2, <2>3 DEF TypeOK, Work, NoWork, Count
  <2>5. /\ Rows' = Rows \cup {r} /\ Live(p)' /\ ~ Live(p)
        /\ mine'[p] = r /\ work'[p] = NoWork /\ pc'[p] = "collect"
        /\ \A q \in Proc \ {p} : /\ pc'[q] = pc[q] /\ mine'[q] = mine[q] /\ work'[q] = work[q]
                                 /\ Live(q)' <=> Live(q)
    BY <2>1, <2>2, <2>3, RowExists DEF Rows, Live, TypeOK
  <2>6. Ledger'
    <3>1. \A q \in Rows : q < r
      BY <2>1, <1>t DEF Ledger, Rows, Run
    <3>2. \A x \in Rows' : \A q \in Run : q < x => q \in Rows'
      BY <2>1, <2>5, <1>t DEF Ledger, Rows, Run
    <3>3. \A x \in Rows' : runs'[x].started <= clock'
      BY <1>t, <2>2, <2>3, <2>5 DEF Ledger, Rows
    <3>4. \A x \in Run \ Rows' : stored'[x] = 0 /\ audited'[x] = 0
      BY <2>2, <2>5 DEF Ledger
    <3>5. \A q \in Proc : Live(q)' =>
            mine'[q] \in Rows' /\ (runs'[mine'[q]].status = "RUNNING" \/ runs'[mine'[q]].interrupted)
      BY <2>3, <2>5, <1>t DEF Ledger, Rows
    <3>6. \A q, x \in Proc : Live(q)' /\ Live(x)' /\ mine'[q] = mine'[x] => q = x
      BY <2>1, <2>5 DEF Ledger
    <3> QED BY <3>2, <3>3, <3>4, <3>5, <3>6 DEF Ledger
  <2>7. Accounts'
    <3>1. stored'[r] = 0 /\ audited'[r] = 0
      BY <2>1, <2>2 DEF Ledger
    <3> QED BY <2>2, <2>5, <3>1 DEF Accounts, NoWork
  <2>8. Budget'
    <3>1. requests[p] < r
      <4>1. CASE requests[p] = 0
        BY <4>1, <2>1, <1>t DEF Run
      <4>2. CASE requests[p] # 0
        <5>1. requests[p] \in Rows
          BY <4>2 DEF Budget
        <5> QED BY <5>1, <2>1, <1>t DEF Ledger, Rows, Run
      <4> QED BY <4>1, <4>2
    <3>2. requests[p] * MinInterval <= clock
      BY <2>2 DEF Budget
    <3>3. \A x \in Rows : runs'[x] = runs[x]
      BY <2>1, <2>3 DEF Rows
    <3>4. \A q \in Proc : Live(q) => mine[q] \in Rows
      BY DEF Ledger
    <3> QED BY <2>2, <2>3, <2>5, <3>1, <3>2, <3>3, <3>4 DEF Budget, Live
  <2>9. VerdictsAreTrue'
    BY <2>2, <2>3, <2>5 DEF VerdictsAreTrue, Final, Rows
  <2> QED BY <2>4, <2>6, <2>7, <2>8, <2>9
<1>5. ASSUME NEW p \in Proc, Collect(p)
      PROVE  Inv'
  <2>1. /\ pc[p] = "collect" /\ requests' = [requests EXCEPT ![p] = @ + 1]
        /\ UNCHANGED <<clock, runs, stored, audited, mine>>
        /\ \/ pc' = [pc EXCEPT ![p] = "ingest"]
           \/ pc' = [pc EXCEPT ![p] = "finish"]
    BY <1>5 DEF Collect, Keep, Goto, tables
  <2>2. /\ Live(p) /\ Live(p)' /\ Rows' = Rows /\ pc'[p] \in {"ingest", "finish"}
        /\ mine' = mine /\ requests'[p] = requests[p] + 1
        /\ \A q \in Proc \ {p} : /\ pc'[q] = pc[q] /\ requests'[q] = requests[q]
                                 /\ Live(q)' <=> Live(q)
    BY <2>1 DEF Rows, Live, TypeOK
  <2> DEFINE Begun(x) == /\ work' = [work EXCEPT ![p] = x]
                         /\ x.accepted = 0 /\ x.received = 0 /\ x.rejected = 0 /\ x.lost = 0
                         /\ x.failed => pc'[p] = "finish"
  <2>3. \E x \in Work : Begun(x)
    <3>1. NoWork \in Work
      BY <1>t DEF Work, NoWork, Count
    <3>2. ASSUME NEW n \in Count, NEW c \in BOOLEAN, Keep(p, [NoWork EXCEPT !.total = n, !.complete = c])
          PROVE  \E x \in Work : Begun(x)
      <4> DEFINE x == [NoWork EXCEPT !.total = n, !.complete = c]
      <4>1. /\ x \in Work /\ x.accepted = 0 /\ x.received = 0 /\ x.rejected = 0 /\ x.lost = 0
            /\ ~ x.failed
        BY <3>1 DEF Work, NoWork
      <4>2. work' = [work EXCEPT ![p] = x]
        BY <3>2 DEF Keep
      <4>3. Begun(x)
        BY <4>1, <4>2
      <4> HIDE DEF x, Begun
      <4> QED BY <4>1, <4>3
    <3>3. ASSUME Keep(p, [NoWork EXCEPT !.failed = TRUE]), pc'[p] = "finish"
          PROVE  \E x \in Work : Begun(x)
      <4> DEFINE x == [NoWork EXCEPT !.failed = TRUE]
      <4>1. x \in Work /\ x.accepted = 0 /\ x.received = 0 /\ x.rejected = 0 /\ x.lost = 0
        BY <3>1 DEF Work, NoWork
      <4>2. work' = [work EXCEPT ![p] = x]
        BY <3>3 DEF Keep
      <4>3. Begun(x)
        BY <3>3, <4>1, <4>2
      <4> HIDE DEF x, Begun
      <4> QED BY <4>1, <4>3
    <3>4. pc'[p] = "finish" \/ \E n \in Count, c \in BOOLEAN :
                                 Keep(p, [NoWork EXCEPT !.total = n, !.complete = c])
      BY <1>5 DEF Collect, Goto, TypeOK
    <3> HIDE DEF Begun
    <3> QED BY <1>5, <3>2, <3>3, <3>4 DEF Collect
  <2>4. mine[p] \in Rows /\ requests[p] < mine[p] /\ requests'[p] \in Rows
    BY <1>t, <2>1, <2>2 DEF Ledger, Budget, Rows, Run
  <2>5. TypeOK'
    <3>1. requests[p] + 1 \in 0 .. MaxRuns
      BY <1>t, <2>2, <2>4 DEF Rows, Run
    <3>2. requests' \in [Proc -> 0 .. MaxRuns]
      BY <2>1, <3>1 DEF TypeOK
    <3>3. work' \in [Proc -> Work]
      BY <2>3 DEF TypeOK
    <3> QED BY <2>1, <3>2, <3>3 DEF TypeOK
  <2>6. Ledger'
    BY <2>1, <2>2 DEF Ledger
  <2>7. Accounts'
    <3>1. stored[mine[p]] = 0 /\ audited[mine[p]] = 0
      <4>1. /\ work[p].received = 0 /\ work[p].accepted = stored[mine[p]]
            /\ work[p].received = work[p].accepted + work[p].rejected
            /\ work[p].received = audited[mine[p]] + work[p].lost
        BY <2>1, <2>2 DEF Accounts
      <4>2. /\ work[p].accepted \in Nat /\ work[p].rejected \in Nat /\ work[p].lost \in Nat
            /\ audited[mine[p]] \in Nat
        BY <1>t DEF TypeOK, Work, Count
      <4>3. \A a, b \in Nat : 0 = a + b => a = 0 /\ b = 0
        OBVIOUS
      <4> QED BY <4>1, <4>2, <4>3
    <3>2. PICK x \in Work : Begun(x)
      BY <2>3
    <3>3. work'[p] = x /\ x.total >= 0 /\ \A q \in Proc \ {p} : work'[q] = work[q]
      BY <3>2, <1>t DEF TypeOK, Work, Count
    <3> QED BY <2>1, <2>2, <3>1, <3>2, <3>3 DEF Accounts
  <2>8. Budget'
    <3>1. requests'[p] - 1 = requests[p]
      BY <1>t, <2>2
    <3>2. (requests'[p] - 1) * MinInterval <= runs[mine[p]].started
      BY <2>1, <3>1 DEF Budget
    <3> QED BY <2>1, <2>2, <2>4, <3>2 DEF Budget
  <2>9. VerdictsAreTrue'
    BY <2>1, <2>2 DEF VerdictsAreTrue
  <2> QED BY <2>5, <2>6, <2>7, <2>8, <2>9
<1>6. ASSUME NEW p \in Proc, IngestOne(p)
      PROVE  Inv'
  <2>0. /\ pc[p] = "ingest" /\ work[p].received < work[p].total
        /\ UNCHANGED <<clock, runs, audited, requests, mine>>
        /\ pc' = [pc EXCEPT ![p] = "audit"]
    BY <1>6 DEF IngestOne, Goto
  <2>1. /\ Live(p) /\ Live(p)' /\ Rows' = Rows /\ pc'[p] = "audit"
        /\ \A q \in Proc \ {p} : pc'[q] = pc[q] /\ (Live(q)' <=> Live(q))
    BY <2>0 DEF Rows, Live, TypeOK
  <2>2. /\ mine[p] \in Rows /\ mine[p] \in Run
        /\ runs[mine[p]].status = "RUNNING" \/ runs[mine[p]].interrupted
        /\ \A q \in Proc \ {p} : Live(q) => mine[q] # mine[p]
    BY <2>1, <1>t DEF Ledger
  <2>3. /\ work[p] \in Work /\ work[p].accepted = stored[mine[p]]
        /\ work[p].received = work[p].accepted + work[p].rejected
        /\ work[p].received = audited[mine[p]] + work[p].lost
        /\ ~ work[p].failed
    BY <2>0, <2>1 DEF Accounts, TypeOK
  <2>4. /\ work[p].accepted \in Nat /\ work[p].rejected \in Nat /\ work[p].lost \in Nat
        /\ audited[mine[p]] \in Nat /\ stored[mine[p]] \in Nat /\ work[p].received \in Nat
        /\ work[p].total \in Nat /\ work[p].total <= MaxRecords
    BY <2>2, <2>3, <1>t DEF TypeOK, Work, Count
  <2>5. work[p].received + 1 \in Count /\ work[p].accepted + 1 \in Count /\ work[p].rejected + 1 \in Count
    BY <2>0, <2>3, <2>4, <1>t DEF Count
  <2> DEFINE Ingested(x, a) ==
          /\ stored' = [stored EXCEPT ![mine[p]] = a]
          /\ work' = [work EXCEPT ![p] = x]
          /\ x.accepted = a /\ x.received = x.accepted + x.rejected /\ x.lost = work[p].lost
          /\ x.received = work[p].received + 1 /\ x.total = work[p].total /\ ~ x.failed
  <2>6. \E x \in Work, a \in Count : Ingested(x, a)
    <3>1. CASE /\ stored' = [stored EXCEPT ![mine[p]] = @ + 1]
               /\ Keep(p, [work[p] EXCEPT !.received = @ + 1, !.accepted = @ + 1])
      <4> DEFINE x == [work[p] EXCEPT !.received = @ + 1, !.accepted = @ + 1]
      <4>1. /\ x \in Work /\ x.accepted = work[p].accepted + 1 /\ x.received = work[p].received + 1
            /\ x.rejected = work[p].rejected /\ x.lost = work[p].lost /\ x.total = work[p].total
            /\ x.failed = work[p].failed
        BY <2>3, <2>5 DEF Work
      <4>2. stored' = [stored EXCEPT ![mine[p]] = x.accepted] /\ work' = [work EXCEPT ![p] = x]
        BY <3>1, <4>1, <2>3 DEF Keep
      <4>3. x.accepted \in Count /\ Ingested(x, x.accepted)
        BY <4>1, <4>2, <2>3, <2>4, <2>5
      <4> HIDE DEF x, Ingested
      <4> QED BY <4>1, <4>3
    <3>2. CASE /\ stored' = stored
               /\ Keep(p, [work[p] EXCEPT !.received = @ + 1, !.rejected = @ + 1])
      <4> DEFINE x == [work[p] EXCEPT !.received = @ + 1, !.rejected = @ + 1]
      <4>1. /\ x \in Work /\ x.accepted = work[p].accepted /\ x.received = work[p].received + 1
            /\ x.rejected = work[p].rejected + 1 /\ x.lost = work[p].lost /\ x.total = work[p].total
            /\ x.failed = work[p].failed
        BY <2>3, <2>5 DEF Work
      <4>2. stored' = [stored EXCEPT ![mine[p]] = x.accepted] /\ work' = [work EXCEPT ![p] = x]
        BY <3>2, <4>1, <2>3 DEF Keep, TypeOK
      <4>3. x.accepted \in Count /\ Ingested(x, x.accepted)
        <5>1. x.accepted \in Count
          BY <4>1, <2>3 DEF Work
        <5> QED BY <4>1, <4>2, <5>1, <2>3, <2>4
      <4> HIDE DEF x, Ingested
      <4> QED BY <4>1, <4>3
    <3> HIDE DEF Ingested
    <3> QED BY <1>6, <3>1, <3>2 DEF IngestOne
  <2>7. PICK x \in Work, a \in Count : Ingested(x, a)
    BY <2>6
  <2>8. TypeOK'
    BY <2>0, <2>2, <2>7 DEF TypeOK
  <2>9. /\ stored'[mine[p]] = a /\ \A r \in Run \ {mine[p]} : stored'[r] = stored[r]
        /\ work'[p] = x /\ \A q \in Proc \ {p} : work'[q] = work[q]
    BY <2>2, <2>7 DEF TypeOK
  <2>10. Ledger'
    BY <2>0, <2>1, <2>2, <2>9 DEF Ledger
  <2>11. Accounts'
    BY <1>t, <2>0, <2>1, <2>2, <2>3, <2>4, <2>7, <2>9 DEF Accounts
  <2>12. Budget'
    BY <2>0, <2>1 DEF Budget
  <2>13. VerdictsAreTrue'
    BY <2>0, <2>1, <2>2, <2>9, <1>t DEF VerdictsAreTrue, Final, Rows
  <2> QED BY <2>8, <2>10, <2>11, <2>12, <2>13
<1>7. ASSUME NEW p \in Proc, SaveRawPayload(p)
      PROVE  Inv'
  <2>0. /\ pc[p] = "audit" /\ UNCHANGED <<clock, runs, stored, requests, mine>>
        /\ pc' = [pc EXCEPT ![p] = "ingest"]
    BY <1>7 DEF SaveRawPayload, Goto
  <2>1. /\ Live(p) /\ Live(p)' /\ Rows' = Rows /\ pc'[p] = "ingest"
        /\ \A q \in Proc \ {p} : pc'[q] = pc[q] /\ (Live(q)' <=> Live(q))
    BY <2>0 DEF Rows, Live, TypeOK
  <2>2. /\ mine[p] \in Rows /\ mine[p] \in Run
        /\ runs[mine[p]].status = "RUNNING" \/ runs[mine[p]].interrupted
        /\ \A q \in Proc \ {p} : Live(q) => mine[q] # mine[p]
    BY <2>1, <1>t DEF Ledger
  <2>3. /\ work[p] \in Work /\ work[p].received = audited[mine[p]] + work[p].lost + 1
        /\ work[p].received = work[p].accepted + work[p].rejected
        /\ work[p].accepted = stored[mine[p]]
        /\ work[p].received <= work[p].total
        /\ ~ work[p].failed
    BY <2>0, <2>1 DEF Accounts, TypeOK
  <2>4. /\ work[p].lost \in Nat /\ audited[mine[p]] \in Nat /\ work[p].received \in Nat
        /\ work[p].total \in Nat /\ work[p].total <= MaxRecords
    BY <2>2, <2>3, <1>t DEF TypeOK, Work, Count
  <2>5. work[p].lost + 1 \in Count /\ audited[mine[p]] + 1 \in Count
    BY <2>3, <2>4, <1>t DEF Count
  <2> DEFINE Kept(x, a) ==
          /\ audited' = [audited EXCEPT ![mine[p]] = a]
          /\ work' = [work EXCEPT ![p] = x]
          /\ x.received = a + x.lost /\ x.received = work[p].received
          /\ x.accepted = work[p].accepted /\ x.rejected = work[p].rejected
          /\ x.total = work[p].total /\ x.failed = work[p].failed
  <2>6. \E x \in Work, a \in Count : Kept(x, a)
    <3>1. CASE audited' = [audited EXCEPT ![mine[p]] = @ + 1] /\ work' = work
      <4>1. work' = [work EXCEPT ![p] = work[p]]
        BY <3>1 DEF TypeOK
      <4>2. work[p].received = (audited[mine[p]] + 1) + work[p].lost
        BY <2>3, <2>4
      <4>3. Kept(work[p], audited[mine[p]] + 1)
        BY <3>1, <4>1, <4>2
      <4> HIDE DEF Kept
      <4> QED BY <2>3, <2>5, <4>3
    <3>2. CASE Keep(p, [work[p] EXCEPT !.lost = @ + 1]) /\ audited' = audited
      <4> DEFINE x == [work[p] EXCEPT !.lost = @ + 1]
      <4>1. /\ x \in Work /\ x.accepted = work[p].accepted /\ x.received = work[p].received
            /\ x.rejected = work[p].rejected /\ x.lost = work[p].lost + 1 /\ x.total = work[p].total
            /\ x.failed = work[p].failed
        BY <2>3, <2>5 DEF Work
      <4>2. audited' = [audited EXCEPT ![mine[p]] = audited[mine[p]]] /\ work' = [work EXCEPT ![p] = x]
        BY <3>2 DEF Keep, TypeOK
      <4>3. audited[mine[p]] \in Count /\ Kept(x, audited[mine[p]])
        <5>1. audited[mine[p]] \in Count
          BY <2>2 DEF TypeOK
        <5> QED BY <4>1, <4>2, <5>1, <2>3, <2>4
      <4> HIDE DEF x, Kept
      <4> QED BY <4>1, <4>3
    <3> HIDE DEF Kept
    <3> QED BY <1>7, <3>1, <3>2 DEF SaveRawPayload
  <2>7. PICK x \in Work, a \in Count : Kept(x, a)
    BY <2>6
  <2>8. TypeOK'
    BY <2>0, <2>2, <2>7 DEF TypeOK
  <2>9. /\ audited'[mine[p]] = a /\ \A r \in Run \ {mine[p]} : audited'[r] = audited[r]
        /\ work'[p] = x /\ \A q \in Proc \ {p} : work'[q] = work[q]
    BY <2>2, <2>7 DEF TypeOK
  <2>10. Ledger'
    BY <2>0, <2>1, <2>2, <2>9 DEF Ledger
  <2>11. Accounts'
    BY <1>t, <2>0, <2>1, <2>2, <2>3, <2>7, <2>9 DEF Accounts
  <2>12. Budget'
    BY <2>0, <2>1 DEF Budget
  <2>13. VerdictsAreTrue'
    BY <2>0, <2>1, <2>2, <2>9, <1>t DEF VerdictsAreTrue, Final, Rows
  <2> QED BY <2>8, <2>10, <2>11, <2>12, <2>13
<1>8. ASSUME NEW p \in Proc, EndRecords(p)
      PROVE  Inv'
  <2> USE <1>8 DEF EndRecords, Goto, tables
  <2>1. TypeOK'
    BY DEF TypeOK
  <2>2. /\ Rows' = Rows /\ pc'[p] = "finish" /\ pc[p] = "ingest"
        /\ \A q \in Proc \ {p} : pc'[q] = pc[q]
        /\ \A q \in Proc : Live(q)' <=> Live(q)
    BY DEF Rows, Live, TypeOK
  <2>3. Ledger'
    BY <2>2 DEF Ledger
  <2>4. Accounts'
    BY <2>2 DEF Accounts
  <2>5. Budget'
    BY <2>2 DEF Budget
  <2>6. VerdictsAreTrue'
    BY <2>2 DEF VerdictsAreTrue
  <2> QED BY <2>1, <2>3, <2>4, <2>5, <2>6
<1>9. ASSUME NEW p \in Proc, Finish(p)
      PROVE  Inv'
  <2> DEFINE m == mine[p]
             v == [status |-> Verdict(work[p]), started |-> runs[m].started, interrupted |-> FALSE,
                   received |-> work[p].received, accepted |-> work[p].accepted,
                   rejected |-> work[p].rejected]
  <2>0. /\ pc[p] = "finish" /\ runs' = [runs EXCEPT ![m] = v]
        /\ work' = [work EXCEPT ![p] = NoWork] /\ mine' = [mine EXCEPT ![p] = 1]
        /\ pc' = [pc EXCEPT ![p] = "idle"]
        /\ UNCHANGED <<clock, stored, audited, requests>>
    BY <1>9 DEF Finish, Forget, Keep, Goto
  <2>1. Live(p) /\ m \in Rows /\ m \in Run /\ work[p] \in Work /\ runs[m] \in Row
    BY <2>0, <1>t DEF Ledger, Live, TypeOK
  <2>2. v \in Row /\ Verdict(work[p]) \in Final
    BY <2>1 DEF Row, Work, Verdict, Final
  <2>3. /\ runs'[m] = v /\ v # NoRow /\ v.started = runs[m].started
        /\ \A r \in Run \ {m} : runs'[r] = runs[r]
    BY <2>0, <2>1, <2>2, RowExists DEF TypeOK
  <2>4. TypeOK'
    <3>1. NoWork \in Work /\ 1 \in Run
      BY RunsAssumption DEF Run, Count, Work, NoWork
    <3> QED BY <2>0, <2>1, <2>2, <3>1 DEF TypeOK
  <2>5. /\ Rows' = Rows /\ ~ Live(p)' /\ pc'[p] = "idle"
        /\ \A q \in Proc \ {p} : /\ pc'[q] = pc[q] /\ mine'[q] = mine[q] /\ work'[q] = work[q]
                                 /\ Live(q)' <=> Live(q)
        /\ \A r \in Rows : runs'[r].started = runs[r].started
    BY <2>0, <2>1, <2>3, RowExists DEF Rows, Live, TypeOK
  <2>6. \A q \in Proc \ {p} : Live(q) => mine[q] # m /\ mine[q] \in Rows /\ mine[q] \in Run
    BY <2>1, <1>t DEF Ledger
  <2>7. Ledger'
    BY <2>0, <2>3, <2>5, <2>6 DEF Ledger
  <2>8. Accounts'
    BY <2>0, <2>5 DEF Accounts
  <2>9. Budget'
    BY <2>0, <2>5, <2>6 DEF Budget, Live
  <2>10. VerdictsAreTrue'
    <3>1. /\ work[p].accepted = stored[m]
          /\ work[p].received = work[p].accepted + work[p].rejected
          /\ work[p].received = audited[m] + work[p].lost
          /\ work[p].failed => work[p].received = 0
      BY <2>0, <2>1 DEF Accounts
    <3>2. /\ work[p].accepted \in Nat /\ work[p].rejected \in Nat /\ work[p].lost \in Nat
          /\ work[p].received \in Nat /\ stored[m] \in Nat /\ audited[m] \in Nat
      BY <2>1, <1>t DEF TypeOK, Work, Count
    <3>3. Verdict(work[p]) = "SUCCESS" => work[p].rejected = 0 /\ work[p].lost = 0
      BY <3>2 DEF Verdict
    <3>4. Verdict(work[p]) = "FAILED" => work[p].accepted = 0
      BY <3>1, <3>2 DEF Verdict
    <3>5. /\ v.accepted = stored[m] /\ v.received = v.accepted + v.rejected
          /\ v.status = "SUCCESS" => stored[m] = v.received /\ audited[m] = v.received
          /\ v.status = "FAILED" => stored[m] = 0
      BY <3>1, <3>2, <3>3, <3>4
    <3> HIDE DEF v
    <3> QED BY <2>0, <2>3, <2>5, <3>5 DEF VerdictsAreTrue, Rows
  <2> QED BY <2>4, <2>7, <2>8, <2>9, <2>10
<1>10. ASSUME NEW p \in Proc, Crash(p) \/ FailCycle(p)
       PROVE  Inv'
  BY <1>10, LeavesRun DEF Crash, FailCycle
<1>11. CASE UNCHANGED vars
  <2>1. /\ TypeOK' /\ Rows' = Rows /\ \A p \in Proc : Live(p)' <=> Live(p)
    BY <1>11 DEF vars, tables, TypeOK, Rows, Live
  <2>2. Ledger' /\ Accounts'
    BY <1>11, <2>1 DEF vars, tables, Ledger, Accounts
  <2>3. Budget' /\ VerdictsAreTrue'
    BY <1>11, <2>1 DEF vars, tables, Budget, VerdictsAreTrue
  <2> QED BY <2>1, <2>2, <2>3
<1> QED BY <1>1, <1>2, <1>3, <1>4, <1>5, <1>6, <1>7, <1>8, <1>9, <1>10, <1>11 DEF Next, Step

(* Inv holds for ever.                                                     *)
LEMMA Invariance == Spec => []Inv
BY InitInv, NextInv, PTL DEF Spec

(* Every variable keeps its type: no counter passes the number of records, *)
(* and no process makes more requests than there are rows.                 *)
THEOREM Typing == Spec => []TypeOK
BY Invariance, PTL DEF Inv

(* A verdict in collector_runs is true of what is stored: SUCCESS means    *)
(* everything seen is stored, odds and raw payloads; FAILED that no odds   *)
(* are; the counts of a finished run are those of the tables.              *)
THEOREM RunsTellTheTruth == Spec => []VerdictsAreTrue
BY Invariance, PTL DEF Inv

(* However the processes crash and restart, none asks the provider more    *)
(* often than once for each interval, with one request more at the start.  *)
THEOREM RateLimit == Spec => []WithinBudget
<1>1. Inv => WithinBudget
  <2> SUFFICES ASSUME Inv, NEW p \in Proc PROVE requests[p] <= clock \div MinInterval + 1
    BY DEF WithinBudget
  <2>1. clock \in Nat /\ requests[p] \in Nat /\ MinInterval \in Nat \ {0}
    BY RunsAssumption DEF Inv, TypeOK
  <2>2. clock \div MinInterval \in Nat
    BY <2>1
  <2>3. CASE requests[p] = 0
    BY <2>2, <2>3
  <2>4. CASE requests[p] # 0
    <3>1. PICK r \in Rows : (requests[p] - 1) * MinInterval <= runs[r].started
      BY <2>4 DEF Inv, Budget
    <3>2. runs[r].started \in Nat /\ runs[r].started <= clock
      BY RunsAssumption DEF Inv, Ledger, TypeOK, Rows, Row
    <3>3. requests[p] - 1 \in Nat /\ (requests[p] - 1) * MinInterval \in Nat
      BY <2>1, <2>4
    <3>4. (requests[p] - 1) * MinInterval <= clock
      BY <2>1, <3>1, <3>2, <3>3
    <3>5. requests[p] - 1 <= clock \div MinInterval
      BY <2>1, <3>3, <3>4, IntervalsPassed
    <3> QED BY <2>1, <2>2, <3>5
  <2> QED BY <2>3, <2>4
<1> QED BY <1>1, Invariance, PTL

(* The recovery at startup, and every other step, leaves the verdict of a  *)
(* finished run alone.                                                     *)
THEOREM VerdictsAreFinal == Spec => VerdictsStand
<1> DEFINE Stand == \A r \in Rows :
             runs[r].status \in Final /\ ~ runs[r].interrupted => runs'[r] = runs[r]
<1>1. ASSUME Inv, [Next]_vars PROVE [Stand]_vars
  <2>1. ASSUME NEW p \in Proc, Startup(p) PROVE Stand
    BY <2>1 DEF Startup, StaleRunning, Rows, Final
  <2>2. ASSUME NEW p \in Proc, Start(p) PROVE Stand
    BY <1>1, <2>2 DEF Start, Rows, Inv, TypeOK
  <2>3. ASSUME NEW p \in Proc, Finish(p) PROVE Stand
    <3>1. runs[mine[p]].status = "RUNNING" \/ runs[mine[p]].interrupted
      BY <1>1, <2>3 DEF Finish, Inv, Ledger, Live
    <3>2. \A r \in Run : r # mine[p] => runs'[r] = runs[r]
      BY <1>1, <2>3 DEF Finish, Inv, TypeOK
    <3> QED BY <3>1, <3>2 DEF Rows, Final
  <2>4. ASSUME UNCHANGED runs PROVE Stand
    BY <2>4
  <2>5. CASE Tick \/ UNCHANGED vars
    BY <2>4, <2>5 DEF Tick, vars, tables
  <2>6. ASSUME NEW p \in Proc,
               \/ Gate(p) \/ Collect(p) \/ IngestOne(p) \/ SaveRawPayload(p) \/ EndRecords(p)
               \/ Crash(p) \/ FailCycle(p)
        PROVE  Stand
    <3>1. UNCHANGED runs
      BY <2>6 DEF Gate, Collect, IngestOne, SaveRawPayload, EndRecords, Crash, FailCycle, tables
    <3> QED BY <2>4, <3>1
  <2> HIDE DEF Stand
  <2> QED BY <1>1, <2>1, <2>2, <2>3, <2>5, <2>6 DEF Next, Step
<1> QED BY <1>1, Invariance, PTL DEF Spec, VerdictsStand

===============================================================================
