--------------------------- MODULE Collection_proofs ---------------------------
(***************************************************************************)
(* Proofs about Collection for any listings, any number of pages, attempts *)
(* and captures, and any order of the collectors.  Inv is inductive.  Of   *)
(* each process it says what a collection that is turning pages has read   *)
(* and waited for so far, and which file's time and text it holds; of the  *)
(* files, that the slot holds the last capture, that the history has a     *)
(* name for each, and what became of the records of those in it.  What the *)
(* human does at a bad moment is remembered in met; where nothing was met  *)
(* between a read and a move, no capture's records are about twice.        *)
(***************************************************************************)
EXTENDS Collection, FiniteSetTheorems, TLAPS

-----------------------------------------------------------------------------
(* Waiting.                                                                *)

(* What one request may wait for, and a collection.                        *)
Retries == (MaxAttempts - 1) * MaxDelay
Longest == (2 * MaxPages + 1) * Retries

(* The requests answered before the one under way, at the most.            *)
Answered(x) ==
  IF x.what = "fixtures" THEN x.page - 1
  ELSE IF x.what = "odds" THEN MaxPages + x.page - 1
  ELSE IF x.what = "token" THEN 0 ELSE x.page + 1

Paging(x) ==
  /\ x.what \in {"fixtures", "odds", "token", "offer"}
  /\ x.what \in {"fixtures", "odds"} => x.page >= 1
  /\ x.text = NoFile
  /\ x.waited <= Answered(x) * Retries + x.attempt * MaxDelay

-----------------------------------------------------------------------------
(* Reading.                                                                *)

(* Each promised fixture is listed in s: on a page to come, or it is in    *)
(* what was got.                                                           *)
Covered(s, x, page, got) ==
  \A f \in x.promised : \E i \in DOMAIN s :
    s[i] = f /\ ((i - 1) \div PageSize < page - 1 => f \in got)

ReadSoFar(x, l) ==
  ~ x.shifted =>
    /\ x.what = "fixtures" =>
         Covered(l.fixtures, x, x.page, x.known) /\ x.promised \subseteq Range(l.priced)
    /\ x.what = "odds" =>
         Covered(l.priced, x, x.page, x.odds) /\ (x.capped = {} => x.promised \subseteq x.known)

Whole(x) == x.what = "odds" /\ x.complete /\ ~ x.shifted => x.promised \subseteq x.result

-----------------------------------------------------------------------------
(* Moving.                                                                 *)

(* The stamp is of the file in the slot, or of the text, and the text is   *)
(* of the file to be moved: unless the human met the process.              *)
Moving(p) ==
  /\ pc[p] = "read" /\ slot # NoFile => w[p].stamp = slot.at \/ "read" \in met[slot.n]
  /\ pc[p] \in {"archive", "store"} /\ w[p].text # NoFile =>
       w[p].stamp = w[p].text.at \/ "read" \in met[w[p].text.n]
  /\ pc[p] = "archive" /\ slot # NoFile =>
       (w[p].text # NoFile /\ w[p].text.n = slot.n) \/ "archive" \in met[slot.n]

(* The captures are numbered as they are saved, and a name in the history  *)
(* has a suffix that no later one will have.                               *)
Filed ==
  /\ slot # NoFile => slot.n = dropped
  /\ \A h \in history : /\ h.holds <= dropped
                        /\ slot # NoFile => h.holds # slot.n
                        /\ h.name[2] <= Cardinality(history)
  /\ NothingVanishes

HasRecords(p) == pc[p] = "store" /\ w[p].text # NoFile

InHistory(n) == \E h \in history : h.holds = n

Handed(n) == stored[n] + rejected[n]

(* What became of the records of a capture that was moved away.            *)
Arrives(n) ==
  \/ \E p \in Proc : pc[p] = "store" /\ w[p].text.n = n
  \/ Handed(n) # 0
  \/ n \in killed \/ "archive" \in met[n]

Calm == \A m \in Capture : "archive" \notin met[m]

(* The records of a capture that was moved away are with one process, or   *)
(* were handed over, once.                                                 *)
Once ==
  /\ \A p \in Proc : HasRecords(p) => Handed(w[p].text.n) = 0 /\ InHistory(w[p].text.n)
  /\ \A p, q \in Proc :
       HasRecords(p) /\ HasRecords(q) /\ w[p].text.n = w[q].text.n => p = q
  /\ \A n \in Capture : Handed(n) <= 1 /\ (Handed(n) # 0 => InHistory(n))

-----------------------------------------------------------------------------
Local(p) ==
  /\ pc[p] = "get" => Paging(w[p]) /\ ReadSoFar(w[p], listing)
  /\ pc[p] = "store" => w[p].waited <= Longest /\ Whole(w[p])
  /\ pc[p] \notin {"get", "store"} => w[p].what = ""
  /\ Moving(p)

Inv ==
  /\ TypeOK
  /\ \A p \in Proc : Local(p)
  /\ Filed
  /\ \A h \in history : Arrives(h.holds)
  /\ Calm => Once

-----------------------------------------------------------------------------
(* Products of what SMT does not multiply by itself.                       *)
LEMMA Products ==
  /\ Retries \in Nat /\ Longest \in Nat
  /\ \A a \in 0 .. MaxAttempts - 1 : a * MaxDelay \in Nat /\ a * MaxDelay <= Retries
  /\ \A a \in Nat : (a + 1) * MaxDelay = a * MaxDelay + MaxDelay
  /\ \A k \in Nat : k * Retries \in Nat /\ (k + 1) * Retries = k * Retries + Retries
  /\ \A k, l \in Nat : k <= l => k * Retries <= l * Retries
<1>1. \A a, b, c \in Nat : a <= b => a * c \in Nat /\ a * c <= b * c
  OBVIOUS
<1>2. \A a, c \in Nat : (a + 1) * c = a * c + c
  OBVIOUS
<1>3. MaxAttempts - 1 \in Nat /\ MaxDelay \in Nat /\ 2 * MaxPages + 1 \in Nat
  BY CollectionAssumption
<1>4. Retries \in Nat /\ Longest \in Nat
  BY <1>1, <1>3 DEF Retries, Longest
<1>5. \A a \in 0 .. MaxAttempts - 1 : a * MaxDelay \in Nat /\ a * MaxDelay <= Retries
  BY <1>1, <1>3 DEF Retries
<1> QED BY <1>1, <1>2, <1>3, <1>4, <1>5

LEMMA AtMost == \A a, b, c \in Nat : a <= b /\ b <= c => a <= c
OBVIOUS

(* No process at work has captured anything by having nothing.             *)
LEMMA NoFileIsNone == NoFile.n = 0 /\ NoFile \notin File /\ \A f \in File : f.n \in Capture /\ f.at \in Nat
BY CollectionAssumption DEF NoFile, File, Capture

LEMMA NoWorkIsWork == NoWork \in Work /\ NoWork.waited = 0 /\ NoWork.text = NoFile /\ NoWork.what = ""
BY CollectionAssumption DEF NoWork, Work

(* Pages of a listing: an item is on a page, which is not after the last;  *)
(* a listing that grows keeps what it has.                                 *)
LEMMA Pages ==
  ASSUME NEW s \in Seq(Fixtures)
  PROVE  /\ PagesOf(s) \in Nat
         /\ \A i \in DOMAIN s : /\ (i - 1) \div PageSize \in Nat
                                /\ (i - 1) \div PageSize < PagesOf(s)
                                /\ s[i] \in Fixtures
         /\ \A k : ItemsOf(s, k) \subseteq Fixtures
<1>1. \A a, b \in Nat : a <= b => a \div PageSize \in Nat /\ a \div PageSize <= b \div PageSize
  BY CollectionAssumption
<1>2. \A i \in DOMAIN s : i - 1 \in Nat /\ Len(s) - 1 \in Nat /\ i - 1 <= Len(s) - 1 /\ s # <<>>
  OBVIOUS
<1>3. s # <<>> => Len(s) - 1 \in Nat
  OBVIOUS
<1> QED BY <1>1, <1>2, <1>3 DEF PagesOf, ItemsOf

LEMMA Listed ==
  ASSUME NEW s \in Seq(Fixtures), NEW f \in Fixtures
  PROVE  /\ Append(s, f) \in Seq(Fixtures)
         /\ DOMAIN s \subseteq DOMAIN Append(s, f)
         /\ \A i \in DOMAIN s : Append(s, f)[i] = s[i]
         /\ Without(s, f) \in Seq(Fixtures)
<1>1. ASSUME f \in Range(s)
      PROVE  (CHOOSE i \in DOMAIN s : s[i] = f) \in DOMAIN s
  BY <1>1 DEF Range
<1>2. \A i \in DOMAIN s : RemoveAt(s, i) \in Seq(Fixtures)
  BY DEF RemoveAt
<1> QED BY <1>1, <1>2 DEF Without

-----------------------------------------------------------------------------
(* The initial states satisfy the invariant.                               *)
LEMMA InitInv == Init => Inv
<1> SUFFICES ASSUME Init PROVE Inv
  OBVIOUS
<1> USE DEF Init
<1>1. /\ sources \in [Proc -> Seq(Collector)] /\ listing \in Listing /\ plan \in Plan
  <2>1. PICK v \in Worlds :
          /\ sources = [p \in Proc |-> IF p = Poller THEN v.sources ELSE <<"capture">>]
          /\ listing = v.listing /\ plan = v.plan
    OBVIOUS
  <2>2. v.sources \in Seq(Collector) /\ v.listing \in Listing /\ v.plan \in Plan
    BY CollectionAssumption
  <2>3. <<"capture">> \in Seq(Collector)
    BY DEF Collector
  <2> QED BY <2>1, <2>2, <2>3
<1>2. IsFiniteSet({}) /\ Cardinality({}) = 0
  BY FS_EmptySet
<1>3. \A p \in Proc : pc[p] \in {"idle", "watching"} /\ turn[p] \notin DOMAIN sources[p] /\ w[p] = NoWork
  BY <1>1
<1>4. TypeOK
  <2>1. /\ 0 \in 0 .. MaxDrops /\ 0 \in 0 .. MaxChanges /\ 0 \in 0 .. MaxCrashes
        /\ stored \in [Capture -> Nat] /\ rejected \in [Capture -> Nat] /\ turn \in [Proc -> Nat]
        /\ met \in [Capture -> SUBSET {"read", "archive"}]
    BY CollectionAssumption
  <2>2. /\ pc \in [Proc -> {"down", "idle", "watching", "settling", "dead"} \cup InTurn]
        /\ w \in [Proc -> Work]
    BY NoWorkIsWork
  <2>3. \A p \in Proc : /\ pc[p] \in InTurn <=> turn[p] \in DOMAIN sources[p]
                        /\ w[p].waited = 0
    BY <1>3, NoWorkIsWork DEF InTurn
  <2> QED BY <1>1, <1>2, <2>1, <2>2, <2>3 DEF TypeOK
<1>5. \A p \in Proc : Local(p)
  BY <1>3, NoWorkIsWork DEF Local, Moving
<1>6. Filed
  BY CollectionAssumption DEF Filed, NothingVanishes
<1>7. (\A h \in history : Arrives(h.holds)) /\ Once
  BY <1>3 DEF Once, HasRecords, Handed
<1> QED BY <1>4, <1>5, <1>6, <1>7 DEF Inv

-----------------------------------------------------------------------------
(* Enter begins a collection, or ends the cycle, of p alone.               *)
LEMMA Entering ==
  ASSUME Inv, NEW p \in Proc, NEW i \in Nat, Enter(p, i), UNCHANGED sources
  PROVE  /\ pc' \in [Proc -> {"down", "idle", "watching", "settling", "dead"} \cup InTurn]
         /\ turn' \in [Proc -> Nat] /\ w' \in [Proc -> Work]
         /\ \A q \in Proc \ {p} : pc'[q] = pc[q] /\ turn'[q] = turn[q] /\ w'[q] = w[q]
         /\ pc'[p] \in {"idle", "watching", "exists", "get"}
         /\ pc'[p] \in InTurn <=> turn'[p] \in DOMAIN sources[p]
         /\ w'[p].waited = 0 /\ w'[p].text = NoFile
         /\ pc'[p] = "get" => Paging(w'[p]) /\ ReadSoFar(w'[p], listing)
         /\ pc'[p] # "get" => w'[p].what = ""
<1> USE DEF Inv
<1>1. CASE i \notin DOMAIN sources[p]
  <2>1. /\ turn' = [turn EXCEPT ![p] = 0] /\ pc' = [pc EXCEPT ![p] = Rest(p)]
        /\ w' = [w EXCEPT ![p] = NoWork]
    BY <1>1 DEF Enter, Goto, Keep
  <2>2. Rest(p) \in {"idle", "watching"} /\ 0 \notin DOMAIN sources[p]
    BY DEF Rest, TypeOK
  <2> QED BY <2>1, <2>2, NoWorkIsWork DEF TypeOK, InTurn
<1>2. CASE i \in DOMAIN sources[p]
  <2>1. turn' = [turn EXCEPT ![p] = i] /\ sources[p][i] \in Collector
    BY <1>2 DEF Enter, TypeOK
  <2>2. CASE sources[p][i] = "capture"
    <3>1. pc' = [pc EXCEPT ![p] = "exists"] /\ w' = [w EXCEPT ![p] = NoWork]
      BY <1>2, <2>2 DEF Enter, Goto, Keep
    <3> QED BY <1>2, <2>1, <3>1, NoWorkIsWork DEF TypeOK, InTurn
  <2>3. CASE sources[p][i] = "api-football"
    <3> DEFINE x == [NoWork EXCEPT !.what = "fixtures", !.page = 1,
                      !.promised = Range(listing.fixtures) \cap Range(listing.priced)]
    <3>1. pc' = [pc EXCEPT ![p] = "get"] /\ w' = [w EXCEPT ![p] = x]
      BY <1>2, <2>3 DEF Enter, Goto, Keep
    <3>2. listing.fixtures \in Seq(Fixtures) /\ Range(listing.fixtures) \subseteq Fixtures
      BY DEF TypeOK, Listing, Range
    <3>3. /\ x \in Work /\ x.what = "fixtures" /\ x.page = 1 /\ x.text = NoFile /\ x.waited = 0
          /\ x.attempt = 0
          /\ x.promised = Range(listing.fixtures) \cap Range(listing.priced)
      <4>1. x \in Work
        <5>1. 1 \in 0 .. MaxPages
          BY CollectionAssumption
        <5>2. \A P \in SUBSET Fixtures :
                [NoWork EXCEPT !.what = "fixtures", !.page = 1, !.promised = P] \in Work
          BY <5>1, NoWorkIsWork DEF Work
        <5> QED BY <3>2, <5>2
      <4> QED BY <4>1 DEF NoWork
    <3> HIDE DEF x
    <3>4. Paging(x)
      BY <3>3, Products, CollectionAssumption DEF Paging, Answered
    <3>5. ReadSoFar(x, listing)
      BY <3>2, <3>3, Pages DEF ReadSoFar, Covered, Range
    <3> QED BY <1>2, <2>1, <3>1, <3>3, <3>4, <3>5 DEF TypeOK, InTurn
  <2>4. CASE sources[p][i] = "meridianbet-http"
    <3> DEFINE x == [NoWork EXCEPT !.what = "token"]
    <3>1. pc' = [pc EXCEPT ![p] = "get"] /\ w' = [w EXCEPT ![p] = x]
      BY <1>2, <2>4 DEF Enter, Goto, Keep
    <3>2. /\ x \in Work /\ x.what = "token" /\ x.text = NoFile /\ x.waited = 0 /\ x.attempt = 0
      <4>1. x \in Work
        BY NoWorkIsWork DEF Work
      <4> QED BY <4>1 DEF NoWork
    <3> HIDE DEF x
    <3>3. Paging(x) /\ ReadSoFar(x, listing)
      BY <3>2, Products, CollectionAssumption DEF Paging, Answered, ReadSoFar
    <3> QED BY <1>2, <2>1, <3>1, <3>2, <3>3 DEF TypeOK, InTurn
  <2> QED BY <2>1, <2>2, <2>3, <2>4 DEF Collector
<1> QED BY <1>1, <1>2

(* Where the files do not change and nobody gets records, Once stays.      *)
LEMMA OnceStays ==
  ASSUME Inv, UNCHANGED <<history, stored, rejected, met>>,
         \A q \in Proc : HasRecords(q)' => HasRecords(q) /\ w'[q] = w[q]
  PROVE  Calm' => Once'
<1> SUFFICES ASSUME Calm' PROVE Once'
  OBVIOUS
<1>1. Once
  BY DEF Inv, Calm
<1>2. \A q \in Proc : HasRecords(q)' => Handed(w[q].text.n)' = 0 /\ InHistory(w[q].text.n)'
  BY <1>1 DEF Once, Handed, InHistory
<1>3. \A q, r \in Proc :
        HasRecords(q)' /\ HasRecords(r)' /\ w'[q].text.n = w'[r].text.n => q = r
  BY <1>1 DEF Once
<1>4. \A n \in Capture : Handed(n)' <= 1 /\ (Handed(n)' # 0 => InHistory(n)')
  BY <1>1 DEF Once, Handed, InHistory
<1> QED BY <1>2, <1>3, <1>4 DEF Once

(* A step of p that leaves the files alone, and p away from the slot and   *)
(* without records of a capture.                                           *)
LEMMA Elsewhere ==
  ASSUME Inv, TypeOK', NEW p \in Proc, UNCHANGED <<files, killed, listing>>, pc[p] # "store",
         \A q \in Proc \ {p} : pc'[q] = pc[q] /\ w'[q] = w[q],
         pc'[p] \notin {"stat", "read", "archive"},
         pc'[p] = "store" => w'[p].text = NoFile /\ w'[p].waited <= Longest /\ Whole(w'[p]),
         pc'[p] = "get" => Paging(w'[p]) /\ ReadSoFar(w'[p], listing),
         pc'[p] \notin {"get", "store"} => w'[p].what = ""
  PROVE  Inv'
<1> USE DEF Inv, files
<1>1. \A q \in Proc : Local(q)'
  <2>1. Local(p)'
    BY DEF Local, Moving
  <2>2. ASSUME NEW q \in Proc \ {p}
        PROVE  Local(q)'
    BY <2>2 DEF Local, Moving
  <2> QED BY <2>1, <2>2
<1>2. Filed'
  BY DEF Filed, NothingVanishes
<1>3. \A h \in history' : Arrives(h.holds)'
  BY DEF Arrives, Handed
<1>4. Calm' => Once'
  <2>1. \A q \in Proc : HasRecords(q)' => HasRecords(q) /\ w'[q] = w[q]
    BY DEF HasRecords
  <2> QED BY <2>1, OnceStays
<1> QED BY <1>1, <1>2, <1>3, <1>4

LEMMA EnterInv ==
  ASSUME Inv, NEW p \in Proc, NEW i \in Nat, Enter(p, i), pc[p] # "store",
         UNCHANGED <<sources, files, killed, provider, crashes>>
  PROVE  Inv'
<1> USE DEF Inv, files, provider
<1>1. /\ pc' \in [Proc -> {"down", "idle", "watching", "settling", "dead"} \cup InTurn]
      /\ turn' \in [Proc -> Nat] /\ w' \in [Proc -> Work]
      /\ \A q \in Proc \ {p} : pc'[q] = pc[q] /\ turn'[q] = turn[q] /\ w'[q] = w[q]
      /\ pc'[p] \in {"idle", "watching", "exists", "get"}
      /\ pc'[p] \in InTurn <=> turn'[p] \in DOMAIN sources[p]
      /\ w'[p].waited = 0 /\ w'[p].text = NoFile
      /\ pc'[p] = "get" => Paging(w'[p]) /\ ReadSoFar(w'[p], listing)
      /\ pc'[p] # "get" => w'[p].what = ""
  BY Entering
<1>2. TypeOK'
  BY <1>1 DEF TypeOK
<1> QED BY <1>1, <1>2, Elsewhere

LEMMA RaisesInv ==
  ASSUME Inv, NEW p \in Proc, Raises(p), pc[p] # "store",
         UNCHANGED <<sources, files, killed, provider, crashes>>
  PROVE  Inv'
<1>1. turn[p] + 1 \in Nat /\ Enter(p, turn[p] + 1)
  BY DEF Inv, TypeOK, Raises
<1> QED BY <1>1, EnterInv

-----------------------------------------------------------------------------
(* Turning pages.                                                          *)

(* p has asked for one page and goes on with x.                            *)
LEMMA GoesOn ==
  ASSUME Inv, NEW p \in Proc, pc[p] = "get", NEW x \in Work, Keep(p, x),
         Paging(x), ReadSoFar(x, listing),
         UNCHANGED <<sources, pc, turn, files, killed, provider, crashes>>
  PROVE  Inv'
<1> USE DEF Inv, files, provider
<1>1. w' = [w EXCEPT ![p] = x] /\ w'[p] = x /\ \A q \in Proc \ {p} : w'[q] = w[q]
  BY DEF Keep, TypeOK
<1>2. TypeOK'
  BY <1>1 DEF TypeOK
<1> QED BY <1>1, <1>2, Elsewhere

(* p has all it is going to get, x.                                        *)
LEMMA HasAll ==
  ASSUME Inv, NEW p \in Proc, pc[p] = "get", NEW x \in Work, Keep(p, x), Goto(p, "store"),
         x.text = NoFile, x.waited <= Longest, Whole(x),
         UNCHANGED <<sources, turn, files, killed, provider, crashes>>
  PROVE  Inv'
<1> USE DEF Inv, files, provider
<1>1. /\ w' = [w EXCEPT ![p] = x] /\ w'[p] = x /\ \A q \in Proc \ {p} : w'[q] = w[q]
      /\ pc' = [pc EXCEPT ![p] = "store"] /\ pc'[p] = "store"
      /\ \A q \in Proc \ {p} : pc'[q] = pc[q]
  BY DEF Keep, Goto, TypeOK
<1>2. TypeOK'
  BY <1>1 DEF TypeOK, InTurn
<1> QED BY <1>1, <1>2, Elsewhere

(* What a page that came leaves: one more answer.                          *)
LEMMA OneMoreAnswer ==
  ASSUME NEW x \in Work, Paging(x)
  PROVE  /\ Answered(x) \in Nat /\ x.page \in Nat
         /\ x.waited <= (Answered(x) + 1) * Retries
         /\ (Answered(x) + 1) * Retries <= Longest
<1>1. /\ x.page \in 0 .. MaxPages /\ MaxPages \in Nat \ {0} /\ x.waited \in Nat
      /\ x.attempt \in 0 .. MaxAttempts - 1
  BY CollectionAssumption DEF Work
<1>2. Answered(x) \in Nat /\ Answered(x) + 1 <= 2 * MaxPages + 1
  BY <1>1 DEF Answered, Paging
<1>3. x.attempt * MaxDelay <= Retries /\ x.attempt * MaxDelay \in Nat /\ Retries \in Nat
  BY <1>1, Products
<1>4. /\ Answered(x) * Retries \in Nat
      /\ (Answered(x) + 1) * Retries = Answered(x) * Retries + Retries
  BY <1>2, Products
<1>5. (Answered(x) + 1) * Retries <= Longest
  <2>1. Answered(x) + 1 \in Nat /\ 2 * MaxPages + 1 \in Nat
    BY <1>1, <1>2
  <2> QED BY <1>2, <2>1, Products DEF Longest
<1> QED BY <1>1, <1>2, <1>3, <1>4, <1>5 DEF Paging

(* The endpoint is over after page x.page, which x has.                    *)
LEMMA EndsWell ==
  ASSUME Inv, NEW p \in Proc, pc[p] = "get", NEW x \in Work, EndOfEndpoint(p, x),
         x.what \in {"fixtures", "odds", "offer"}, x.text = NoFile,
         Answered(x) \in Nat, x.waited <= (Answered(x) + 1) * Retries,
         (Answered(x) + 1) * Retries <= Longest,
         ~ x.shifted /\ x.what = "fixtures" => x.promised \subseteq Range(listing.priced),
         ~ x.shifted /\ x.what = "fixtures" /\ x.capped = {} => x.promised \subseteq x.known,
         ~ x.shifted /\ x.what = "odds" /\ x.capped = {} =>
           x.promised \subseteq x.known \cap x.odds,
         UNCHANGED <<sources, files, killed, provider, crashes>>
  PROVE  Inv'
<1>t. x.page \in 0 .. MaxPages /\ x.waited \in Nat /\ MaxPages \in Nat \ {0}
  BY CollectionAssumption DEF Work
<1>1. CASE x.what = "fixtures"
  <2> DEFINE y == [x EXCEPT !.what = "odds", !.page = 1, !.attempt = 0]
  <2>1. Keep(p, y) /\ UNCHANGED <<pc, turn>>
    BY <1>1 DEF EndOfEndpoint
  <2>2. /\ y \in Work /\ y.what = "odds" /\ y.page = 1 /\ y.attempt = 0 /\ y.text = NoFile
        /\ y.waited = x.waited /\ y.shifted = x.shifted /\ y.promised = x.promised
        /\ y.known = x.known /\ y.capped = x.capped
    <3>1. 1 \in 0 .. MaxPages /\ 0 \in 0 .. MaxAttempts - 1
      BY CollectionAssumption
    <3> QED BY <3>1 DEF Work
  <2> HIDE DEF y
  <2>3. Paging(y)
    <3>1. Answered(x) + 1 <= Answered(y) /\ Answered(x) + 1 \in Nat /\ Answered(y) \in Nat
      BY <1>t, <1>1, <2>2 DEF Answered
    <3>2. (Answered(x) + 1) * Retries <= Answered(y) * Retries
          /\ (Answered(x) + 1) * Retries \in Nat /\ Answered(y) * Retries \in Nat
      BY <3>1, Products
    <3>3. y.attempt * MaxDelay = 0
      BY <2>2, CollectionAssumption
    <3> QED BY <1>t, <2>2, <3>2, <3>3 DEF Paging
  <2>4. ReadSoFar(y, listing)
    <3>1. listing.priced \in Seq(Fixtures)
      BY DEF Inv, TypeOK, Listing
    <3> QED BY <1>1, <2>2, <3>1, Pages DEF ReadSoFar, Covered, Range
  <2> QED BY <2>1, <2>2, <2>3, <2>4, GoesOn
<1>2. CASE x.what # "fixtures"
  <2> DEFINE y == [x EXCEPT !.result = Records(x), !.complete = Complete(x),
                            !.known = {}, !.odds = {}]
  <2>1. Keep(p, y) /\ Goto(p, "store") /\ UNCHANGED turn
    BY <1>2 DEF EndOfEndpoint
  <2>2. Records(x) \in SUBSET Fixtures /\ Complete(x) \in BOOLEAN
    BY DEF Records, Complete, Work
  <2>3. /\ y \in Work /\ y.what = x.what /\ y.text = NoFile /\ y.waited = x.waited
        /\ y.shifted = x.shifted /\ y.promised = x.promised
        /\ y.result = Records(x) /\ (y.complete <=> x.capped = {})
    BY <2>2 DEF Work, Complete
  <2> HIDE DEF y
  <2>4. Whole(y)
    BY <2>3 DEF Whole, Records
  <2>5. y.waited <= Longest
    <3>1. (Answered(x) + 1) * Retries \in Nat /\ Longest \in Nat
      BY Products
    <3> QED BY <1>t, <2>3, <3>1
  <2> QED BY <2>1, <2>3, <2>4, <2>5, HasAll
<1> QED BY <1>1, <1>2

(* Another page follows page x.page, which x has.                          *)
LEMMA NextPageInv ==
  ASSUME Inv, NEW p \in Proc, pc[p] = "get", NEW x \in Work, NextPage(p, x),
         x.what \in {"fixtures", "odds", "offer"}, x.text = NoFile, x.attempt = 0,
         Answered(x) \in Nat, x.waited <= (Answered(x) + 1) * Retries,
         ~ x.shifted /\ x.what = "fixtures" =>
           Covered(listing.fixtures, x, x.page + 1, x.known)
           /\ x.promised \subseteq Range(listing.priced),
         ~ x.shifted /\ x.what = "odds" =>
           Covered(listing.priced, x, x.page + 1, x.odds)
           /\ (x.capped = {} => x.promised \subseteq x.known),
         UNCHANGED <<sources, files, killed, provider, crashes>>
  PROVE  Inv'
<1>t. x.page \in 0 .. MaxPages /\ x.waited \in Nat /\ MaxPages \in Nat \ {0}
  BY CollectionAssumption DEF Work
<1>1. CASE x.page + 1 > MaxPages
  BY <1>1, RaisesInv DEF NextPage
<1>2. CASE ~ (x.page + 1 > MaxPages)
  <2> DEFINE y == [x EXCEPT !.page = @ + 1]
  <2>1. Keep(p, y) /\ UNCHANGED <<pc, turn>>
    BY <1>2 DEF NextPage
  <2>2. /\ y \in Work /\ y.what = x.what /\ y.page = x.page + 1 /\ y.attempt = 0
        /\ y.text = NoFile /\ y.waited = x.waited /\ y.shifted = x.shifted
        /\ y.promised = x.promised /\ y.known = x.known /\ y.odds = x.odds /\ y.capped = x.capped
    <3>1. x.page + 1 \in 0 .. MaxPages
      BY <1>t, <1>2
    <3> QED BY <3>1 DEF Work
  <2> HIDE DEF y
  <2>3. Answered(y) = Answered(x) + 1
    BY <1>t, <2>2 DEF Answered
  <2>4. y.attempt * MaxDelay = 0 /\ (Answered(x) + 1) * Retries \in Nat
    BY <2>2, CollectionAssumption, Products
  <2>5. Paging(y)
    BY <1>t, <2>2, <2>3, <2>4 DEF Paging
  <2>6. ReadSoFar(y, listing)
    BY <2>2 DEF ReadSoFar, Covered
  <2> QED BY <2>1, <2>2, <2>5, <2>6, GoesOn
<1> QED BY <1>1, <1>2


LEMMA MergedIsWork ==
  ASSUME NEW x \in Work, NEW items \in SUBSET Fixtures
  PROVE  LET y == Merged(x, items) IN
         /\ y \in Work /\ y.attempt = 0
         /\ y.what = x.what /\ y.page = x.page /\ y.text = x.text /\ y.waited = x.waited
         /\ y.shifted = x.shifted /\ y.promised = x.promised /\ y.capped = x.capped
         /\ y.known = IF x.what = "fixtures" THEN x.known \cup items ELSE x.known
         /\ y.odds = IF x.what = "fixtures" THEN x.odds ELSE x.odds \cup items
<1>1. 0 \in 0 .. MaxAttempts - 1
  BY CollectionAssumption
<1> QED BY <1>1 DEF Merged, Work

(* A page read in its turn covers one page more; and with the last one     *)
(* everything promised is got.                                             *)
LEMMA OnePageMore ==
  ASSUME NEW s \in Seq(Fixtures), NEW x \in Work, NEW got, Covered(s, x, x.page, got)
  PROVE  LET more == got \cup ItemsOf(s, x.page - 1) IN
         /\ Covered(s, x, x.page + 1, more)
         /\ x.page >= PagesOf(s) => x.promised \subseteq more
<1> DEFINE more == got \cup ItemsOf(s, x.page - 1)
<1>1. x.page \in Nat /\ PagesOf(s) \in Nat
  <2>1. x.page \in 0 .. MaxPages /\ MaxPages \in Nat
    BY CollectionAssumption DEF Work
  <2>2. x.page \in Nat
    BY <2>1
  <2> QED BY <2>2, Pages
<1>2. ASSUME NEW f \in x.promised
      PROVE  \E i \in DOMAIN s : /\ s[i] = f
                                 /\ (i - 1) \div PageSize < x.page => f \in more
  <2>1. PICK i \in DOMAIN s : s[i] = f /\ ((i - 1) \div PageSize < x.page - 1 => f \in got)
    BY <1>2 DEF Covered
  <2>2. (i - 1) \div PageSize \in Nat
    BY Pages
  <2>3. (i - 1) \div PageSize = x.page - 1 => f \in ItemsOf(s, x.page - 1)
    BY <2>1 DEF ItemsOf
  <2> QED BY <1>1, <2>1, <2>2, <2>3
<1>3. (x.page + 1) - 1 = x.page
  BY <1>1
<1>4. Covered(s, x, x.page + 1, more)
  <2>1. \A i : (i - 1) \div PageSize < (x.page + 1) - 1 <=> (i - 1) \div PageSize < x.page
    BY <1>3
  <2> HIDE DEF more
  <2>2. ASSUME NEW f \in x.promised
        PROVE  \E i \in DOMAIN s : s[i] = f /\ ((i - 1) \div PageSize < (x.page + 1) - 1 => f \in more)
    BY <1>2, <2>1, <2>2
  <2> QED BY <2>2 DEF Covered
<1>5. ASSUME x.page >= PagesOf(s), NEW f \in x.promised
      PROVE  f \in more
  <2>1. PICK i \in DOMAIN s : s[i] = f /\ ((i - 1) \div PageSize < x.page => f \in more)
    BY <1>2, <1>5
  <2>2. (i - 1) \div PageSize \in Nat /\ (i - 1) \div PageSize < PagesOf(s)
    BY Pages
  <2> QED BY <1>1, <1>5, <2>1, <2>2
<1> QED BY <1>4, <1>5

LEMMA ApiPageInv ==
  ASSUME Inv, NEW p \in Proc, ApiPage(p)
  PROVE  Inv'
<1> USE DEF Inv
<1> DEFINE x == w[p]
           s == ListingOf(x.what)
           y == Merged(x, ItemsOf(s, x.page - 1))
<1>1. /\ pc[p] = "get" /\ x.what \in {"fixtures", "odds"}
      /\ IF x.page > plan.limit
         THEN IF x.page = 1 THEN Raises(p)
              ELSE EndOfEndpoint(p, [x EXCEPT !.capped = @ \cup {x.what}])
         ELSE IF x.page >= Total(s, x.page) THEN EndOfEndpoint(p, y) ELSE NextPage(p, y)
      /\ UNCHANGED <<sources, files, killed, provider, crashes>>
  BY DEF ApiPage
<1>2. x \in Work /\ Paging(x) /\ ReadSoFar(x, listing) /\ s \in Seq(Fixtures)
  BY <1>1 DEF TypeOK, Local, ListingOf, Listing
<1>3. s = IF x.what = "fixtures" THEN listing.fixtures ELSE listing.priced
  BY DEF ListingOf
<1> HIDE DEF x, s
<1>4. /\ Answered(x) \in Nat /\ x.page \in Nat
      /\ x.waited <= (Answered(x) + 1) * Retries
      /\ (Answered(x) + 1) * Retries <= Longest
  BY <1>2, OneMoreAnswer
<1>5. /\ y \in Work /\ y.attempt = 0
      /\ y.what = x.what /\ y.page = x.page /\ y.text = x.text /\ y.waited = x.waited
      /\ y.shifted = x.shifted /\ y.promised = x.promised /\ y.capped = x.capped
      /\ x.what = "fixtures" => y.known = x.known \cup ItemsOf(s, x.page - 1)
      /\ x.what = "odds" => y.known = x.known /\ y.odds = x.odds \cup ItemsOf(s, x.page - 1)
  <2>1. ItemsOf(s, x.page - 1) \in SUBSET Fixtures
    BY <1>2, Pages
  <2> QED BY <1>2, <2>1, MergedIsWork
<1> HIDE DEF y
<1>6. Answered(y) = Answered(x) /\ y.text = NoFile
  BY <1>2, <1>5 DEF Answered, Paging
<1>7. ~ y.shifted /\ y.what = "fixtures" =>
        /\ Covered(listing.fixtures, y, y.page + 1, y.known)
        /\ y.promised \subseteq Range(listing.priced)
        /\ y.page >= PagesOf(s) => y.promised \subseteq y.known
  BY <1>2, <1>3, <1>5, OnePageMore DEF ReadSoFar, Covered
<1>8. ~ y.shifted /\ y.what = "odds" =>
        /\ Covered(listing.priced, y, y.page + 1, y.odds)
        /\ y.capped = {} => y.promised \subseteq y.known
        /\ y.page >= PagesOf(s) => y.promised \subseteq y.odds
  BY <1>2, <1>3, <1>5, OnePageMore DEF ReadSoFar, Covered
<1>9. CASE x.page > plan.limit
  <2> DEFINE z == [x EXCEPT !.capped = @ \cup {x.what}]
  <2>1. Raises(p) \/ EndOfEndpoint(p, z)
    BY <1>1, <1>9
  <2>2. /\ z \in Work /\ z.capped # {} /\ z.what = x.what /\ z.page = x.page
        /\ z.text = x.text /\ z.waited = x.waited
        /\ z.shifted = x.shifted /\ z.promised = x.promised
    BY <1>1, <1>2 DEF Work
  <2> HIDE DEF z
  <2>3. Answered(z) = Answered(x) /\ z.text = NoFile
    BY <1>2, <2>2 DEF Answered, Paging
  <2>4. ~ z.shifted /\ z.what = "fixtures" => z.promised \subseteq Range(listing.priced)
    BY <1>2, <2>2 DEF ReadSoFar
  <2>5. EndOfEndpoint(p, z) => Inv'
    BY <1>1, <1>4, <2>2, <2>3, <2>4, EndsWell
  <2>6. Raises(p) => Inv'
    BY <1>1, RaisesInv
  <2> QED BY <2>1, <2>5, <2>6
<1>10. CASE ~ (x.page > plan.limit) /\ x.page >= Total(s, x.page)
  <2>1. EndOfEndpoint(p, y)
    BY <1>1, <1>10
  <2>2. y.page >= PagesOf(s)
    BY <1>4, <1>5, <1>10 DEF Total
  <2> QED BY <1>1, <1>4, <1>5, <1>6, <1>7, <1>8, <2>1, <2>2, EndsWell
<1>11. CASE ~ (x.page > plan.limit) /\ ~ (x.page >= Total(s, x.page))
  <2>1. NextPage(p, y)
    BY <1>1, <1>11
  <2> QED BY <1>1, <1>4, <1>5, <1>6, <1>7, <1>8, <2>1, NextPageInv
<1> QED BY <1>9, <1>10, <1>11

LEMMA OfferPageInv ==
  ASSUME Inv, NEW p \in Proc, OfferPage(p)
  PROVE  Inv'
<1> USE DEF Inv
<1> DEFINE x == w[p]
<1>1. /\ pc[p] = "get" /\ x.what = "offer"
      /\ UNCHANGED <<sources, files, killed, provider, crashes>>
  BY DEF OfferPage
<1>2. PICK items \in {{}, IF plan.ends THEN ItemsOf(listing.priced, x.page) ELSE Fixtures} :
        IF items # {} THEN NextPage(p, Merged(x, items))
        ELSE IF x.page = 0 THEN Raises(p)
        ELSE EndOfEndpoint(p, x)
  BY DEF OfferPage
<1>3. x \in Work /\ Paging(x) /\ listing.priced \in Seq(Fixtures)
  BY <1>1 DEF TypeOK, Local, Listing
<1>4. items \in SUBSET Fixtures
  BY <1>3, Pages
<1> DEFINE y == Merged(x, items)
<1> HIDE DEF x
<1>5. /\ Answered(x) \in Nat
      /\ x.waited <= (Answered(x) + 1) * Retries
      /\ (Answered(x) + 1) * Retries <= Longest
  BY <1>3, OneMoreAnswer
<1>6. /\ y \in Work /\ y.attempt = 0 /\ y.what = x.what /\ y.page = x.page /\ y.text = x.text
      /\ y.waited = x.waited
  BY <1>3, <1>4, MergedIsWork
<1>7. NextPage(p, y) \/ Raises(p) \/ EndOfEndpoint(p, x)
  BY <1>2
<1> HIDE DEF y
<1>8. Answered(y) = Answered(x) /\ y.text = NoFile /\ x.text = NoFile
  BY <1>3, <1>6 DEF Answered, Paging
<1>9. CASE NextPage(p, y)
  BY <1>1, <1>5, <1>6, <1>8, <1>9, NextPageInv
<1>10. CASE Raises(p)
  BY <1>1, <1>10, RaisesInv
<1>11. CASE EndOfEndpoint(p, x)
  BY <1>1, <1>3, <1>5, <1>8, <1>11, EndsWell
<1> QED BY <1>7, <1>9, <1>10, <1>11

(* A server's Retry-After is clamped.                                      *)
LEMMA Clamped == \A x, after : Delay(x, after) \in 0 .. MaxDelay
BY CollectionAssumption DEF Delay

LEMMA GetFailsInv ==
  ASSUME Inv, NEW p \in Proc, GetFails(p)
  PROVE  Inv'
<1> USE DEF Inv
<1>g. /\ pc[p] = "get" /\ UNCHANGED <<sources, files, killed, provider, crashes>>
      /\ IF GivesUp(w[p]) THEN Raises(p)
         ELSE /\ \E after \in Headers :
                   Keep(p, [w[p] EXCEPT !.attempt = @ + 1, !.waited = @ + Delay(w[p], after)])
              /\ UNCHANGED <<pc, turn>>
  BY DEF GetFails
<1>1. CASE GivesUp(w[p])
  BY <1>g, <1>1, RaisesInv
<1>2. CASE ~ GivesUp(w[p])
  <2>1. PICK after \in Headers :
          Keep(p, [w[p] EXCEPT !.attempt = @ + 1, !.waited = @ + Delay(w[p], after)])
    BY <1>g, <1>2
  <2> DEFINE x == w[p]
             d == Delay(x, after)
             y == [x EXCEPT !.attempt = @ + 1, !.waited = @ + d]
  <2>2. d \in 0 .. MaxDelay /\ MaxDelay \in Nat
    BY Clamped, CollectionAssumption
  <2>3. x \in Work /\ Paging(x) /\ ReadSoFar(x, listing) /\ x.attempt # MaxAttempts - 1
    BY <1>g, <1>2 DEF TypeOK, Local, GivesUp
  <2>4. Keep(p, y)
    BY <2>1
  <2> HIDE DEF x, d
  <2>5. /\ y \in Work /\ y.attempt = x.attempt + 1 /\ y.waited = x.waited + d
        /\ y.what = x.what /\ y.page = x.page /\ y.text = x.text /\ y.shifted = x.shifted
        /\ y.promised = x.promised /\ y.known = x.known /\ y.odds = x.odds /\ y.capped = x.capped
    <3>0. x.attempt \in 0 .. MaxAttempts - 1 /\ x.waited \in Nat
      BY <2>3 DEF Work
    <3>1. x.attempt + 1 \in 0 .. MaxAttempts - 1 /\ x.waited + d \in Nat
      BY <2>2, <2>3, <3>0, CollectionAssumption
    <3> QED BY <2>3, <3>1 DEF Work
  <2> HIDE DEF y
  <2>6. Paging(y)
    <3>1. /\ Answered(x) \in Nat /\ Answered(y) = Answered(x)
          /\ Answered(x) * Retries \in Nat
      BY <2>3, <2>5, OneMoreAnswer, Products DEF Answered
    <3>a. x.attempt \in 0 .. MaxAttempts - 1
      BY <2>3 DEF Work
    <3>0. x.attempt \in Nat /\ x.attempt \in 0 .. MaxAttempts - 1
      BY <3>a, CollectionAssumption
    <3>2. /\ x.attempt \in Nat /\ x.attempt * MaxDelay \in Nat
          /\ (x.attempt + 1) * MaxDelay = x.attempt * MaxDelay + MaxDelay
      BY <3>0, Products
    <3>3. x.waited \in Nat
      BY <2>3 DEF Work
    <3>4. x.waited <= Answered(x) * Retries + x.attempt * MaxDelay
      BY <2>3 DEF Paging
    <3>5. x.waited + d <= Answered(x) * Retries + (x.attempt + 1) * MaxDelay
      BY <2>2, <3>1, <3>2, <3>3, <3>4
    <3> QED BY <2>3, <2>5, <3>1, <3>5 DEF Paging
  <2>7. ReadSoFar(y, listing)
    BY <2>3, <2>5 DEF ReadSoFar, Covered
  <2> QED BY <1>g, <1>2, <2>4, <2>5, <2>6, <2>7, GoesOn
<1> QED BY <1>1, <1>2

LEMMA TokenInv ==
  ASSUME Inv, NEW p \in Proc, Token(p)
  PROVE  Inv'
<1> USE DEF Inv, Token
<1> DEFINE x == w[p]
           y == [x EXCEPT !.what = "offer", !.attempt = 0]
<1>1. x \in Work /\ Paging(x) /\ x.what = "token"
  BY DEF TypeOK, Local
<1>2. Keep(p, y)
  OBVIOUS
<1> HIDE DEF x
<1>3. /\ y \in Work /\ y.what = "offer" /\ y.attempt = 0 /\ y.page = x.page /\ y.text = x.text
      /\ y.waited = x.waited
  <2>1. 0 \in 0 .. MaxAttempts - 1
    BY CollectionAssumption
  <2> QED BY <1>1, <2>1 DEF Work
<1> HIDE DEF y
<1>4. Paging(y)
  <2>1. /\ x.waited <= (Answered(x) + 1) * Retries /\ Answered(x) + 1 = 1
        /\ Answered(y) \in Nat /\ 1 <= Answered(y) /\ x.waited \in Nat
    <3>1. Answered(x) = 0 /\ Answered(y) = y.page + 1 /\ x.waited \in Nat
      BY <1>1, <1>3 DEF Answered, Work
    <3>a. y.page \in 0 .. MaxPages /\ MaxPages \in Nat
      BY <1>3, CollectionAssumption DEF Work
    <3>2. y.page \in Nat
      BY <3>a
    <3> QED BY <1>1, <3>1, <3>2, OneMoreAnswer
  <2>2. /\ 1 * Retries <= Answered(y) * Retries
        /\ 1 * Retries \in Nat /\ Answered(y) * Retries \in Nat
    BY <2>1, Products
  <2>3. y.attempt * MaxDelay = 0
    BY <1>3, CollectionAssumption
  <2> QED BY <1>1, <1>3, <2>1, <2>2, <2>3 DEF Paging
<1>5. ReadSoFar(y, listing)
  BY <1>3 DEF ReadSoFar
<1> QED BY <1>2, <1>3, <1>4, <1>5, GoesOn


-----------------------------------------------------------------------------
(* Everything else.                                                        *)

(* p has just found a capture, knows its stamp, or has read it.            *)
LEMMA AtTheSlot ==
  ASSUME Inv, TypeOK', NEW p \in Proc, slot # NoFile, UNCHANGED <<files, killed, listing>>,
         \A q \in Proc \ {p} : pc'[q] = pc[q] /\ w'[q] = w[q],
         pc[p] \notin {"get", "store"}, pc'[p] \in {"stat", "read", "archive"},
         w'[p].what = "",
         pc'[p] = "read" => w'[p].stamp = slot.at,
         pc'[p] = "archive" => /\ w'[p].text = slot
                               /\ w'[p].stamp = slot.at \/ "read" \in met[slot.n]
  PROVE  Inv'
<1> USE DEF Inv, files
<1>1. \A q \in Proc : Local(q)'
  <2>1. Local(p)'
    BY DEF Local, Moving
  <2>2. ASSUME NEW q \in Proc \ {p}
        PROVE  Local(q)'
    BY <2>2 DEF Local, Moving
  <2> QED BY <2>1, <2>2
<1>2. Filed'
  BY DEF Filed, NothingVanishes
<1>3. \A h \in history' : Arrives(h.holds)'
  BY DEF Arrives, Handed
<1>4. Calm' => Once'
  <2>1. \A q \in Proc : HasRecords(q)' => HasRecords(q) /\ w'[q] = w[q]
    BY DEF HasRecords
  <2> QED BY <2>1, OnceStays
<1> QED BY <1>1, <1>2, <1>3, <1>4

LEMMA SlotInv ==
  ASSUME Inv, NEW p \in Proc,
         FindCapture(p) \/ CaptureGone(p) \/ TakeStamp(p) \/ ReadCapture(p)
  PROVE  Inv'
<1> USE DEF Inv
<1>1. CASE FindCapture(p)
  <2> USE <1>1 DEF FindCapture
  <2>1. CASE slot = NoFile
    <3>1. turn[p] + 1 \in Nat
      BY DEF TypeOK
    <3> QED BY <2>1, <3>1, EnterInv
  <2>2. CASE slot # NoFile
    <3>1. /\ pc' = [pc EXCEPT ![p] = "stat"] /\ pc'[p] = "stat" /\ UNCHANGED <<turn, w>>
          /\ \A q \in Proc \ {p} : pc'[q] = pc[q]
      BY <2>2 DEF Goto, TypeOK
    <3>2. TypeOK'
      BY <3>1 DEF TypeOK, InTurn, files, provider
    <3>3. w[p].what = ""
      BY DEF Local
    <3> QED BY <2>2, <3>1, <3>2, <3>3, AtTheSlot DEF provider
  <2> QED BY <2>1, <2>2
<1>2. CASE CaptureGone(p)
  BY <1>2, RaisesInv DEF CaptureGone, AtSlot
<1>3. CASE TakeStamp(p)
  <2> USE <1>3 DEF TakeStamp
  <2> DEFINE x == [w[p] EXCEPT !.stamp = slot.at]
  <2>1. slot.at \in Nat
    BY NoFileIsNone DEF TypeOK
  <2>2. x \in Work /\ x.stamp = slot.at /\ x.what = w[p].what /\ x.waited = w[p].waited
    <3>1. w[p] \in Work
      BY DEF TypeOK
    <3> QED BY <2>1, <3>1 DEF Work
  <2>3. /\ pc' = [pc EXCEPT ![p] = "read"] /\ pc'[p] = "read"
        /\ w' = [w EXCEPT ![p] = x] /\ w'[p] = x
        /\ \A q \in Proc \ {p} : pc'[q] = pc[q] /\ w'[q] = w[q]
    BY DEF Goto, Keep, TypeOK
  <2> HIDE DEF x
  <2>4. TypeOK'
    BY <2>2, <2>3 DEF TypeOK, InTurn, files, provider
  <2>5. x.what = ""
    BY <2>2 DEF Local
  <2> QED BY <2>2, <2>3, <2>4, <2>5, AtTheSlot DEF provider
<1>4. CASE ReadCapture(p)
  <2> USE <1>4 DEF ReadCapture
  <2>1. CASE ~ (slot.whole /\ slot.valid)
    BY <2>1, RaisesInv
  <2>2. CASE slot.whole /\ slot.valid
    <3> DEFINE x == [w[p] EXCEPT !.text = slot]
    <3>1. x \in Work /\ x.stamp = w[p].stamp /\ x.what = w[p].what /\ x.waited = w[p].waited
          /\ x.text = slot
      <4>1. w[p] \in Work /\ slot \in File \cup {NoFile}
        BY DEF TypeOK
      <4> QED BY <4>1 DEF Work
    <3>2. /\ pc' = [pc EXCEPT ![p] = "archive"] /\ pc'[p] = "archive" /\ UNCHANGED turn
          /\ w' = [w EXCEPT ![p] = x] /\ w'[p] = x
          /\ \A q \in Proc \ {p} : pc'[q] = pc[q] /\ w'[q] = w[q]
      BY <2>2 DEF Goto, Keep, TypeOK
    <3> HIDE DEF x
    <3>3. TypeOK'
      BY <3>1, <3>2 DEF TypeOK, InTurn, files, provider
    <3>4. x.what = "" /\ (x.stamp = slot.at \/ "read" \in met[slot.n])
      BY <3>1 DEF Local, Moving
    <3> QED BY <3>1, <3>2, <3>3, <3>4, AtTheSlot DEF provider
  <2> QED BY <2>1, <2>2
<1> QED BY <1>1, <1>2, <1>3, <1>4

(* Path.replace: the capture leaves the slot for a name of its own.        *)
LEMMA ArchiveInv ==
  ASSUME Inv, NEW p \in Proc, Archive(p)
  PROVE  Inv'
<1> USE DEF Inv
<1> DEFINE h0 == [name |-> ArchiveName(p), holds |-> slot.n]
           x == [w[p] EXCEPT !.stamp = ObservedAt(p)]
<1>1. /\ pc[p] = "archive" /\ slot # NoFile /\ slot' = NoFile
      /\ history' = {h \in history : h.name # ArchiveName(p)} \cup {h0}
      /\ Goto(p, "store") /\ Keep(p, x)
      /\ UNCHANGED <<sources, turn, stored, rejected, dropped, overwritten, met, killed, provider,
                 crashes>>
  BY DEF Archive
<1>2. x = w[p]
  BY DEF TypeOK, Work, ObservedAt
<1>3. /\ pc' = [pc EXCEPT ![p] = "store"] /\ pc'[p] = "store" /\ w' = w
      /\ \A q \in Proc \ {p} : pc'[q] = pc[q]
  BY <1>1, <1>2 DEF Goto, Keep, TypeOK
<1>4. /\ slot.n \in Capture /\ slot.n = dropped /\ w[p].stamp \in Nat
      /\ IsFiniteSet(history) /\ Cardinality(history) \in Nat
  BY <1>1, NoFileIsNone, FS_CardinalityType DEF TypeOK, Filed, Work
<1>5. /\ h0.name = <<w[p].stamp, Cardinality(history) + 1>> /\ h0.holds = slot.n
      /\ h0.name[2] = Cardinality(history) + 1
      /\ h0 \in [name : Nat \X Nat, holds : Capture]
  BY <1>4 DEF ArchiveName
<1>6. \A h \in history : h.name[2] <= Cardinality(history) /\ h.name[2] \in Nat /\ h.holds \in Capture
  BY DEF Filed, TypeOK
<1>7. \A h \in history : h.name # ArchiveName(p)
  BY <1>4, <1>6 DEF ArchiveName
<1>8. history' = history \cup {h0} /\ h0 \notin history
  BY <1>1, <1>7
<1> HIDE DEF h0, x
<1>9. IsFiniteSet(history') /\ Cardinality(history') = Cardinality(history) + 1
  BY <1>4, <1>8, FS_AddElement
<1>10. TypeOK'
  BY <1>1, <1>3, <1>5, <1>8, <1>9 DEF TypeOK, InTurn, provider
<1>11. Filed'
  <2>1. NothingVanishes'
    BY <1>1, <1>5, <1>8 DEF Filed, NothingVanishes
  <2>2. \A h \in history' : h.holds <= dropped'
    BY <1>1, <1>4, <1>5, <1>8 DEF Filed, TypeOK
  <2>3. \A h \in history' : h.name[2] <= Cardinality(history')
    BY <1>4, <1>5, <1>6, <1>8, <1>9
  <2> QED BY <1>1, <2>1, <2>2, <2>3 DEF Filed
<1>12. \A q \in Proc : Local(q)'
  <2>1. Local(p)'
    <3>1. 0 <= Longest
      BY Products
    <3> QED BY <1>1, <1>3, <3>1 DEF Local, Moving, TypeOK, Whole, provider
  <2>2. ASSUME NEW q \in Proc \ {p}
        PROVE  Local(q)'
    BY <1>1, <1>3, <2>2 DEF Local, Moving, provider
  <2> QED BY <2>1, <2>2
<1>13. \A h \in history' : Arrives(h.holds)'
  <2>1. ASSUME NEW h \in history
        PROVE  Arrives(h.holds)'
    BY <1>1, <1>3, <2>1 DEF Arrives, Handed
  <2>2. ASSUME NEW h \in history', h.holds = slot.n
        PROVE  Arrives(h.holds)'
    <3>1. (w[p].text # NoFile /\ w[p].text.n = slot.n) \/ "archive" \in met[slot.n]
      BY <1>1 DEF Local, Moving
    <3>2. CASE w[p].text.n = slot.n
      BY <1>3, <2>2, <3>2 DEF Arrives
    <3>3. CASE "archive" \in met[slot.n]
      BY <1>1, <2>2, <3>3 DEF Arrives
    <3> QED BY <3>1, <3>2, <3>3
  <2> QED BY <1>5, <1>8, <2>1, <2>2
<1>14. ASSUME Calm'
       PROVE  Once'
  <2>1. Once /\ w[p].text.n = slot.n /\ w[p].text # NoFile
    BY <1>1, <1>4, <1>14 DEF Calm, Local, Moving
  <2>2. ~ InHistory(slot.n)
    BY <1>1 DEF Filed, InHistory
  <2>3. \E h \in history' : h.holds = w'[p].text.n
    BY <1>3, <1>5, <1>8, <2>1
  <2>5. Handed(slot.n) = 0
    BY <1>4, <2>1, <2>2 DEF Once
  <2>6. ASSUME NEW q \in Proc \ {p}, HasRecords(q)'
        PROVE  HasRecords(q) /\ w[q].text.n # slot.n
    <3>1. HasRecords(q)
      BY <1>3, <2>6 DEF HasRecords
    <3>2. InHistory(w[q].text.n)
      BY <2>1, <3>1 DEF Once
    <3> QED BY <2>2, <3>1, <3>2
  <2>7. ASSUME NEW q \in Proc, HasRecords(q)'
        PROVE  Handed(w[q].text.n)' = 0 /\ InHistory(w[q].text.n)'
    <3>1. CASE q = p
      <4>1. stored[slot.n] + rejected[slot.n] = 0 /\ w'[q].text.n = slot.n
        BY <1>3, <2>1, <2>5, <3>1 DEF Handed
      <4> QED BY <1>1, <2>3, <3>1, <4>1 DEF Handed, InHistory
    <3>2. CASE q # p
      <4>1. HasRecords(q) /\ Handed(w[q].text.n) = 0 /\ InHistory(w[q].text.n)
        BY <2>1, <2>6, <2>7, <3>2 DEF Once
      <4> QED BY <1>1, <1>3, <1>8, <4>1 DEF Handed, InHistory
    <3> QED BY <3>1, <3>2
  <2>8. \A q, r \in Proc :
          HasRecords(q)' /\ HasRecords(r)' /\ w'[q].text.n = w'[r].text.n => q = r
    BY <1>3, <2>1, <2>6 DEF Once
  <2>9. \A m \in Capture : Handed(m)' <= 1 /\ (Handed(m)' # 0 => InHistory(m)')
    BY <1>1, <1>8, <2>1 DEF Once, Handed, InHistory
  <2> QED BY <2>7, <2>8, <2>9 DEF Once
<1> QED BY <1>1, <1>10, <1>11, <1>12, <1>13, <1>14


(* Ingestion has stored or rejected what p brought.                        *)
LEMMA StoreInv ==
  ASSUME Inv, NEW p \in Proc, Store(p)
  PROVE  Inv'
<1> USE DEF Inv
<1> DEFINE n == w[p].text.n
           Counted(tally) == [m \in Capture |-> IF m = n THEN tally[m] + 1 ELSE tally[m]]
<1>1. /\ pc[p] = "store" /\ Enter(p, turn[p] + 1)
      /\ \/ stored' = Counted(stored) /\ rejected' = rejected
         \/ rejected' = Counted(rejected) /\ stored' = stored
      /\ UNCHANGED <<sources, slot, history, dropped, overwritten, met, killed, provider, crashes>>
  BY DEF Store
<1>2. /\ pc' \in [Proc -> {"down", "idle", "watching", "settling", "dead"} \cup InTurn]
      /\ turn' \in [Proc -> Nat] /\ w' \in [Proc -> Work]
      /\ \A q \in Proc \ {p} : pc'[q] = pc[q] /\ turn'[q] = turn[q] /\ w'[q] = w[q]
      /\ pc'[p] \in {"idle", "watching", "exists", "get"}
      /\ pc'[p] \in InTurn <=> turn'[p] \in DOMAIN sources[p]
      /\ w'[p].waited = 0 /\ w'[p].text = NoFile
      /\ pc'[p] = "get" => Paging(w'[p]) /\ ReadSoFar(w'[p], listing)
      /\ pc'[p] # "get" => w'[p].what = ""
  <2>1. turn[p] + 1 \in Nat
    BY DEF TypeOK
  <2> QED BY <1>1, <2>1, Entering
<1>3. /\ stored' \in [Capture -> Nat] /\ rejected' \in [Capture -> Nat]
      /\ \A m \in Capture : /\ Handed(m) \in Nat
                            /\ Handed(m)' = IF m = n THEN Handed(m) + 1 ELSE Handed(m)
  <2> HIDE DEF n
  <2>1. stored \in [Capture -> Nat] /\ rejected \in [Capture -> Nat]
    BY DEF TypeOK
  <2>2. CASE stored' = Counted(stored) /\ rejected' = rejected
    BY <2>1, <2>2 DEF Handed
  <2>3. CASE rejected' = Counted(rejected) /\ stored' = stored
    BY <2>1, <2>3 DEF Handed
  <2> QED BY <1>1, <2>2, <2>3
<1>4. TypeOK'
  BY <1>1, <1>2, <1>3 DEF TypeOK, provider
<1>5. \A q \in Proc : Local(q)'
  <2>1. Local(p)'
    BY <1>1, <1>2 DEF Local, Moving, provider
  <2>2. ASSUME NEW q \in Proc \ {p}
        PROVE  Local(q)'
    BY <1>1, <1>2, <2>2 DEF Local, Moving, provider
  <2> QED BY <2>1, <2>2
<1>6. Filed'
  BY <1>1 DEF Filed, NothingVanishes
<1>7. ASSUME NEW h \in history'
      PROVE  Arrives(h.holds)'
  <2>1. h \in history /\ h.holds \in Capture
    BY <1>1, <1>7 DEF TypeOK
  <2>2. CASE h.holds = n
    BY <1>3, <2>1, <2>2 DEF Arrives
  <2>3. CASE h.holds # n
    <3>1. Arrives(h.holds) /\ Handed(h.holds)' = Handed(h.holds)
      BY <1>3, <2>1, <2>3
    <3>2. CASE \E q \in Proc : pc[q] = "store" /\ w[q].text.n = h.holds
      <4>1. PICK q \in Proc : pc[q] = "store" /\ w[q].text.n = h.holds
        BY <3>2
      <4>2. q # p
        BY <2>3, <4>1
      <4> QED BY <1>2, <4>1, <4>2 DEF Arrives
    <3>3. CASE Handed(h.holds) # 0 \/ h.holds \in killed \/ "archive" \in met[h.holds]
      BY <1>1, <3>1, <3>3 DEF Arrives
    <3> QED BY <3>1, <3>2, <3>3 DEF Arrives
  <2> QED BY <2>2, <2>3
<1>8. ASSUME Calm'
      PROVE  Once'
  <2>1. Once
    BY <1>1, <1>8 DEF Calm
  <2>2. \A q \in Proc : HasRecords(q)' => HasRecords(q) /\ q # p /\ w'[q] = w[q]
    BY <1>2 DEF HasRecords
  <2>3. \A q \in Proc : HasRecords(q) => w[q].text.n \in Capture
    BY NoFileIsNone DEF HasRecords, TypeOK, Work
  <2>4. \A m : InHistory(m)' <=> InHistory(m)
    BY <1>1 DEF InHistory
  <2>5. n \in Capture => HasRecords(p) /\ Handed(n) = 0 /\ InHistory(n)
    BY <1>1, <2>1, NoFileIsNone DEF HasRecords, Once, Capture
  <2> HIDE DEF n
  <2>6. ASSUME NEW q \in Proc, HasRecords(q)'
        PROVE  Handed(w[q].text.n)' = 0 /\ InHistory(w[q].text.n)'
    <3> DEFINE m == w[q].text.n
    <3>1. HasRecords(q) /\ q # p /\ w'[q] = w[q] /\ m \in Capture
      BY <2>2, <2>3, <2>6
    <3>2. m # n
      BY <2>1, <2>5, <3>1 DEF Once, n
    <3>3. stored[m] + rejected[m] = 0 /\ (\E h \in history : h.holds = m)
      BY <2>1, <3>1 DEF Once, Handed, InHistory
    <3>4. stored'[m] = stored[m] /\ rejected'[m] = rejected[m]
      BY <1>1, <3>1, <3>2 DEF TypeOK
    <3> QED BY <1>1, <3>1, <3>3, <3>4 DEF Handed, InHistory
  <2>7. \A q, r \in Proc :
          HasRecords(q)' /\ HasRecords(r)' /\ w'[q].text.n = w'[r].text.n => q = r
    BY <2>1, <2>2 DEF Once
  <2>8. \A m \in Capture : Handed(m)' <= 1 /\ (Handed(m)' # 0 => InHistory(m)')
    BY <1>3, <2>1, <2>4, <2>5 DEF Once
  <2> QED BY <2>6, <2>7, <2>8 DEF Once
<1> QED BY <1>4, <1>5, <1>6, <1>7, <1>8

(* The human saves a capture, or goes on writing it.                       *)
LEMMA HumanInv ==
  ASSUME Inv, DropCapture \/ FinishWriting
  PROVE  Inv'
<1> USE DEF Inv
<1>1. /\ UNCHANGED <<sources, pc, turn, w, history, stored, rejected, killed, provider, crashes>>
      /\ dropped \in Nat
  <2>1. UNCHANGED <<sources, pc, turn, w, history, stored, rejected, killed, provider, crashes>>
    BY DEF DropCapture, FinishWriting, provider
  <2>2. dropped \in Nat
    BY CollectionAssumption DEF TypeOK
  <2> QED BY <2>1, <2>2
<1>2. slot' \in File /\ slot' # NoFile /\ slot'.n \in Capture /\ Meets(slot'.n)
  <2>1. CASE DropCapture
    <3>1. dropped + 1 \in Capture
      BY <2>1, CollectionAssumption DEF DropCapture, TypeOK, Capture
    <3>2. PICK at \in FileTimes, whole, valid \in BOOLEAN :
            slot' = [n |-> dropped + 1, at |-> at, whole |-> whole, valid |-> valid]
      BY <2>1 DEF DropCapture
    <3>3. at \in Nat
      BY CollectionAssumption
    <3>4. slot' \in File /\ slot'.n = dropped + 1
      BY <3>1, <3>2, <3>3 DEF File
    <3> QED BY <2>1, <3>1, <3>4, NoFileIsNone DEF DropCapture
  <2>2. CASE FinishWriting
    <3>1. slot \in File /\ FileTimes \subseteq Nat
      BY <2>2, CollectionAssumption DEF FinishWriting, TypeOK
    <3>2. slot' \in File /\ slot'.n = slot.n
      BY <2>2, <3>1 DEF FinishWriting, File
    <3> QED BY <2>2, <3>1, <3>2, NoFileIsNone DEF FinishWriting
  <2> QED BY <2>1, <2>2
<1>3. /\ met' \in [Capture -> SUBSET {"read", "archive"}]
      /\ \A m \in Capture : met[m] \subseteq met'[m]
      /\ \A q \in Proc : pc[q] \in {"read", "archive"} => pc[q] \in met'[slot'.n]
  BY <1>2 DEF Meets, TypeOK
<1>4. \A q \in Proc : Local(q)'
  <2> SUFFICES ASSUME NEW q \in Proc PROVE Local(q)'
    OBVIOUS
  <2>1. w[q].text # NoFile => w[q].text.n \in Capture
    BY NoFileIsNone DEF TypeOK, Work
  <2>2. Moving(q)'
    BY <1>1, <1>2, <1>3, <2>1 DEF Moving, Local
  <2> QED BY <1>1, <2>2 DEF Local, provider
<1>5. \A h \in history' : Arrives(h.holds)'
  <2>1. \A h \in history : h.holds \in Capture
    BY DEF TypeOK
  <2> QED BY <1>1, <1>3, <2>1 DEF Arrives, Handed
<1>6. Calm' => Once'
  <2>1. Calm' => Calm
    BY <1>3 DEF Calm
  <2>2. Once => Once'
    BY <1>1 DEF Once, HasRecords, InHistory, Handed
  <2> QED BY <2>1, <2>2
<1>7. CASE DropCapture
  <2>1. /\ dropped' = dropped + 1 /\ dropped' \in 0 .. MaxDrops
        /\ slot'.n = dropped + 1
        /\ overwritten' = IF slot = NoFile THEN overwritten ELSE overwritten \cup {slot.n}
    BY <1>7, CollectionAssumption DEF DropCapture, TypeOK
  <2>2. TypeOK'
    BY <1>1, <1>2, <1>3, <2>1, NoFileIsNone DEF TypeOK, provider
  <2>3. Filed'
    <3>1. ASSUME NEW h \in history
          PROVE  h.holds <= dropped' /\ h.holds # slot'.n /\ h.name[2] <= Cardinality(history')
      <4>1. h.holds <= dropped /\ h.holds \in Nat
        BY DEF Filed, TypeOK, Capture
      <4> QED BY <1>1, <2>1, <4>1 DEF Filed
    <3>2. NothingVanishes'
      <4> SUFFICES ASSUME NEW n \in 1 .. dropped'
                   PROVE  \/ n \in overwritten' \/ slot'.n = n \/ \E h \in history : h.holds = n
        BY <1>1, <1>2 DEF NothingVanishes
      <4>1. n \in 1 .. dropped \/ n = dropped + 1
        BY <1>1, <2>1
      <4> QED BY <2>1, <4>1 DEF Filed, NothingVanishes
    <3> QED BY <1>1, <1>2, <2>1, <3>1, <3>2 DEF Filed
  <2> QED BY <1>4, <1>5, <1>6, <2>2, <2>3
<1>8. CASE FinishWriting
  <2>1. /\ UNCHANGED <<dropped, overwritten>> /\ slot # NoFile /\ slot'.n = slot.n
    BY <1>8 DEF FinishWriting, TypeOK, File
  <2>2. TypeOK'
    BY <1>1, <1>2, <1>3, <2>1 DEF TypeOK, provider
  <2>3. Filed'
    BY <1>1, <1>2, <2>1 DEF Filed, NothingVanishes
  <2> QED BY <1>4, <1>5, <1>6, <2>2, <2>3
<1> QED BY <1>7, <1>8


(* A listing that gets longer covers what it covered.                      *)
LEMMA Grown ==
  ASSUME NEW s \in Seq(Fixtures), NEW f \in Fixtures, NEW x, NEW page, NEW got
  PROVE  /\ Covered(s, x, page, got) => Covered(Append(s, f), x, page, got)
         /\ Range(s) \subseteq Range(Append(s, f))
BY Listed DEF Covered, Range

LEMMA ProviderInv ==
  ASSUME Inv, NEW f \in Fixtures, Publish(f) \/ Withdraw(f)
  PROVE  Inv'
<1> USE DEF Inv
<1>1. /\ UNCHANGED <<sources, pc, turn, files, killed, plan, crashes>>
      /\ changes' = changes + 1 /\ changes' \in 0 .. MaxChanges
  <2>1. changes < MaxChanges /\ changes' = changes + 1
        /\ UNCHANGED <<sources, pc, turn, files, killed, plan, crashes>>
    BY DEF Publish, Withdraw, Change
  <2> QED BY <2>1, CollectionAssumption DEF TypeOK
<1>2. /\ listing.fixtures \in Seq(Fixtures) /\ listing.priced \in Seq(Fixtures)
  BY DEF TypeOK, Listing
<1>3. CASE Publish(f)
  <2>1. w' = w /\ listing' \in {[listing EXCEPT !.fixtures = Append(@, f)],
                                [listing EXCEPT !.priced = Append(@, f)]}
    BY <1>3 DEF Publish, Change
  <2>2. /\ listing' \in Listing
        /\ listing'.fixtures \in {listing.fixtures, Append(listing.fixtures, f)}
        /\ listing'.priced \in {listing.priced, Append(listing.priced, f)}
    <3>1. listing \in Listing /\ Append(listing.fixtures, f) \in Seq(Fixtures)
          /\ Append(listing.priced, f) \in Seq(Fixtures)
      BY <1>2, Listed DEF TypeOK
    <3> QED BY <2>1, <3>1 DEF Listing
  <2>3. TypeOK'
    BY <1>1, <2>1, <2>2 DEF TypeOK, files
  <2>4. ASSUME NEW q \in Proc
        PROVE  Local(q)'
    <3>1. ReadSoFar(w[q], listing) => ReadSoFar(w[q], listing')
      BY <1>2, <2>2, Grown DEF ReadSoFar
    <3> QED BY <1>1, <2>1, <3>1 DEF Local, Moving, files
  <2>5. Filed' /\ (\A h \in history' : Arrives(h.holds)') /\ (Calm' => Once')
    BY <1>1, <2>1 DEF Filed, NothingVanishes, files, Arrives, Handed, Calm, Once, HasRecords, InHistory
  <2> QED BY <1>1, <2>3, <2>4, <2>5
<1>4. CASE Withdraw(f)
  <2>1. /\ listing' = [fixtures |-> Without(listing.fixtures, f),
                       priced |-> Without(listing.priced, f)]
        /\ w' = [q \in Proc |-> IF pc[q] = "get" THEN [w[q] EXCEPT !.shifted = TRUE] ELSE w[q]]
    BY <1>4 DEF Withdraw, Change
  <2>2. listing' \in Listing
    BY <1>2, <2>1, Listed DEF Listing
  <2>3. ASSUME NEW q \in Proc
        PROVE  /\ w'[q] \in Work /\ w'[q].waited = w[q].waited
               /\ pc[q] # "get" => w'[q] = w[q]
               /\ pc[q] = "get" => /\ w'[q].shifted /\ (Paging(w[q]) => Paging(w'[q]))
    <3>1. w[q] \in Work
      BY DEF TypeOK
    <3>2. CASE pc[q] = "get"
      <4> DEFINE y == [w[q] EXCEPT !.shifted = TRUE]
      <4>1. /\ y \in Work /\ y.shifted = TRUE /\ y.waited = w[q].waited
            /\ y.what = w[q].what /\ y.page = w[q].page /\ y.text = w[q].text
            /\ y.attempt = w[q].attempt
        BY <3>1 DEF Work
      <4>2. w'[q] = y
        BY <2>1, <3>2
      <4> HIDE DEF y
      <4> QED BY <3>2, <4>1, <4>2 DEF Paging, Answered
    <3>3. CASE pc[q] # "get"
      BY <2>1, <3>1, <3>3
    <3> QED BY <3>2, <3>3
  <2>4. TypeOK'
    <3>1. w' \in [Proc -> Work]
      BY <2>1, <2>3
    <3> QED BY <1>1, <2>2, <2>3, <3>1 DEF TypeOK, files
  <2>5. ASSUME NEW q \in Proc
        PROVE  Local(q)'
    BY <1>1, <2>3 DEF Local, Moving, files, ReadSoFar
  <2>6. \A q \in Proc : pc[q] \in {"store", "archive"} => w'[q] = w[q]
    BY <2>3
  <2>7. Filed' /\ (\A h \in history' : Arrives(h.holds)') /\ (Calm' => Once')
    BY <1>1, <2>6 DEF Filed, NothingVanishes, files, Arrives, Handed, Calm, Once, HasRecords, InHistory
  <2> QED BY <1>1, <2>4, <2>5, <2>7
<1> QED BY <1>3, <1>4

(* A kill, and what happens to a process outside its cycle.                *)
LEMMA LifeInv ==
  ASSUME Inv, NEW p \in Proc,
         StartCycle(p) \/ LookForCapture(p) \/ RunApp(p) \/ Crash(p) \/ Restart(p)
  PROVE  Inv'
<1> USE DEF Inv
<1>1. CASE StartCycle(p)
  BY <1>1, EnterInv DEF StartCycle
<1>2. CASE LookForCapture(p)
  <2>1. /\ pc' = [pc EXCEPT ![p] = "settling"] /\ pc'[p] = "settling" /\ pc[p] = "watching"
        /\ \A q \in Proc \ {p} : pc'[q] = pc[q]
        /\ UNCHANGED <<sources, turn, w, files, killed, provider, crashes>>
    BY <1>2 DEF LookForCapture, Goto, TypeOK
  <2>2. TypeOK' /\ w[p].what = ""
    BY <2>1 DEF TypeOK, InTurn, files, provider, Local
  <2> QED BY <2>1, <2>2, Elsewhere DEF provider
<1>3. CASE RunApp(p)
  <2>1. CASE slot = NoFile
    <3>1. /\ pc' = [pc EXCEPT ![p] = "dead"] /\ pc'[p] = "dead" /\ pc[p] = "settling"
          /\ \A q \in Proc \ {p} : pc'[q] = pc[q]
          /\ UNCHANGED <<sources, turn, w, files, killed, provider, crashes>>
      BY <1>3, <2>1 DEF RunApp, Goto, TypeOK
    <3>2. TypeOK' /\ w[p].what = ""
      BY <3>1 DEF TypeOK, InTurn, files, provider, Local
    <3> QED BY <3>1, <3>2, Elsewhere DEF provider
  <2>2. CASE slot # NoFile
    BY <1>3, <2>2, EnterInv DEF RunApp
  <2> QED BY <2>1, <2>2
<1>4. CASE Restart(p)
  <2>1. /\ pc' = [pc EXCEPT ![p] = "idle"] /\ pc'[p] = "idle" /\ pc[p] = "down"
        /\ \A q \in Proc \ {p} : pc'[q] = pc[q]
        /\ UNCHANGED <<sources, turn, w, files, killed, provider, crashes>>
    BY <1>4 DEF Restart, Goto, TypeOK
  <2>2. TypeOK' /\ w[p].what = ""
    BY <2>1 DEF TypeOK, InTurn, files, provider, Local
  <2> QED BY <2>1, <2>2, Elsewhere DEF provider
<1>5. CASE Crash(p)
  <2>1. /\ pc' = [pc EXCEPT ![p] = IF p = Poller THEN "down" ELSE "watching"]
        /\ pc'[p] \in {"down", "watching"}
        /\ turn' = [turn EXCEPT ![p] = 0] /\ w' = [w EXCEPT ![p] = NoWork] /\ w'[p] = NoWork
        /\ \A q \in Proc \ {p} : pc'[q] = pc[q] /\ w'[q] = w[q]
        /\ killed' = killed \cup (IF pc[p] = "store" THEN {w[p].text.n} \cap Capture ELSE {})
        /\ UNCHANGED <<sources, files, provider>>
    BY <1>5 DEF Crash, Goto, Keep, TypeOK
  <2>2. crashes' \in 0 .. MaxCrashes
    BY <1>5, CollectionAssumption DEF Crash, TypeOK
  <2>3. TypeOK'
    <3>1. 0 \notin DOMAIN sources[p]
      BY DEF TypeOK
    <3> QED BY <2>1, <2>2, <3>1, NoWorkIsWork DEF TypeOK, InTurn, files, provider
  <2>4. ASSUME NEW q \in Proc
        PROVE  Local(q)'
    BY <2>1, NoWorkIsWork DEF Local, Moving, files, provider
  <2>5. Filed'
    BY <2>1 DEF Filed, NothingVanishes, files
  <2>6. ASSUME NEW h \in history'
        PROVE  Arrives(h.holds)'
    <3>1. h \in history /\ h.holds \in Capture /\ Arrives(h.holds)
      BY <2>1, <2>6 DEF TypeOK, files
    <3>2. CASE \E q \in Proc : pc[q] = "store" /\ w[q].text.n = h.holds
      <4>1. PICK q \in Proc : pc[q] = "store" /\ w[q].text.n = h.holds
        BY <3>2
      <4> QED BY <2>1, <3>1, <4>1 DEF Arrives
    <3>3. CASE Handed(h.holds) # 0 \/ h.holds \in killed \/ "archive" \in met[h.holds]
      BY <2>1, <3>3 DEF Arrives, Handed, files
    <3> QED BY <3>1, <3>2, <3>3 DEF Arrives
  <2>7. Calm' => Once'
    <3>1. \A q \in Proc : HasRecords(q)' => HasRecords(q) /\ w'[q] = w[q]
      BY <2>1 DEF HasRecords
    <3> QED BY <2>1, <3>1, OnceStays DEF files
  <2> QED BY <2>1, <2>3, <2>4, <2>5, <2>6, <2>7
<1> QED BY <1>1, <1>2, <1>3, <1>4, <1>5

(* Every step, stuttering included, keeps the invariant.                   *)
LEMMA NextInv == Inv /\ [Next]_vars => Inv'
<1> SUFFICES ASSUME Inv, [Next]_vars PROVE Inv'
  OBVIOUS
<1>1. ASSUME NEW p \in Proc, Collect(p)
      PROVE  Inv'
  <2>1. CASE GetRefused(p)
    BY <2>1, RaisesInv DEF GetRefused
  <2> QED BY <1>1, <2>1, SlotInv, ArchiveInv, GetFailsInv, ApiPageInv, TokenInv, OfferPageInv DEF Collect
<1>2. ASSUME NEW p \in Proc, Step(p) \/ Crash(p) \/ Restart(p)
      PROVE  Inv'
  BY <1>1, <1>2, StoreInv, LifeInv DEF Step
<1>3. CASE UNCHANGED vars
  <2> USE <1>3 DEF vars, files, provider
  <2>1. TypeOK'
    BY DEF Inv, TypeOK
  <2>2. \A p \in Proc : Local(p)'
    BY DEF Inv, Local, Moving
  <2>3. Filed' /\ (\A h \in history' : Arrives(h.holds)') /\ (Calm' => Once')
    BY DEF Inv, Filed, NothingVanishes, Arrives, Handed, Calm, Once, HasRecords, InHistory
  <2> QED BY <2>1, <2>2, <2>3 DEF Inv
<1> QED BY <1>2, <1>3, HumanInv, ProviderInv DEF Next

(* Inv holds for ever.                                                     *)
LEMMA Invariance == Spec => []Inv
BY InitInv, NextInv, PTL DEF Spec

(* Every variable keeps its type: no collection turns a page too many or   *)
(* asks once more than it may.                                             *)
THEOREM Typing == Spec => []TypeOK
<1>1. Inv => TypeOK
  BY DEF Inv
<1> QED BY <1>1, Invariance, PTL

(* Prices are dated by the time of the file they were read from, unless    *)
(* the human saved that file between stat and read.  Nothing is assumed of *)
(* the times that files have.                                              *)
THEOREM DatedByItsFile == Spec => []StampsAreTheFiles
<1>1. Inv => StampsAreTheFiles
  BY DEF Inv, Local, Moving, StampsAreTheFiles
<1> QED BY <1>1, Invariance, PTL

(* No capture is lost but those the human replaced, whatever is killed or  *)
(* races, and however many captures share a modification time.             *)
THEOREM NoCaptureVanishes == Spec => []NothingVanishes
<1>1. Inv => NothingVanishes
  BY DEF Inv, Filed
<1> QED BY <1>1, Invariance, PTL

(* A capture that was moved away is handed over to ingestion, once, unless *)
(* the human saved a capture between a read and a move, or a kill came     *)
(* between the move and ingestion.                                         *)
THEOREM MovedOnceHandedOverOnce == Spec => []ArchivedMeansIngested
<1>1. ASSUME Inv
      PROVE  ArchivedMeansIngested
  <2>1. \A h \in history : Arrives(h.holds)
    BY <1>1 DEF Inv
  <2>2. \A n \in Capture : Handed(n) \in Nat
    BY <1>1 DEF Inv, TypeOK, Handed
  <2>3. Calm => \A n \in Capture : Handed(n) <= 1
    BY <1>1 DEF Inv, Once
  <2>4. \A n \in Capture : Handed(n) > 1 => \E m \in Capture : "archive" \in met[m]
    BY <2>2, <2>3 DEF Calm
  <2> QED BY <2>1, <2>4 DEF ArchivedMeansIngested, Arrives, Handed
<1> QED BY <1>1, Invariance, PTL

(* A collection that calls itself complete has all that was promised when  *)
(* it began, for a listing of any length that only grows.                  *)
THEOREM CompleteHasAll == Spec => []CompleteMeansAll
<1>1. Inv => CompleteMeansAll
  BY DEF Inv, Local, Whole, CompleteMeansAll
<1> QED BY <1>1, Invariance, PTL

(* No collection waits for longer than its pages and attempts allow.       *)
THEOREM NobodyWaitsLonger == Spec => []WaitsAreBounded
<1>1. ASSUME Inv, NEW p \in Proc
      PROVE  w[p].waited <= (2 * MaxPages + 1) * (MaxAttempts - 1) * MaxDelay
  <2>1. /\ w[p] \in Work /\ w[p].waited \in Nat
        /\ pc[p] \notin {"get", "store"} => w[p].waited = 0
    BY <1>1 DEF Inv, TypeOK, Work
  <2>2. w[p].waited <= Longest
    <3>1. CASE pc[p] = "get"
      <4>1. /\ Answered(w[p]) \in Nat /\ w[p].waited <= (Answered(w[p]) + 1) * Retries
            /\ (Answered(w[p]) + 1) * Retries <= Longest
        BY <1>1, <2>1, <3>1, OneMoreAnswer DEF Inv, Local
      <4>2. (Answered(w[p]) + 1) * Retries \in Nat /\ Longest \in Nat
        BY <4>1, Products
      <4> QED BY <2>1, <4>1, <4>2, AtMost
    <3>2. CASE pc[p] = "store"
      BY <1>1, <3>2 DEF Inv, Local
    <3>3. CASE pc[p] \notin {"get", "store"}
      BY <2>1, <3>3, Products
    <3> QED BY <3>1, <3>2, <3>3
  <2>3. Longest = (2 * MaxPages + 1) * (MaxAttempts - 1) * MaxDelay
    <3>1. \A a, b, c \in Nat : a * (b * c) = a * b * c
      OBVIOUS
    <3>2. 2 * MaxPages + 1 \in Nat /\ MaxAttempts - 1 \in Nat /\ MaxDelay \in Nat
      BY CollectionAssumption
    <3> QED BY <3>1, <3>2 DEF Longest, Retries
  <2> QED BY <2>2, <2>3
<1>2. Inv => WaitsAreBounded
  BY <1>1 DEF WaitsAreBounded
<1> QED BY <1>2, Invariance, PTL

================================================================================
