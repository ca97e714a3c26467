------------------------------- MODULE Collection -------------------------------
(***************************************************************************)
(* run_ingestion and its collectors.  A cycle runs the configured ones in  *)
(* order; one that raises ends its own run as FAILED, and the next has its *)
(* turn.  Modelled are                                                     *)
(*                                                                         *)
(*   - a manual capture: a human saves a file into a slot, and collect()   *)
(*     tests for it, takes its modification time, reads and parses it, and *)
(*     moves it to the history, by four calls between which others act: the *)
(*     human, the poller, and the app that watch_capture.py starts;        *)
(*   - a listing fetched page by page while the provider changes it, from  *)
(*     api-football (two listings, joined) or meridianbet-http (a token,   *)
(*     then pages until an empty one), each page by http_get_with_retry.   *)
(*                                                                         *)
(* What ingestion makes of the records is in IngestionRuns.                *)
(***************************************************************************)
EXTENDS Naturals, FiniteSets, SequencesExt

CONSTANTS
  Poller, Watcher,   \* the poller, and watch_capture.py with the app it starts
  Worlds,            \* what the poller may be configured with and meet: [sources, listing, plan]
                     \* (see listing and plan)
  Fixtures,          \* every fixture a provider may come to list
  PageSize, MaxPages,            \* _MAX_PAGES
  MaxAttempts, MaxDelay,         \* max_attempts, max_delay_seconds
  RetryAfter,        \* what servers say in Retry-After, in units of backoff_base_seconds
  FileTimes,         \* the modification times files may have
  MaxChanges, MaxDrops, MaxCrashes   \* changes of a listing, saved captures, kills

Collector == {"capture", "api-football", "meridianbet-http"}
Listing == [fixtures : Seq(Fixtures), priced : Seq(Fixtures)]
Plan == [limit : Nat, ends : BOOLEAN, events : Nat]

ASSUME CollectionAssumption ==
  /\ Poller # Watcher
  /\ Worlds \subseteq [sources : Seq(Collector), listing : Listing, plan : Plan]
  /\ PageSize \in Nat \ {0} /\ MaxPages \in Nat \ {0} /\ MaxAttempts \in Nat \ {0}
  /\ MaxDelay \in Nat /\ RetryAfter \subseteq Nat /\ FileTimes \subseteq Nat
  /\ MaxChanges \in Nat /\ MaxDrops \in Nat /\ MaxCrashes \in Nat

Proc == {Poller, Watcher}

VARIABLES
  sources,     \* sources[p]: the collectors of p's cycle, in order
  pc, turn,    \* where p is, and which collector has its turn
  w,           \* the local variables of p's collect()
  slot,        \* the file in the slot
  history,     \* the files moved away, each under a name
  stored,      \* stored[n]: how often ingestion accepted all records of capture n,
  rejected,    \* rejected[n]: and how often it rejected some or all of them
  dropped,     \* captures saved so far
  overwritten, \* captures that the human replaced before they were moved
  met,         \* met[n]: what collectors were about to do at the slot when n was being saved
  killed,      \* captures of which a kill lost the records on their way to ingestion
  listing,     \* what the provider lists now
  plan,        \* [limit, ends, events]: the highest page the plan lets be fetched; whether
               \* the provider's paging ever ends; and a bound on changes, captures and kills
  changes, crashes

files == <<slot, history, stored, rejected, dropped, overwritten, met>>
provider == <<listing, plan, changes>>
vars == <<sources, pc, turn, w, files, killed, provider, crashes>>

Capture == 1 .. MaxDrops
NoFile == [n |-> 0]
File == [n : Capture, at : Nat, whole : BOOLEAN, valid : BOOLEAN]

NoWork == [stamp |-> 0, text |-> NoFile, what |-> "", page |-> 0, attempt |-> 0, waited |-> 0,
           known |-> {}, odds |-> {}, capped |-> {}, result |-> {}, complete |-> TRUE,
           promised |-> {}, shifted |-> FALSE]

Work == [stamp : Nat, text : File \cup {NoFile},
         what : {"", "fixtures", "odds", "token", "offer"},
         page : 0 .. MaxPages, attempt : 0 .. MaxAttempts - 1, waited : Nat,
         known : SUBSET Fixtures, odds : SUBSET Fixtures, capped : SUBSET {"fixtures", "odds"},
         result : SUBSET Fixtures, complete : BOOLEAN,
         promised : SUBSET Fixtures, shifted : BOOLEAN]

InTurn == {"exists", "stat", "read", "archive", "get", "store"}

TypeOK ==
  /\ sources \in [Proc -> Seq(Collector)]
  /\ pc \in [Proc -> {"down", "idle", "watching", "settling", "dead"} \cup InTurn]
  /\ turn \in [Proc -> Nat]
  /\ w \in [Proc -> Work]
  /\ \A p \in Proc : /\ pc[p] \in InTurn <=> turn[p] \in DOMAIN sources[p]
                     /\ pc[p] \notin {"get", "store"} => w[p].waited = 0
  /\ slot \in File \cup {NoFile}
  /\ history \subseteq [name : Nat \X Nat, holds : Capture] /\ IsFiniteSet(history)
  /\ stored \in [Capture -> Nat] /\ rejected \in [Capture -> Nat]
  /\ dropped \in 0 .. MaxDrops /\ overwritten \subseteq Capture
  /\ met \in [Capture -> SUBSET {"read", "archive"}] /\ killed \subseteq Capture
  /\ listing \in Listing /\ plan \in Plan
  /\ changes \in 0 .. MaxChanges /\ crashes \in 0 .. MaxCrashes

Init ==
  /\ \E v \in Worlds :
       /\ sources = [p \in Proc |-> IF p = Poller THEN v.sources ELSE <<"capture">>]
       /\ listing = v.listing /\ plan = v.plan
  /\ pc = [p \in Proc |-> IF p = Poller THEN "idle" ELSE "watching"]
  /\ turn = [p \in Proc |-> 0]
  /\ w = [p \in Proc |-> NoWork]
  /\ slot = NoFile /\ history = {}
  /\ stored = [n \in Capture |-> 0] /\ rejected = [n \in Capture |-> 0]
  /\ dropped = 0 /\ overwritten = {}
  /\ met = [n \in Capture |-> {}] /\ killed = {}
  /\ changes = 0 /\ crashes = 0

MoreEvents == dropped + changes + crashes < plan.events

Goto(p, label) == pc' = [pc EXCEPT ![p] = label]
Keep(p, x) == w' = [w EXCEPT ![p] = x]

-----------------------------------------------------------------------------
(* run_ingestion: one collector after the other.                           *)

(* Where p is when its cycle is over: the poller detects and sleeps, the   *)
(* app ends and its watcher looks again.                                   *)
Rest(p) == IF p = Poller THEN "idle" ELSE "watching"

Enter(p, i) ==
  IF i \notin DOMAIN sources[p]
  THEN turn' = [turn EXCEPT ![p] = 0] /\ Goto(p, Rest(p)) /\ Keep(p, NoWork)
  ELSE /\ turn' = [turn EXCEPT ![p] = i]
       /\ CASE sources[p][i] = "capture" -> Goto(p, "exists") /\ Keep(p, NoWork)
            [] sources[p][i] = "api-football" ->
                 /\ Goto(p, "get")
                 /\ Keep(p, [NoWork EXCEPT !.what = "fixtures", !.page = 1,
                      !.promised = Range(listing.fixtures) \cap Range(listing.priced)])
            [] sources[p][i] = "meridianbet-http" ->
                 Goto(p, "get") /\ Keep(p, [NoWork EXCEPT !.what = "token"])

(* Mutant: an exception of collect() ends the cycle.                       *)
AbortsCycle(p) == turn' = [turn EXCEPT ![p] = 0] /\ Goto(p, Rest(p)) /\ Keep(p, NoWork)

(* collect() raises: run() records FAILED and returns.                     *)
Raises(p) == Enter(p, turn[p] + 1)

StartCycle(p) ==
  /\ pc[p] = "idle"
  /\ Enter(p, 1)
  /\ UNCHANGED <<sources, files, killed, provider, crashes>>

(* run() hands over what collect() returned, and the next collector        *)
(* follows.  Ingestion accepts a record or rejects it, as invalid, as of   *)
(* an event it cannot tell, or because the database failed it; nobody      *)
(* hands it over again.                                                    *)
Store(p) ==
  LET Counted(tally) == [n \in Capture |-> IF n = w[p].text.n THEN tally[n] + 1 ELSE tally[n]]
  IN /\ pc[p] = "store"
     /\ \/ stored' = Counted(stored) /\ UNCHANGED rejected
        \/ rejected' = Counted(rejected) /\ UNCHANGED stored
     /\ Enter(p, turn[p] + 1)
     /\ UNCHANGED <<sources, slot, history, dropped, overwritten, met, killed, provider, crashes>>

-----------------------------------------------------------------------------
(* ManualCaptureCollector.collect: exists, stat, read_text and parse,      *)
(* replace.                                                                *)

AtSlot(p) == pc[p] \in {"stat", "read", "archive"}

(* No file: the run has no records, and is over.                           *)
FindCapture(p) ==
  /\ pc[p] = "exists"
  /\ IF slot = NoFile
     THEN Enter(p, turn[p] + 1)
     ELSE Goto(p, "stat") /\ UNCHANGED <<turn, w>>
  /\ UNCHANGED <<sources, files, killed, provider, crashes>>

(* Another collector has moved the file: FileNotFoundError.                *)
CaptureGone(p) ==
  /\ AtSlot(p) /\ slot = NoFile
  /\ Raises(p)
  /\ UNCHANGED <<sources, files, killed, provider, crashes>>

TakeStamp(p) ==
  /\ pc[p] = "stat" /\ slot # NoFile
  /\ Goto(p, "read")
  /\ Keep(p, [w[p] EXCEPT !.stamp = slot.at])
  /\ UNCHANGED <<sources, turn, files, killed, provider, crashes>>

(* Mutant: a text that does not parse is moved away too.                   *)
ReadAndMove(p) ==
  /\ pc[p] = "read" /\ slot # NoFile
  /\ IF slot.whole /\ slot.valid
     THEN /\ Goto(p, "archive") /\ Keep(p, [w[p] EXCEPT !.text = slot])
          /\ UNCHANGED <<turn, slot, history>>
     ELSE /\ Raises(p)
          /\ history' = history \cup {[name |-> <<w[p].stamp, slot.n>>, holds |-> slot.n]}
          /\ slot' = NoFile
  /\ UNCHANGED <<sources, stored, rejected, dropped, overwritten, met, killed, provider,
                 crashes>>

(* A text that does not parse stays where it is.                           *)
ReadCapture(p) ==
  /\ pc[p] = "read" /\ slot # NoFile
  /\ IF slot.whole /\ slot.valid
     THEN Goto(p, "archive") /\ Keep(p, [w[p] EXCEPT !.text = slot]) /\ UNCHANGED turn
     ELSE Raises(p)
  /\ UNCHANGED <<sources, files, killed, provider, crashes>>

(* Mutant: the name is the stamp alone.                                    *)
NameByStamp(p) == <<w[p].stamp, 0>>

(* The stamp, and a suffix nobody else has.                                *)
ArchiveName(p) == <<w[p].stamp, Cardinality(history) + 1>>

(* Mutant: the stamp is taken only now.                                    *)
StampOfMoved(p) == slot.at

(* observed_at of the records.                                             *)
ObservedAt(p) == w[p].stamp

(* Path.replace moves whatever file has the name of the slot by now, and   *)
(* would replace one of the new name.                                      *)
Archive(p) ==
  /\ pc[p] = "archive" /\ slot # NoFile
  /\ history' = {h \in history : h.name # ArchiveName(p)}
                  \cup {[name |-> ArchiveName(p), holds |-> slot.n]}
  /\ slot' = NoFile
  /\ Goto(p, "store")
  /\ Keep(p, [w[p] EXCEPT !.stamp = ObservedAt(p)])
  /\ UNCHANGED <<sources, turn, stored, rejected, dropped, overwritten, met, killed, provider,
                 crashes>>

-----------------------------------------------------------------------------
(* watch_capture.py.                                                       *)

LookForCapture(p) ==
  /\ pc[p] = "watching" /\ slot # NoFile
  /\ Goto(p, "settling")
  /\ UNCHANGED <<sources, turn, w, files, killed, provider, crashes>>

(* _wait_until_stable: the size was twice the same, which a half-written   *)
(* file's may be; or the file is gone, and stat() ends the watcher.        *)
RunApp(p) ==
  /\ pc[p] = "settling"
  /\ IF slot = NoFile THEN Goto(p, "dead") /\ UNCHANGED <<turn, w>> ELSE Enter(p, 1)
  /\ UNCHANGED <<sources, files, killed, provider, crashes>>

-----------------------------------------------------------------------------
(* The human: saves a capture over whatever is in the slot, at once or in  *)
(* two goes.  What does not parse when half-written may do so when whole.  *)
(* A file moved or copied into the slot may keep a time older than that of *)
(* the one before.                                                         *)

(* The human is saving capture n, and meets those who are past stat().     *)
Meets(n) == met' = [met EXCEPT ![n] = @ \cup ({pc[p] : p \in Proc} \cap {"read", "archive"})]

DropCapture ==
  /\ dropped < MaxDrops /\ MoreEvents
  /\ dropped' = dropped + 1
  /\ \E at \in FileTimes, whole, valid \in BOOLEAN :
       /\ whole \/ valid
       /\ slot' = [n |-> dropped + 1, at |-> at, whole |-> whole, valid |-> valid]
  /\ overwritten' = IF slot = NoFile THEN overwritten ELSE overwritten \cup {slot.n}
  /\ Meets(dropped + 1)
  /\ UNCHANGED <<sources, pc, turn, w, history, stored, rejected, killed, provider, crashes>>

FinishWriting ==
  /\ slot # NoFile /\ ~slot.whole
  /\ \E at \in FileTimes : slot' = [slot EXCEPT !.whole = TRUE, !.at = at]
  /\ Meets(slot.n)
  /\ UNCHANGED <<sources, pc, turn, w, history, stored, rejected, dropped, overwritten, killed,
                 provider, crashes>>

-----------------------------------------------------------------------------
(* http_get_with_retry.                                                    *)

(* The Retry-After header: absent, or with a number.                       *)
Headers == {<<>>} \cup {<<s>> : s \in RetryAfter}

(* Mutant: an honoured Retry-After is not clamped.                         *)
DelayAsTold(x, after) == IF after # <<>> THEN after[1] ELSE 2 ^ x.attempt

Delay(x, after) ==
  LET wanted == IF after # <<>> THEN after[1] ELSE 2 ^ x.attempt
  IN IF wanted \in 0 .. MaxDelay THEN wanted ELSE MaxDelay

(* Mutant: one attempt too many.                                           *)
GivesUpLate(x) == x.attempt = MaxAttempts

GivesUp(x) == x.attempt = MaxAttempts - 1

(* The network fails, or the server is busy and may say for how long.      *)
GetFails(p) ==
  /\ pc[p] = "get"
  /\ IF GivesUp(w[p]) THEN Raises(p)
     ELSE /\ \E after \in Headers :
               Keep(p, [w[p] EXCEPT !.attempt = @ + 1, !.waited = @ + Delay(w[p], after)])
          /\ UNCHANGED <<pc, turn>>
  /\ UNCHANGED <<sources, files, killed, provider, crashes>>

(* Any other status, an error in the body, or a body of another shape.     *)
GetRefused(p) ==
  /\ pc[p] = "get"
  /\ Raises(p)
  /\ UNCHANGED <<sources, files, killed, provider, crashes>>

-----------------------------------------------------------------------------
(* _fetch_all_pages, of api-football and of meridianbet-http.              *)

ItemsOf(s, k) == {s[i] : i \in {j \in DOMAIN s : (j - 1) \div PageSize = k}}
PagesOf(s) == IF s = <<>> THEN 1 ELSE 1 + (Len(s) - 1) \div PageSize

ListingOf(what) == IF what = "fixtures" THEN listing.fixtures ELSE listing.priced

Merged(x, items) ==
  [x EXCEPT !.attempt = 0,
            !.known = IF x.what = "fixtures" THEN @ \cup items ELSE @,
            !.odds = IF x.what = "fixtures" THEN @ ELSE @ \cup items]

(* _parse_envelopes: odds of a fixture that the other listing did not name *)
(* are dropped.  meridianbet's one listing has the names too.              *)
Records(x) == IF x.what = "odds" THEN x.known \cap x.odds ELSE x.odds

(* Mutant: only the odds' cap counts.                                      *)
CompleteOdds(x) == "odds" \notin x.capped

Complete(x) == x.capped = {}

(* The endpoint has been read: the odds after the fixtures, then what      *)
(* collect() returns.                                                      *)
EndOfEndpoint(p, x) ==
  /\ IF x.what = "fixtures"
     THEN Keep(p, [x EXCEPT !.what = "odds", !.page = 1, !.attempt = 0]) /\ UNCHANGED pc
     ELSE /\ Keep(p, [x EXCEPT !.result = Records(x), !.complete = Complete(x),
                               !.known = {}, !.odds = {}])
          /\ Goto(p, "store")
  /\ UNCHANGED turn

(* The next page, unless that would be one too many.                       *)
NextPage(p, x) ==
  IF x.page + 1 > MaxPages THEN Raises(p)
  ELSE Keep(p, [x EXCEPT !.page = @ + 1]) /\ UNCHANGED <<pc, turn>>

(* What paging.total says of a listing: a provider that misbehaves names a *)
(* further page every time.                                                *)
Total(s, page) == IF plan.ends THEN PagesOf(s) ELSE page + 1

(* api-football answers, with the page or with the limit of the plan.      *)
ApiPage(p) ==
  LET x == w[p]
      s == ListingOf(x.what)
      y == Merged(x, ItemsOf(s, x.page - 1))
  IN /\ pc[p] = "get" /\ x.what \in {"fixtures", "odds"}
     /\ IF x.page > plan.limit
        THEN IF x.page = 1 THEN Raises(p)
             ELSE EndOfEndpoint(p, [x EXCEPT !.capped = @ \cup {x.what}])
        ELSE IF x.page >= Total(s, x.page) THEN EndOfEndpoint(p, y) ELSE NextPage(p, y)
     /\ UNCHANGED <<sources, files, killed, provider, crashes>>

Token(p) ==
  /\ pc[p] = "get" /\ w[p].what = "token"
  /\ Keep(p, [w[p] EXCEPT !.what = "offer", !.attempt = 0])
  /\ UNCHANGED <<sources, pc, turn, files, killed, provider, crashes>>

(* meridianbet answers: a page, or one without leagues (past the end, or   *)
(* any JSON of another shape), which ends the listing.                     *)
OfferPage(p) ==
  LET x == w[p]
  IN /\ pc[p] = "get" /\ x.what = "offer"
     /\ \E items \in {{}, IF plan.ends THEN ItemsOf(listing.priced, x.page) ELSE Fixtures} :
          IF items # {} THEN NextPage(p, Merged(x, items))
          ELSE IF x.page = 0 THEN Raises(p)
          ELSE EndOfEndpoint(p, x)
     /\ UNCHANGED <<sources, files, killed, provider, crashes>>

-----------------------------------------------------------------------------
(* The provider: a fixture is listed or gets odds, at the end; one goes,   *)
(* and those behind it move up.  A change that meets no collection gives   *)
(* the next one another first listing.                                     *)

Change(l) ==
  /\ \E p \in Proc : pc[p] = "get" /\ w[p].what # "token"
  /\ changes < MaxChanges /\ MoreEvents
  /\ changes' = changes + 1
  /\ listing' = l
  /\ UNCHANGED <<sources, pc, turn, files, killed, plan, crashes>>

Publish(f) ==
  /\ IF f \notin Range(listing.fixtures)
     THEN Change([listing EXCEPT !.fixtures = Append(@, f)])
     ELSE f \notin Range(listing.priced) /\ Change([listing EXCEPT !.priced = Append(@, f)])
  /\ UNCHANGED w

(* A listing has a fixture once, or not.                                   *)
Without(s, f) == IF f \in Range(s) THEN RemoveAt(s, CHOOSE i \in DOMAIN s : s[i] = f) ELSE s

Withdraw(f) ==
  /\ f \in Range(listing.fixtures)
  /\ Change([fixtures |-> Without(listing.fixtures, f), priced |-> Without(listing.priced, f)])
  /\ w' = [p \in Proc |-> IF pc[p] = "get" THEN [w[p] EXCEPT !.shifted = TRUE] ELSE w[p]]

-----------------------------------------------------------------------------
(* A kill.  The poller is started again; of an app, its watcher goes on.   *)
Crash(p) ==
  /\ crashes < MaxCrashes /\ MoreEvents
  /\ turn[p] > 0
  /\ crashes' = crashes + 1
  /\ Goto(p, IF p = Poller THEN "down" ELSE "watching")
  /\ turn' = [turn EXCEPT ![p] = 0]
  /\ Keep(p, NoWork)
  /\ killed' = killed \cup (IF pc[p] = "store" THEN {w[p].text.n} \cap Capture ELSE {})
  /\ UNCHANGED <<sources, files, provider>>

Restart(p) ==
  /\ pc[p] = "down"
  /\ Goto(p, "idle")
  /\ UNCHANGED <<sources, turn, w, files, killed, provider, crashes>>

Collect(p) ==
  \/ FindCapture(p) \/ CaptureGone(p) \/ TakeStamp(p) \/ ReadCapture(p) \/ Archive(p)
  \/ GetFails(p) \/ GetRefused(p) \/ ApiPage(p) \/ Token(p) \/ OfferPage(p)

Step(p) == StartCycle(p) \/ Collect(p) \/ Store(p) \/ LookForCapture(p) \/ RunApp(p)

Next ==
  \/ \E p \in Proc : Step(p) \/ Crash(p) \/ Restart(p)
  \/ DropCapture \/ FinishWriting
  \/ \E f \in Fixtures : Publish(f) \/ Withdraw(f)

(* The poller goes on (run_forever, and whoever restarts it); no server    *)
(* ever need answer well, and no watcher need run.  That a run's own row   *)
(* cannot be written, which ends the cycle, is not modelled here but in    *)
(* WriteContention.                                                        *)
Spec ==
  /\ Init /\ [][Next]_vars
  /\ WF_vars(Step(Poller)) /\ WF_vars(Restart(Poller))

-----------------------------------------------------------------------------
(* The prices of a capture are dated by the time of the very file they     *)
(* were read from, whoever else collects, is killed or replaces files, with *)
(* one exception: the human saved that file between a collector's stat and *)
(* its read, and the time is then that of an earlier file, older or newer. *)
StampsAreTheFiles ==
  \A p \in Proc : pc[p] \in {"archive", "store"} /\ w[p].text # NoFile =>
    w[p].stamp = w[p].text.at \/ "read" \in met[w[p].text.n]

(* Every capture ever saved is in the slot or in the history, unless the   *)
(* human replaced it: two captures of one tick of the file system's clock, *)
(* a parse failure, a kill or a race of two collectors delete none.        *)
NothingVanishes ==
  \A n \in 1 .. dropped :
    \/ n \in overwritten
    \/ slot # NoFile /\ slot.n = n
    \/ \E h \in history : h.holds = n

(* A capture in the history has been handed over to ingestion, or is about *)
(* to be, unless a kill came in between or the human saved it after        *)
(* somebody had read another one and before that one was moved; and it was *)
(* handed over once, unless the human saved a capture at such a moment.    *)
(* Two collectors at one slot, a file that does not parse, replacing a     *)
(* file at another moment, a kill elsewhere are no reason.  Whether        *)
(* ingestion then stores the records is its own affair: a database that    *)
(* fails it costs the records of a capture that is in the history already. *)
ArchivedMeansIngested ==
  /\ \A h \in history :
       \/ \E p \in Proc : pc[p] = "store" /\ w[p].text.n = h.holds
       \/ stored[h.holds] + rejected[h.holds] # 0
       \/ h.holds \in killed \/ "archive" \in met[h.holds]
  /\ \A n \in Capture :
       stored[n] + rejected[n] > 1 => \E m \in Capture : "archive" \in met[m]

(* A collection of api-football that calls itself complete has every       *)
(* fixture that was listed with odds when it began, whatever was added     *)
(* while it turned the pages; unless something was withdrawn, which moves  *)
(* what follows to a page already read.                                    *)
CompleteMeansAll ==
  \A p \in Proc :
    pc[p] = "store" /\ w[p].what = "odds" /\ w[p].complete /\ ~w[p].shifted =>
      w[p].promised \subseteq w[p].result

(* One collection waits for no longer than its pages and attempts allow,   *)
(* whatever Retry-After its servers send: the other sources, which have to *)
(* wait for it, are not held up for longer.                                *)
WaitsAreBounded ==
  \A p \in Proc : w[p].waited <= (2 * MaxPages + 1) * (MaxAttempts - 1) * MaxDelay

(* A capture that can be read does not lie in the slot for ever, even if   *)
(* another source fails in every cycle, answers without end, or makes the  *)
(* poller wait.                                                            *)
CapturesAreTakenUp ==
  \A n \in Capture :
    (slot # NoFile /\ slot.n = n /\ slot.whole /\ slot.valid)
      ~> (slot = NoFile \/ slot.n # n)
=============================================================================
