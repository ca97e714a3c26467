----------------------------- MODULE IngestionRuns -----------------------------
(***************************************************************************)
(* OddsIngestionService.run and the table collector_runs, for one source   *)
(* and the processes that poll it.  A run inserts its row as RUNNING       *)
(* before it asks the provider for anything, stores each record in a       *)
(* transaction of its own, keeps the raw payload of each record in another *)
(* one, and ends by writing its verdict over its row.  A process that dies *)
(* in between leaves the row RUNNING; whichever process starts up long     *)
(* enough afterwards calls it FAILED (recover_stale_running).  The rows    *)
(* also limit how often the source is asked: see Gate.                     *)
(***************************************************************************)
EXTENDS Integers

CONSTANTS
  Proc,
  MinInterval,     \* odds_api_min_interval, meridianbet_http_min_interval
  StaleAfter,      \* stale_running_threshold
  MaxRecords,      \* records of one collection
  MaxRuns,         \* bounds the rows
  MaxTime,         \* bounds the clock
  LastStart        \* no run starts later

ASSUME RunsAssumption ==
  /\ MinInterval \in Nat \ {0} /\ StaleAfter \in Nat
  /\ MaxRecords \in Nat /\ MaxRuns \in Nat \ {0} /\ MaxTime \in Nat /\ LastStart \in Nat

VARIABLES
  clock,
  runs,       \* the rows of collector_runs, in the order of their insertion
  stored,     \* for each row, how many of its records have their odds stored
  audited,    \* for each row, how many of its records have their raw payload stored
  requests,   \* how many collections each process attempted
  pc,         \* where each process is
  mine,       \* the row of the run of each process
  work        \* the local variables of OddsIngestionService.run

tables == <<runs, stored, audited>>
vars == <<clock, tables, requests, pc, mine, work>>

Run == 1 .. MaxRuns
Final == {"SUCCESS", "PARTIAL", "FAILED"}
Count == 0 .. MaxRecords

Row == [status : {"RUNNING"} \cup Final, started : 0 .. MaxTime, interrupted : BOOLEAN,
        received : Count, accepted : Count, rejected : Count]
NoRow == [status |-> "absent"]

Work == [total : Count, complete : BOOLEAN, failed : BOOLEAN,
         received : Count, accepted : Count, rejected : Count, lost : Count]
NoWork == [total |-> 0, complete |-> TRUE, failed |-> FALSE,
           received |-> 0, accepted |-> 0, rejected |-> 0, lost |-> 0]

TypeOK ==
  /\ clock \in 0 .. MaxTime
  /\ runs \in [Run -> Row \cup {NoRow}]
  /\ stored \in [Run -> Count] /\ audited \in [Run -> Count]
  /\ requests \in [Proc -> 0 .. MaxRuns]
  /\ pc \in [Proc -> {"down", "idle", "start", "collect", "ingest", "audit", "finish"}]
  /\ mine \in [Proc -> Run]
  /\ work \in [Proc -> Work]

Init ==
  /\ clock = 0
  /\ runs = [r \in Run |-> NoRow]
  /\ stored = [r \in Run |-> 0] /\ audited = [r \in Run |-> 0]
  /\ requests = [p \in Proc |-> 0]
  /\ pc = [p \in Proc |-> "down"]
  /\ mine = [p \in Proc |-> 1]
  /\ work = [p \in Proc |-> NoWork]

Rows == {r \in Run : runs[r] # NoRow}
Goto(p, label) == pc' = [pc EXCEPT ![p] = label]
Keep(p, w) == work' = [work EXCEPT ![p] = w]

-----------------------------------------------------------------------------
(* Mutant: every old row, finished or not.                                 *)
OldRows == {r \in Rows : runs[r].started < clock - StaleAfter}

(* Mutant: only the newest row is looked at.                               *)
StaleNewest ==
  {r \in Rows : /\ \A q \in Rows : q <= r
                /\ runs[r].status = "RUNNING" /\ runs[r].started < clock - StaleAfter}

(* What recover_stale_running's one UPDATE finds: still RUNNING, and old.  *)
StaleRunning ==
  {r \in Rows : runs[r].status = "RUNNING" /\ runs[r].started < clock - StaleAfter}

(* build_runtime.                                                          *)
Startup(p) ==
  /\ pc[p] = "down"
  /\ runs' = [r \in Run |->
       IF r \in StaleRunning
         THEN [runs[r] EXCEPT !.status = "FAILED", !.interrupted = TRUE]
         ELSE runs[r]]
  /\ Goto(p, "idle")
  /\ UNCHANGED <<clock, stored, audited, requests, mine, work>>

(* Mutant: a failed run does not count as an attempt.                      *)
RecentSuccess ==
  \E r \in Rows : /\ runs[r].status \notin {"FAILED"}
                  /\ clock - runs[r].started < MinInterval

(* find_latest_by_source: the newest row, whatever its status, is recent.  *)
RecentRun == \E r \in Rows : clock - runs[r].started < MinInterval

(* build_collectors asks the source only if no recent run did.             *)
Gate(p) ==
  /\ pc[p] = "idle"
  /\ ~ RecentRun
  /\ Goto(p, "start")
  /\ UNCHANGED <<clock, tables, requests, mine, work>>

(* The head of run: the row exists before anything refers to it.           *)
Start(p) ==
  /\ pc[p] = "start"
  /\ clock <= LastStart
  /\ \E r \in Run \ Rows :
       /\ \A q \in Run \ Rows : r <= q
       /\ runs' = [runs EXCEPT ![r] =
            [status |-> "RUNNING", started |-> clock, interrupted |-> FALSE,
             received |-> 0, accepted |-> 0, rejected |-> 0]]
       /\ mine' = [mine EXCEPT ![p] = r]
  /\ Keep(p, NoWork)
  /\ Goto(p, "collect")
  /\ UNCHANGED <<clock, stored, audited, requests>>

(* collect returns the records, all there are or not, or raises.           *)
Collect(p) ==
  /\ pc[p] = "collect"
  /\ requests' = [requests EXCEPT ![p] = @ + 1]
  /\ \/ /\ \E n \in Count, c \in BOOLEAN :
             Keep(p, [NoWork EXCEPT !.total = n, !.complete = c])
        /\ Goto(p, "ingest")
     \/ /\ Keep(p, [NoWork EXCEPT !.failed = TRUE])
        /\ Goto(p, "finish")
  /\ UNCHANGED <<clock, tables, mine>>

(* Mutant: the loop runs once too often.                                   *)
IngestOnePastTheEnd(p) ==
  LET w == work[p] IN
  /\ pc[p] = "ingest"
  /\ Keep(p, [w EXCEPT !.received = @ + 1, !.rejected = @ + 1])
  /\ Goto(p, "audit")
  /\ UNCHANGED <<clock, tables, requests, mine>>

(* _ingest_one: the odds of a record are stored, all its outcomes in one   *)
(* transaction, or the record is rejected and none of them is.             *)
IngestOne(p) ==
  LET w == work[p] IN
  /\ pc[p] = "ingest"
  /\ w.received < w.total
  /\ \/ /\ stored' = [stored EXCEPT ![mine[p]] = @ + 1]
        /\ Keep(p, [w EXCEPT !.received = @ + 1, !.accepted = @ + 1])
     \/ /\ Keep(p, [w EXCEPT !.received = @ + 1, !.rejected = @ + 1])
        /\ UNCHANGED stored
  /\ Goto(p, "audit")
  /\ UNCHANGED <<clock, runs, audited, requests, mine>>

(* _save_raw_payload: a failure is counted, and the loop goes on.          *)
SaveRawPayload(p) ==
  /\ pc[p] = "audit"
  /\ \/ audited' = [audited EXCEPT ![mine[p]] = @ + 1] /\ UNCHANGED work
     \/ Keep(p, [work[p] EXCEPT !.lost = @ + 1]) /\ UNCHANGED audited
  /\ Goto(p, "ingest")
  /\ UNCHANGED <<clock, runs, stored, requests, mine>>

EndRecords(p) ==
  /\ pc[p] = "ingest"
  /\ work[p].received = work[p].total
  /\ Goto(p, "finish")
  /\ UNCHANGED <<clock, tables, requests, mine, work>>

(* Mutant: a lost raw payload does not count.                              *)
VerdictIgnoringAudit(w) ==
  IF w.failed \/ (w.accepted = 0 /\ w.rejected > 0) THEN "FAILED"
  ELSE IF w.rejected > 0 \/ ~ w.complete THEN "PARTIAL"
  ELSE "SUCCESS"

(* The status run computes.                                                *)
Verdict(w) ==
  IF w.failed \/ (w.accepted = 0 /\ w.rejected > 0) THEN "FAILED"
  ELSE IF w.rejected > 0 \/ w.lost > 0 \/ ~ w.complete THEN "PARTIAL"
  ELSE "SUCCESS"

(* The process forgets its run.                                            *)
Forget(p) == Keep(p, NoWork) /\ mine' = [mine EXCEPT ![p] = 1]

(* finish: an UPDATE by id, whatever the row says by now (a startup of     *)
(* another process may have called a slow run interrupted: error_type is   *)
(* overwritten too).                                                       *)
Finish(p) ==
  LET w == work[p] IN
  /\ pc[p] = "finish"
  /\ runs' = [runs EXCEPT ![mine[p]] =
       [status |-> Verdict(w), started |-> @.started, interrupted |-> FALSE,
        received |-> w.received, accepted |-> w.accepted, rejected |-> w.rejected]]
  /\ Forget(p)
  /\ Goto(p, "idle")
  /\ UNCHANGED <<clock, stored, audited, requests>>

(* The process ends or is killed.                                          *)
Crash(p) ==
  /\ pc[p] # "down"
  /\ Forget(p)
  /\ Goto(p, "down")
  /\ UNCHANGED <<clock, tables, requests>>

(* The write of start or finish raises: the cycle fails, and the poller    *)
(* goes on to the next one without a restart.                              *)
FailCycle(p) ==
  /\ pc[p] \in {"start", "finish"}
  /\ Forget(p)
  /\ Goto(p, "idle")
  /\ UNCHANGED <<clock, tables, requests>>

Tick ==
  /\ clock < MaxTime
  /\ clock' = clock + 1
  /\ UNCHANGED <<tables, requests, pc, mine, work>>

Step(p) ==
  \/ Gate(p) \/ Start(p) \/ Collect(p) \/ IngestOne(p) \/ SaveRawPayload(p)
  \/ EndRecords(p) \/ Finish(p)

Next ==
  \/ Tick
  \/ \E p \in Proc : Startup(p) \/ Step(p) \/ Crash(p) \/ FailCycle(p)

Spec == Init /\ [][Next]_vars

(* Time passes, and there are always processes that end and processes that *)
(* start (watch_capture.py starts one for each captured file, and it ends  *)
(* with its cycle).  No process need ever get on with its run.             *)
FairSpec ==
  /\ Spec
  /\ WF_vars(Tick)
  /\ WF_vars(\E p \in Proc : Crash(p))
  /\ WF_vars(\E p \in Proc : Startup(p))

-----------------------------------------------------------------------------
(* SUCCESS means that everything the collector saw is stored, odds and raw *)
(* payloads, and that it saw all there was; the counts of a finished run   *)
(* are those of the tables.  Crashes, failed audit writes and recoveries   *)
(* by other processes do not change that.                                  *)
VerdictsAreTrue ==
  \A r \in Rows :
    LET row == runs[r] IN
    row.status \in Final /\ ~ row.interrupted =>
      /\ row.accepted = stored[r]
      /\ row.received = row.accepted + row.rejected
      /\ row.status = "SUCCESS" =>
           stored[r] = row.received /\ audited[r] = row.received
      /\ row.status = "FAILED" => stored[r] = 0

(* The recovery at startup never takes a verdict away: only a RUNNING row  *)
(* becomes "interrupted".                                                  *)
VerdictsStand ==
  [][\A r \in Rows : runs[r].status \in Final /\ ~ runs[r].interrupted => runs'[r] = runs[r]]_vars

(* A process, crashing and restarting as it likes, spends no more of the   *)
(* provider's budget than one request for each interval, whatever the      *)
(* others do.                                                              *)
WithinBudget == \A p \in Proc : requests[p] <= clock \div MinInterval + 1

(* A run that was cut short does not stay RUNNING for ever.                *)
RunsEnd == \A r \in Run : (runs[r].status = "RUNNING") ~> (runs[r].status # "RUNNING")
=============================================================================
