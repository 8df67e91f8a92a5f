------------------------------- MODULE CaseRun -------------------------------
(***************************************************************************)
(* What the five services that derive knowledge about a whole case share:  *)
(* correlation, entity resolution, timeline, case intelligence and reports *)
(* each keep a table of runs, insert a QUEUED row on request and execute   *)
(* it as a background task of that request, in the API process.  The       *)
(* status names are those of the analyses: a report is GENERATING while it *)
(* is RUNNING here, and COMPLETED when it is SUCCEEDED.                    *)
(*                                                                         *)
(* One case: runs of different cases share no row.  A run is identified by *)
(* its place in the order of created_at.  No endpoint calls the services'  *)
(* delete methods, so rows stay.                                           *)
(***************************************************************************)
EXTENDS Naturals, Sequences, CaseRequests

CONSTANTS
  MaxRuns,     \* bound: rows ever inserted, of all kinds
  RunFaults    \* TRUE iff engines, storage and the database may fail, the
               \* answer to a commit may be lost and the process may be killed

ASSUME MaxRunsAssumption == MaxRuns \in Nat
ASSUME RunFaultsAssumption == RunFaults \in BOOLEAN

RunId == 1..MaxRuns
RunKind == {"CORRELATION", "ENTITIES", "TIMELINE", "INTELLIGENCE", "REPORT"}
RunActive == {"QUEUED", "RUNNING"}
RunStatus == RunActive \cup {"NONE", "SUCCEEDED", "FAILED"}

VARIABLES
  runs,       \* the run tables: kind and status of each row
  published,  \* runs whose result rows (or report content) are committed
  cites,      \* the run of each kind that a run has read, as it saw it
  pdfs,       \* reports whose PDF is in storage
  asking,     \* per requester: the kind it checked and has not yet inserted
  task        \* per run: the next step of its background task

runVars == <<runs, published, cites, pdfs, asking, task>>

RunRow == [kind : RunKind \cup {"NONE"}, status : RunStatus]
NoRun == [kind |-> "NONE", status |-> "NONE"]

(* What a reader took from another run: its id (0 for none), the status it  *)
(* had, and whether its result rows were there when they were selected.     *)
Citation == [run : RunId \cup {0}, status : RunStatus, rows : BOOLEAN]
NoCitation == [run |-> 0, status |-> "NONE", rows |-> FALSE]
NothingRead == [k \in RunKind |-> NoCitation]

(* A task selects, for the at-th of the kinds it reads, the row of a run    *)
(* and then that run's result rows.                                         *)
TaskStep == {"idle", "queued", "row", "rows", "stored", "failing", "done", "dead"}
TaskState == [step : TaskStep, at : 1..5]
Idle == [step |-> "idle", at |-> 1]

RunInit ==
  /\ runs = [r \in RunId |-> NoRun]
  /\ published = {}
  /\ cites = [r \in RunId |-> NothingRead]
  /\ pdfs = {}
  /\ asking = [c \in Requester |-> "none"]
  /\ task = [r \in RunId |-> Idle]

-----------------------------------------------------------------------------
(* The request.                                                             *)

HasActiveRun(k) == \E r \in RunId : runs[r].kind = k /\ runs[r].status \in RunActive

(* An active run answers 409 and changes nothing.                           *)
CheckNoActive(c, k) ==
  /\ asking[c] = "none"
  /\ ~HasActiveRun(k)
  /\ asking' = [asking EXCEPT ![c] = k]
  /\ UNCHANGED <<runs, published, cites, pdfs, task>>

NextRun(r) == runs[r] = NoRun /\ \A s \in 1..(r - 1) : runs[s] # NoRun

(* The partial unique index admits the row, and the response is followed by *)
(* the background task.                                                     *)
InsertRun(c, k) ==
  /\ asking[c] = k
  /\ ~HasActiveRun(k)
  /\ \E r \in RunId :
       /\ NextRun(r)
       /\ runs' = [runs EXCEPT ![r] = [kind |-> k, status |-> "QUEUED"]]
       /\ task' = [task EXCEPT ![r].step = "queued"]
  /\ asking' = [asking EXCEPT ![c] = "none"]
  /\ UNCHANGED <<published, cites, pdfs>>

(* IntegrityError: another request of the same kind came first.             *)
InsertRefused(c, k) ==
  /\ asking[c] = k
  /\ HasActiveRun(k)
  /\ asking' = [asking EXCEPT ![c] = "none"]
  /\ UNCHANGED <<runs, published, cites, pdfs, task>>

-----------------------------------------------------------------------------
(* The background task.                                                     *)

Go(r, s) == task' = [task EXCEPT ![r] = s]
At(s, i) == [step |-> s, at |-> i]
SetStatus(r, s) == runs' = [runs EXCEPT ![r].status = s]

(* run() reads the row, which is still QUEUED, and commits RUNNING.         *)
StartRun(r, k) ==
  /\ runs[r].kind = k
  /\ task[r].step = "queued"
  /\ SetStatus(r, "RUNNING")
  /\ Go(r, At("row", 1))
  /\ UNCHANGED <<published, cites, pdfs, asking>>

(* The newest run of kind k by created_at among those with a status in S.   *)
Candidates(k, S) == {r \in RunId : runs[r].kind = k /\ runs[r].status \in S}
IsLatest(r, k, S) ==
  IF Candidates(k, S) = {}
  THEN r = 0
  ELSE r \in Candidates(k, S) /\ \A s \in Candidates(k, S) : s <= r

(* The row of the latest run of the next source, read by a SELECT of its    *)
(* own; with no such run there are no rows to select either.                *)
ReadRow(r, sources, S) ==
  /\ task[r].step = "row"
  /\ task[r].at <= Len(sources)
  /\ LET k == sources[task[r].at] IN
       \E l \in RunId \cup {0} :
         /\ IsLatest(l, k, S)
         /\ IF l = 0
            THEN Go(r, At("row", task[r].at + 1)) /\ UNCHANGED cites
            ELSE /\ Go(r, At("rows", task[r].at))
                 /\ cites' = [cites EXCEPT ![r][k] =
                      [run |-> l, status |-> runs[l].status, rows |-> FALSE]]
  /\ UNCHANGED <<runs, published, pdfs, asking>>

(* The result rows of that run, read by the SELECT after.                   *)
ReadRows(r, sources) ==
  /\ task[r].step = "rows"
  /\ LET k == sources[task[r].at] IN
       cites' = [cites EXCEPT ![r][k].rows = cites[r][k].run \in published]
  /\ Go(r, At("row", task[r].at + 1))
  /\ UNCHANGED <<runs, published, pdfs, asking>>

HasRead(r, sources) == task[r].step = "row" /\ task[r].at > Len(sources)

(* One commit for the result rows and SUCCEEDED; when its answer is lost    *)
(* the task goes on as if it had failed.                                    *)
PublishRun(r) ==
  /\ SetStatus(r, "SUCCEEDED")
  /\ published' = published \cup {r}
  /\ \/ Go(r, At("done", 1))
     \/ RunFaults /\ Go(r, At("failing", 1))
  /\ UNCHANGED <<cites, pdfs, asking>>

(* The engine, a flush or a commit raises: rollback.                        *)
RaiseRun(r) ==
  /\ task[r].step \in {"row", "rows", "stored"}
  /\ cites' = [cites EXCEPT ![r] = NothingRead]
  /\ Go(r, At("failing", 1))
  /\ UNCHANGED <<runs, published, pdfs, asking>>

(* A plausible bug: the run is marked as done in a finally clause.          *)
FinallyDoneM(r) ==
  /\ task[r].step = "failing"
  /\ SetStatus(r, "SUCCEEDED")
  /\ Go(r, At("done", 1))
  /\ UNCHANGED <<published, cites, pdfs, asking>>

(* _fail_run reads the row again and sets FAILED whatever it says.          *)
FailRun(r) ==
  /\ task[r].step = "failing"
  /\ SetStatus(r, "FAILED")
  /\ Go(r, At("done", 1))
  /\ UNCHANGED <<published, cites, pdfs, asking>>

(* External: the API process is killed, or _fail_run fails as well: nothing *)
(* resumes a background task.                                               *)
CrashRun(r) ==
  /\ RunFaults
  /\ task[r].step \notin {"idle", "done", "dead"}
  /\ Go(r, At("dead", 1))
  /\ cites' = [cites EXCEPT ![r] = IF r \in published THEN @ ELSE NothingRead]
  /\ UNCHANGED <<runs, published, pdfs, asking>>
=============================================================================
