------------------------------- MODULE JobRun -------------------------------
(***************************************************************************)
(* The steps every job service repeats: create_job checks and inserts a    *)
(* job row, run(job_id) takes it through RUNNING to SUCCEEDED or, through  *)
(* the except clause and _fail_job, to FAILED.  A step takes what differs  *)
(* between the services as arguments; the service modules say what they    *)
(* pass, and which of the steps they have.                                 *)
(***************************************************************************)
EXTENDS EvidenceDatabase

At(r, t, here) == pc[r] = here /\ TypeOf(r) = t

-----------------------------------------------------------------------------
(* create_job *)

(* A request whose evidence passed the checks of its service.               *)
Admit(c, e, t) ==
  /\ client[c].at = "idle"
  /\ t \in Requested
  /\ client' = [client EXCEPT ![c] =
                  [at |-> "admitted", evidence |-> e, type |-> t, job |-> 0]]
  /\ UNCHANGED <<jobs, evidence, artifacts, objects, custody, analysisRun, pc, session>>

(* get_active: a row makes the request a conflict.                          *)
CheckActive(c, t) ==
  /\ client[c].at = "admitted" /\ client[c].type = t
  /\ IF HasActiveJob(client[c].evidence, t)
       THEN Answer(c)
       ELSE client' = [client EXCEPT ![c].at = "checked"]
  /\ UNCHANGED <<jobs, evidence, artifacts, objects, custody, analysisRun, pc, session>>

(* The commit of the request's insert.  The unique index may refuse the row *)
(* (IntegrityError, answered as a conflict); otherwise the endpoint goes on *)
(* to dispatch the first invocation of run.                                 *)
Insert(c, t) ==
  /\ client[c].at = "checked" /\ client[c].type = t
  /\ \E j \in Job :
       /\ NextFreeJob(j)
       /\ IF IndexAllows(j, client[c].evidence, t)
            THEN /\ jobs' = [jobs EXCEPT ![j] = [evidence |-> client[c].evidence,
                                                type |-> t, status |-> "QUEUED"]]
                 /\ Goto(<<j, FirstDelivery>>, "pending")
            ELSE UNCHANGED <<jobs, pc>>
  /\ Answer(c)
  /\ UNCHANGED <<evidence, artifacts, objects, custody, analysisRun, session>>

(* create_job hands back the succeeded job; the endpoint dispatches it anew.*)
DispatchAgain(e, t) ==
  /\ t \in Requested
  /\ \E r \in Run :
       /\ LatestIs(JobOf(r), e, t)
       /\ jobs[JobOf(r)].status = "SUCCEEDED"
       /\ pc[r] = "idle"
       /\ Goto(r, "pending")
  /\ UNCHANGED <<jobs, evidence, artifacts, objects, custody, analysisRun, client, session>>

-----------------------------------------------------------------------------
(* run, up to the pipeline *)

AnyStatusM(j) == TRUE
IsQueued(j) == jobs[j].status = "QUEUED"

ReadJob(r, t) ==
  /\ At(r, t, "pending")
  /\ Goto(r, IF IsQueued(JobOf(r)) THEN "jobRead" ELSE "done")
  /\ UNCHANGED <<jobs, evidence, artifacts, objects, custody, analysisRun, client, session>>

(* The evidence row is loaded; the job row is the one ReadJob loaded.       *)
LoadEvidence(r, t) ==
  /\ At(r, t, "jobRead")
  /\ session' = [session EXCEPT ![r].job = "QUEUED",
                                ![r].status = evidence[EvidenceOf(r)].status,
                                ![r].sections = evidence[EvidenceOf(r)].sections]
  /\ Goto(r, "loaded")
  /\ UNCHANGED <<jobs, evidence, artifacts, objects, custody, analysisRun, client>>

(* The commit that makes the job RUNNING.  It may insert an analysis run    *)
(* row and the rows of artifacts made before it, and may write              *)
(* evidence.status; the session keeps what it wrote.                        *)
CommitRunning(r, t, next, status, run, rows) ==
  /\ At(r, t, "loaded")
  /\ IndexAllows(JobOf(r), EvidenceOf(r), t)
  /\ jobs' = [jobs EXCEPT ![JobOf(r)].status = "RUNNING"]
  /\ evidence' = UpdatedEvidence(EvidenceOf(r), session[r], status, session[r].sections)
  /\ session' = [session EXCEPT ![r].job = "RUNNING", ![r].status = status]
  /\ analysisRun' = [analysisRun EXCEPT ![r] = run]
  /\ artifacts' = artifacts \cup rows
  /\ Goto(r, next)
  /\ UNCHANGED <<objects, custody, client>>

(* The unique index refuses the UPDATE: another job of the same evidence    *)
(* and type became active after this run read its own as QUEUED.            *)
RunningConflict(r, t) ==
  /\ At(r, t, "loaded")
  /\ ~IndexAllows(JobOf(r), EvidenceOf(r), t)
  /\ Goto(r, "cleanup")
  /\ UNCHANGED <<jobs, evidence, artifacts, objects, custody, analysisRun, client, session>>

RecordStarted(r, t) ==
  /\ At(r, t, "running")
  /\ custody' = custody \cup {Event(r, "STARTED", 0)}
  /\ Goto(r, "started")
  /\ UNCHANGED <<jobs, evidence, artifacts, objects, analysisRun, client, session>>

-----------------------------------------------------------------------------
(* run: the artifacts and the final transaction *)

NextPayload(r, n) ==
  /\ n \in Payloads(TypeOf(r)) \ session[r].created
  /\ \A m \in Payload : m < n => m \in session[r].created

(* ArtifactService.create: the object is linked under its final key and its *)
(* row staged in the session.  When the storage commit fails after linking, *)
(* or create cannot take back what it linked, the object is in no clean-up  *)
(* list.                                                                    *)
StoreArtifact(r, t, here) ==
  /\ At(r, t, here)
  /\ \E n \in Payload :
       /\ NextPayload(r, n)
       /\ objects' = objects \cup {<<r, n>>}
       /\ \/ session' = [session EXCEPT ![r].created = @ \cup {n}] /\ UNCHANGED pc
          \/ StorageFaults /\ Goto(r, "cleanup") /\ UNCHANGED session
  /\ UNCHANGED <<jobs, evidence, artifacts, custody, analysisRun, client>>

StoredAnyM(r) == TRUE
StoredAll(r) == session[r].created = Payloads(TypeOf(r))

StagedRows(r) == {<<r, n>> : n \in session[r].created}

NoCompletedM(r) == {Event(r, "ARTIFACT_CREATED", n) : n \in session[r].created}
SuccessEvents(r) ==
  {Event(r, "COMPLETED", 0)}
    \cup {Event(r, "ARTIFACT_CREATED", n) : n \in session[r].created}

(* The transaction that publishes the result of a run.  Its answer may be   *)
(* lost: the run then cleans up after a commit that did happen.             *)
CommitSucceeded(r, t, status, events, run) ==
  /\ At(r, t, "started")
  /\ StoredAll(r)
  /\ artifacts' = artifacts \cup StagedRows(r)
  /\ custody' = custody \cup events
  /\ evidence' = UpdatedEvidence(EvidenceOf(r), session[r], status,
                                 Merged(session[r].sections, t))
  /\ jobs' = [jobs EXCEPT ![JobOf(r)].status = "SUCCEEDED"]
  /\ analysisRun' = [analysisRun EXCEPT ![r] = run]
  /\ \/ Goto(r, "done") /\ Close(r)
     \/ AckLoss /\ Goto(r, "cleanup") /\ UNCHANGED session
  /\ UNCHANGED <<objects, client>>

-----------------------------------------------------------------------------
(* run: the except clause and _fail_job *)

(* Anything in the try block may raise: the commits, the pipeline, an       *)
(* artifact, the final transaction.  When a transaction is open, the        *)
(* rollback of the except clause expires every row the session loaded.      *)
Raise(r, t) ==
  /\ pc[r] \in {"loaded", "running", "started"} /\ TypeOf(r) = t
  /\ Goto(r, "cleanup")
  /\ UNCHANGED <<jobs, evidence, artifacts, objects, custody, analysisRun, client, session>>

(* With no transaction open (the inspection of the original, a processor, a *)
(* detector that only reads storage) the rollback does nothing: _fail_job   *)
(* finds the rows as this session loaded or wrote them, however old.        *)
RaiseOutside(r, t) ==
  /\ At(r, t, "started")
  /\ session[r].created = {}
  /\ Goto(r, "failing")
  /\ UNCHANGED <<jobs, evidence, artifacts, objects, custody, analysisRun, client, session>>

KeptM(r, n) == {}
SweepM(r, n) == {k \in objects : EvidenceOf(k[1]) = EvidenceOf(r)}
CleanedUp(r, n) == {<<r, n>>}

(* One created artifact is deleted; an error of the deletion is swallowed.  *)
CleanupArtifact(r, t) ==
  /\ At(r, t, "cleanup")
  /\ \E n \in session[r].created :
       /\ \A m \in session[r].created : n <= m
       /\ session' = [session EXCEPT ![r].created = @ \ {n}]
       /\ \/ objects' = objects \ CleanedUp(r, n)
          \/ StorageFaults /\ UNCHANGED objects
  /\ UNCHANGED <<jobs, evidence, artifacts, custody, analysisRun, client, pc>>

(* _fail_job reads the expired rows again, when the except clause has no    *)
(* artifact left to delete.                                                 *)
FailLoad(r, t, uncleaned) ==
  /\ At(r, t, "cleanup")
  /\ uncleaned = {}
  /\ session' = [session EXCEPT ![r].job = jobs[JobOf(r)].status,
                                ![r].status = evidence[EvidenceOf(r)].status,
                                ![r].sections = evidence[EvidenceOf(r)].sections]
  /\ Goto(r, "failing")
  /\ UNCHANGED <<jobs, evidence, artifacts, objects, custody, analysisRun, client>>

(* A service that keeps an analysis run hands analysis_run.id to _fail_job. *)
(* The rollback expired that row too if it was committed, and an expired    *)
(* attribute cannot be loaded outside an awaited call: the except clause    *)
(* raises in turn, and run ends without _fail_job.                          *)
LoseRunId(r, t) ==
  /\ At(r, t, "cleanup")
  /\ session[r].created = {}
  /\ analysisRun[r] # "NONE"
  /\ Goto(r, "done")
  /\ Close(r)
  /\ UNCHANGED <<jobs, evidence, artifacts, objects, custody, analysisRun, client>>

UnknownStatusM == "ERROR"
StillRunningM == "RUNNING"
FailedStatus == "FAILED"

(* _fail_job commits; a run whose first transaction was rolled back has no  *)
(* analysis run row to mark.                                                *)
CommitFailed(r, t, status, events) ==
  /\ At(r, t, "failing")
  /\ jobs' = [jobs EXCEPT ![JobOf(r)].status = Flush(@, session[r].job, FailedStatus)]
  /\ evidence' = UpdatedEvidence(EvidenceOf(r), session[r], status, session[r].sections)
  /\ custody' = custody \cup events
  /\ analysisRun' = [analysisRun EXCEPT ![r] = IF @ = "NONE" THEN @ ELSE "FAILED"]
  /\ Goto(r, "done")
  /\ Close(r)
  /\ UNCHANGED <<artifacts, objects, client>>
=============================================================================
