------------------------ MODULE PreprocessingService ------------------------
(***************************************************************************)
(* ProcessingOrchestrator (application/services/processing_service.py):    *)
(* PREPROCESSING jobs, which make registered evidence READY_FOR_ANALYSIS.  *)
(***************************************************************************)
EXTENDS JobRun

(* create_job looks at the original object, which nothing deletes, and at   *)
(* no status: evidence may be preprocessed again at any time.               *)
PreprocessingRequest(c, e) == Admit(c, e, "PREPROCESSING")

PreprocessingCheck(c) == CheckActive(c, "PREPROCESSING")

PreprocessingInsert(c) == Insert(c, "PREPROCESSING")

PreprocessingRead(r) ==
  ReadJob(r, "PREPROCESSING") \/ LoadEvidence(r, "PREPROCESSING")

PreprocessingBegin(r) ==
  \/ CommitRunning(r, "PREPROCESSING", "running", session[r].status, "NONE", {})
  \/ RunningConflict(r, "PREPROCESSING")

PreprocessingStarted(r) == RecordStarted(r, "PREPROCESSING")

PreprocessingStore(r) == StoreArtifact(r, "PREPROCESSING", "started")

PreprocessingSucceed(r) ==
  CommitSucceeded(r, "PREPROCESSING", "READY_FOR_ANALYSIS", SuccessEvents(r), "NONE")

PreprocessingRaise(r) == Raise(r, "PREPROCESSING") \/ RaiseOutside(r, "PREPROCESSING")

PreprocessingCleanup(r) ==
  \/ CleanupArtifact(r, "PREPROCESSING")
  \/ FailLoad(r, "PREPROCESSING", session[r].created)

StatusAfterPreprocessingFailure == "FAILED"

PreprocessingFail(r) ==
  CommitFailed(r, "PREPROCESSING", StatusAfterPreprocessingFailure,
               {Event(r, "FAILED", 0)})

(* cancel looks only at the job row it read; no endpoint calls it, and it   *)
(* asks nobody to stop.                                                      *)
CancelRead(c, j) ==
  /\ Cancellable
  /\ client[c].at = "idle"
  /\ jobs[j].status \in ActiveStatus
  /\ client' = [client EXCEPT ![c] = [IdleClient EXCEPT !.at = "cancelling", !.job = j]]
  /\ UNCHANGED <<jobs, evidence, artifacts, objects, custody, analysisRun, pc, session>>

CancelCommit(c) ==
  /\ client[c].at = "cancelling"
  /\ jobs' = [jobs EXCEPT ![client[c].job].status = "CANCELLED"]
  /\ Answer(c)
  /\ UNCHANGED <<evidence, artifacts, objects, custody, analysisRun, pc, session>>

(* External: the broker hands an unacknowledged task to another worker, as  *)
(* acks_late allows.  Only PREPROCESSING jobs go through the broker.        *)
BrokerRedelivers(r) ==
  /\ Celery
  /\ TypeOf(r) = "PREPROCESSING"
  /\ pc[r] = "idle"
  /\ \E d \in Delivery : pc[<<JobOf(r), d>>] \in Unfinished \cup {"dead"}
  /\ Goto(r, "pending")
  /\ UNCHANGED <<jobs, evidence, artifacts, objects, custody, analysisRun, client, session>>

PreprocessingRun(r) ==
  \/ PreprocessingRead(r)
  \/ PreprocessingBegin(r)
  \/ PreprocessingStarted(r)
  \/ PreprocessingStore(r)
  \/ PreprocessingSucceed(r)
  \/ PreprocessingRaise(r)
  \/ PreprocessingCleanup(r)
  \/ PreprocessingFail(r)
=============================================================================
