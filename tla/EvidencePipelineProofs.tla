----------------------- MODULE EvidencePipelineProofs -----------------------
(***************************************************************************)
(* Safety of EvidencePipeline: its rows, and the objects behind them, how  *)
(* its jobs end and what they leave, for every set of evidence items and   *)
(* API requests, every number of jobs, deliveries and artifacts, and every *)
(* combination of the failures that the flags allow, except where a        *)
(* theorem assumes one away. PipelineProgressProofs goes on from here.     *)
(***************************************************************************)
EXTENDS EvidencePipeline, TLAPS

(* A job row that was created names its evidence and its type; one that was *)
(* not is empty, and no run of it exists.                                   *)
RowsFilled ==
  \A j \in Job :
    IF jobs[j].status = "ABSENT"
      THEN jobs[j] = NoJob /\ \A d \in Delivery : pc[<<j, d>>] = "idle"
      ELSE jobs[j].evidence \in Evidence /\ jobs[j].type \in JobType

(* A request on its way to an insert names the evidence it was made for, and *)
(* one on its way to a cancellation, if there are any, a job row that exists.*)
RequestsNamed ==
  \A c \in Client :
    /\ client[c].at \in {"admitted", "checked"} =>
         client[c].evidence \in Evidence /\ client[c].type \in JobType
    /\ client[c].at = "cancelling" =>
         client[c].job \in Job /\ jobs[client[c].job].status # "ABSENT" /\ Cancellable

TypeInv == TypeOK /\ RowsFilled /\ RequestsNamed

(* A run creates nothing before its pipeline works, and until it is over or *)
(* cleans up, the objects of all it created exist.                          *)
CreatedExist ==
  \A r \in Run :
    /\ pc[r] \in {"idle", "pending", "jobRead"} => session[r].created = {}
    /\ pc[r] \in {"loaded", "running", "started"} =>
         \A n \in session[r].created : <<r, n>> \in objects

(* Rows belong to runs that are over, or that delete nothing: no clean-up   *)
(* is ahead of them.                                                        *)
RowsAreDone ==
  \A k \in artifacts :
    \/ pc[k[1]] = "done"
    \/ pc[k[1]] # "idle" /\ TypeOf(k[1]) \notin Transactional

BackedInv == CreatedExist /\ RowsAreDone /\ ArtifactsBacked

-----------------------------------------------------------------------------
(* The services differ only in the arguments they give the steps of JobRun. *)
(* These operators are the steps with every argument a service may give:    *)
(* only the preprocessing and the analysis of evidence write its status.    *)

BeginStatus(r, t) == IF t = "ANALYSIS" THEN "ANALYZING" ELSE session[r].status

SuccessStatus(r, t) ==
  CASE t = "PREPROCESSING" -> "READY_FOR_ANALYSIS"
    [] t = "ANALYSIS"      -> "ANALYZED"
    [] OTHER               -> session[r].status

FailureStatus(r, t) ==
  CASE t = "PREPROCESSING" -> StatusAfterPreprocessingFailure
    [] t = "ANALYSIS"      -> StatusAfterAnalysisFailure(session[r].status)
    [] OTHER               -> session[r].status

Begins(r, t) ==
  \E next \in {"running", "started"}, run \in {"NONE", "RUNNING"},
     rows \in {StagedRows(r), {}} :
    /\ rows # {} => t \notin Transactional
    /\ t = "ANALYSIS" => run = "RUNNING"
    /\ CommitRunning(r, t, next, BeginStatus(r, t), run, rows)

Stores(r, t) == \E here \in {"loaded", "started"} : StoreArtifact(r, t, here)

CleansUp(r, t) == t \in Transactional /\ CleanupArtifact(r, t)

Reloads(r, t) ==
  \E uncleaned \in {session[r].created, {}} :
    /\ t \in Transactional => uncleaned = session[r].created
    /\ t = "ANALYSIS" => analysisRun[r] = "NONE"
    /\ FailLoad(r, t, uncleaned)

Publishes(r, t) ==
  \E events \in {SuccessEvents(r), {}}, run \in {"NONE", "SUCCEEDED"} :
    /\ t \in Audited => events = SuccessEvents(r)
    /\ t \in {"ANALYSIS", "MULTIMODAL_FUSION"} => run = "SUCCEEDED"
    /\ CommitSucceeded(r, t, SuccessStatus(r, t), events, run)

Fails(r, t) ==
  \E events \in {{Event(r, "FAILED", 0)}, {}} :
    /\ t \in Audited => events = {Event(r, "FAILED", 0)}
    /\ CommitFailed(r, t, FailureStatus(r, t), events)

StepOf(r, t) ==
  \/ ReadJob(r, t)
  \/ LoadEvidence(r, t)
  \/ Begins(r, t)
  \/ RunningConflict(r, t)
  \/ RecordStarted(r, t)
  \/ Stores(r, t)
  \/ Publishes(r, t)
  \/ Raise(r, t)
  \/ RaiseOutside(r, t)
  \/ CleansUp(r, t)
  \/ LoseRunId(r, t)
  \/ Reloads(r, t)
  \/ Fails(r, t)

(* Every service but preprocessing asks for evidence open for analysis.     *)
Admissible(e, t) ==
  /\ t # "PREPROCESSING" => evidence[e].status \in {"READY_FOR_ANALYSIS", "ANALYZED"}
  /\ t = "ANALYSIS" => ExtractionDone(e)

RequestStep ==
  \/ \E c \in Client, e \in Evidence, t \in JobType : Admissible(e, t) /\ Admit(c, e, t)
  \/ \E c \in Client, t \in JobType : CheckActive(c, t) \/ Insert(c, t)
  \/ \E e \in Evidence, t \in JobType : DispatchAgain(e, t)
  \/ \E c \in Client : Cancel(c)

(* Every run step of the ten services is one of the shared steps.           *)
LEMMA RunStepShape ==
  ASSUME TypeOK, NEW r \in Run, RunStep(r)
  PROVE  \E t \in JobType : StepOf(r, t)
  <1> USE DEF JobType, StepOf, Begins, Stores, Publishes, CleansUp, Reloads, Fails,
          Audited, Transactional, BeginStatus, SuccessStatus, FailureStatus
  <1>2. CASE PreprocessingRun(r)
    <2>1. StepOf(r, "PREPROCESSING")
      BY <1>2 DEF PreprocessingRun, PreprocessingRead, PreprocessingBegin,
         PreprocessingStarted, PreprocessingStore, PreprocessingSucceed,
         PreprocessingRaise, PreprocessingCleanup, PreprocessingFail
    <2> QED
      BY <2>1
  <1>3. CASE ExtractionRun(r)
    <2>1. StepOf(r, "EXTRACTION")
      BY <1>3 DEF ExtractionRun, ExtractionRead, ExtractionBegin,
         ExtractionStarted, ExtractionStore, ExtractionSucceed, ExtractionRaise,
         ExtractionCleanup, ExtractionFail
    <2> QED
      BY <2>1
  <1>4. CASE ForensicRun(r)
    <2>1. StepOf(r, "ANALYSIS")
      BY <1>4 DEF ForensicRun, AnalysisRead, AnalysisBegin, AnalysisStarted,
         AnalysisStore, AnalysisSucceed, AnalysisRaise, AnalysisCleanup, AnalysisFail
    <2> QED
      BY <2>1
  <1>5. CASE ComparisonRun(r)
    <2>1. StepOf(r, "COMPARISON")
      BY <1>5 DEF ComparisonRun, ComparisonRead, ComparisonBegin,
         ComparisonStarted, ComparisonStore, ComparisonSucceed, ComparisonRaise,
         ComparisonCleanup, ComparisonFail
    <2> QED
      BY <2>1
  <1>6. CASE ImageAIRun(r)
    <2>1. StepOf(r, "IMAGE_AI_ANALYSIS")
      BY <1>6 DEF ImageAIRun, ImageAIRead, ImageAIBegin, ImageAIStore,
         ImageAISucceed, ImageAIRaise, ImageAICleanup, ImageAIFail
    <2> QED
      BY <2>1
  <1>7. CASE DocumentAIRun(r)
    <2>1. StepOf(r, "DOCUMENT_AI_ANALYSIS")
      BY <1>7 DEF DocumentAIRun, DocumentAIRead, DocumentAIBegin, DocumentAIStore,
         DocumentAISucceed, DocumentAIRaise, DocumentAICleanup, DocumentAIFail
    <2> QED
      BY <2>1
  <1>8. CASE SignatureRun(r)
    <2>1. StepOf(r, "SIGNATURE_VERIFICATION")
      BY <1>8 DEF SignatureRun, SignatureRead, SignatureBegin, SignatureStore,
         SignatureSucceed, SignatureRaise, SignatureCleanup, SignatureFail
    <2> QED
      BY <2>1
  <1>9. CASE VideoAIRun(r)
    <2>1. StepOf(r, "VIDEO_AI_ANALYSIS")
      BY <1>9 DEF VideoAIRun, VideoAIRead, VideoAIBegin, VideoAIStore,
         VideoAISucceed, VideoAIRaise, VideoAICleanup, VideoAIFail
    <2> QED
      BY <2>1
  <1>10. CASE AudioAIRun(r)
    <2>1. StepOf(r, "AUDIO_AI_ANALYSIS")
      BY <1>10 DEF AudioAIRun, AudioAIRead, AudioAIBegin, AudioAIStore,
         AudioAISucceed, AudioAIRaise, AudioAICleanup, AudioAIFail
    <2> QED
      BY <2>1
  <1>11. CASE FusionRun(r)
    <2>1. StepOf(r, "MULTIMODAL_FUSION")
      BY <1>11 DEF FusionRun, FusionRead, FusionBegin, FusionSucceed, FusionRaise,
         FusionCleanup, FusionFail
    <2> QED
      BY <2>1
  <1> QED
    BY <1>2, <1>3, <1>4, <1>5, <1>6, <1>7, <1>8, <1>9, <1>10, <1>11 DEF RunStep,
       EngineRun

(* So is every step of a request.                                           *)
LEMMA RequestShape ==
  ASSUME \/ \E c \in Client : Request(c) \/ EngineRequest(c) \/ Cancel(c)
         \/ \E e \in Evidence : Returned(e)
  PROVE  RequestStep
  <1> USE DEF JobType, RequestStep, Admissible, AnalysisAllowed
  <1>1. ASSUME NEW c \in Client, Request(c) PROVE RequestStep
    BY <1>1 DEF Request, PreprocessingRequest, ExtractionRequest, AnalysisRequest,
       PreprocessingCheck, ExtractionCheck, AnalysisCheck, PreprocessingInsert,
       ExtractionInsert, AnalysisInsert
  <1>2. ASSUME NEW e \in Evidence, Returned(e) PROVE RequestStep
    BY <1>2 DEF Returned, ExtractionReturned, AnalysisReturned
  <1>3. ASSUME NEW c \in Client, EngineRequest(c) PROVE RequestStep
    BY <1>3 DEF EngineRequest, ComparisonRequest, ImageAIRequest, DocumentAIRequest,
       SignatureRequest, VideoAIRequest, AudioAIRequest, FusionRequest, ComparisonCheck,
       ImageAICheck, DocumentAICheck, SignatureCheck, VideoAICheck, AudioAICheck,
       FusionCheck, ComparisonInsert, ImageAIInsert, DocumentAIInsert, SignatureInsert,
       VideoAIInsert, AudioAIInsert, FusionInsert
  <1> QED
    BY <1>1, <1>2, <1>3

-----------------------------------------------------------------------------
(* Types *)

(* The row of a run that left "idle" exists.                                *)
LEMMA BegunHasRow ==
  ASSUME TypeInv, NEW r \in Run, pc[r] # "idle"
  PROVE  /\ JobOf(r) \in Job
         /\ jobs[JobOf(r)].status # "ABSENT"
         /\ EvidenceOf(r) \in Evidence
         /\ TypeOf(r) \in JobType
  <1>1. r[1] \in Job /\ r[2] \in Delivery /\ r = <<r[1], r[2]>>
    BY DEF Run
  <1> QED
    BY <1>1 DEF TypeInv, RowsFilled, JobOf, EvidenceOf, TypeOf

(* Writing an evidence row keeps the table typed.                           *)
LEMMA EvidenceTyped ==
  ASSUME TypeOK, NEW e, NEW s \in SessionState, NEW status \in EvidenceStatus,
         NEW sections \in SUBSET JobType
  PROVE  UpdatedEvidence(e, s, status, sections) \in [Evidence -> EvidenceRow]
  <1>1. CASE e \in Evidence
    <2>1. evidence[e] \in EvidenceRow
      BY <1>1 DEF TypeOK
    <2>2. /\ Flush(evidence[e].status, s.status, status) \in EvidenceStatus
          /\ Flush(evidence[e].sections, s.sections, sections) \in SUBSET JobType
      BY <2>1 DEF Flush, EvidenceRow
    <2> QED
      BY <1>1, <2>2 DEF UpdatedEvidence, TypeOK, EvidenceRow
  <1>2. CASE e \notin Evidence
    BY <1>2 DEF UpdatedEvidence, TypeOK
  <1> QED
    BY <1>1, <1>2

(* What a run may write into evidence.status is one of its values.          *)
LEMMA StatusesTyped ==
  ASSUME NEW r, NEW t, session[r].status \in EvidenceStatus
  PROVE  {BeginStatus(r, t), SuccessStatus(r, t), FailureStatus(r, t)}
           \subseteq EvidenceStatus
  BY DEF BeginStatus, SuccessStatus, FailureStatus, StatusAfterPreprocessingFailure,
     StatusAfterAnalysisFailure, EvidenceStatus

(* A step of a run keeps every variable within its type.                    *)
LEMMA RunStepType ==
  ASSUME TypeInv, NEW r \in Run, NEW t \in JobType, StepOf(r, t)
  PROVE  TypeOK'
  <1>1. TypeOK /\ session[r] \in SessionState /\ pc[r] # "idle"
    BY DEF TypeInv, TypeOK, StepOf, ReadJob, LoadEvidence, Begins, CommitRunning,
       RunningConflict, RecordStarted, Stores, StoreArtifact, Publishes,
       CommitSucceeded, Raise, RaiseOutside, CleansUp, CleanupArtifact, LoseRunId,
       Reloads, FailLoad, Fails, CommitFailed, At
  <1>2. /\ JobOf(r) \in Job /\ EvidenceOf(r) \in Evidence
        /\ jobs[JobOf(r)] \in JobRow /\ evidence[EvidenceOf(r)] \in EvidenceRow
    BY <1>1, BegunHasRow DEF TypeOK
  <1> USE DEF Goto, RunPc, Close, NewSession
  <1>3. CASE ReadJob(r, t)
    BY <1>1, <1>3 DEF ReadJob, TypeOK
  <1>4. CASE LoadEvidence(r, t)
    BY <1>1, <1>2, <1>4 DEF LoadEvidence, TypeOK, SessionState, EvidenceRow, JobStatus
  <1>5. CASE Begins(r, t)
    <2> DEFINE status == BeginStatus(r, t)
    <2>4. status \in EvidenceStatus
      BY <1>1, StatusesTyped DEF SessionState
    <2>1. PICK next \in {"running", "started"}, run \in {"NONE", "RUNNING"},
               rows \in {StagedRows(r), {}} :
            CommitRunning(r, t, next, status, run, rows)
      BY <1>5 DEF Begins
    <2> HIDE DEF status
    <2>3. artifacts' \subseteq ArtifactKey
      BY <1>1, <2>1 DEF CommitRunning, TypeOK, StagedRows, SessionState, ArtifactKey
    <2>2. evidence' \in [Evidence -> EvidenceRow]
      BY <1>1, <2>1, <2>4, EvidenceTyped DEF CommitRunning, SessionState
    <2> QED
      BY <1>1, <1>2, <2>1, <2>2, <2>3, <2>4
         DEF CommitRunning, TypeOK, JobRow, JobStatus, SessionState, AnalysisRunStatus
  <1>6. CASE RunningConflict(r, t)
    BY <1>1, <1>6 DEF RunningConflict, TypeOK
  <1>7. CASE RecordStarted(r, t)
    BY <1>1, <1>7 DEF RecordStarted, TypeOK, CustodyRow, CustodyType, Event
  <1>8. CASE Stores(r, t)
    BY <1>1, <1>8 DEF Stores, StoreArtifact, NextPayload, Payloads, Payload, TypeOK,
       ArtifactKey, SessionState
  <1>9. CASE Publishes(r, t)
    <2> DEFINE status == SuccessStatus(r, t)
    <2>8. status \in EvidenceStatus
      BY <1>1, StatusesTyped DEF SessionState
    <2>1. PICK events \in {SuccessEvents(r), {}}, run \in {"NONE", "SUCCEEDED"} :
            CommitSucceeded(r, t, status, events, run)
      BY <1>9 DEF Publishes
    <2> HIDE DEF status
    <2>2. evidence' \in [Evidence -> EvidenceRow]
      BY <1>1, <2>1, <2>8, EvidenceTyped DEF CommitSucceeded, SessionState, Merged
    <2>3. artifacts' \subseteq ArtifactKey /\ custody' \subseteq CustodyRow
      BY <1>1, <2>1 DEF CommitSucceeded, TypeOK, StagedRows, ArtifactKey, SuccessEvents,
         SessionState, Event, CustodyRow, CustodyType
    <2>4. jobs' \in [Job -> JobRow] /\ analysisRun' \in [Run -> AnalysisRunStatus]
      BY <1>1, <1>2, <2>1 DEF CommitSucceeded, TypeOK, JobRow, JobStatus,
         AnalysisRunStatus
    <2>5. NewSession \in SessionState
      BY DEF SessionState, EvidenceStatus, JobStatus
    <2>6. pc' \in [Run -> RunPc] /\ session' \in [Run -> SessionState]
      BY <1>1, <2>1, <2>5 DEF CommitSucceeded, TypeOK
    <2>7. objects' = objects /\ client' = client
      BY <2>1 DEF CommitSucceeded
    <2> QED
      BY <1>1, <2>2, <2>3, <2>4, <2>6, <2>7 DEF TypeOK
  <1>10. CASE Raise(r, t)
    BY <1>1, <1>10 DEF Raise, TypeOK
  <1>14. CASE RaiseOutside(r, t)
    BY <1>1, <1>14 DEF RaiseOutside, TypeOK
  <1>11. CASE CleansUp(r, t)
    BY <1>1, <1>11 DEF CleansUp, CleanupArtifact, TypeOK, SessionState
  <1>15. CASE LoseRunId(r, t)
    BY <1>1, <1>15 DEF LoseRunId, TypeOK, SessionState, JobStatus, EvidenceStatus
  <1>12. CASE Reloads(r, t)
    <2>1. PICK uncleaned : FailLoad(r, t, uncleaned)
      BY <1>12 DEF Reloads
    <2> QED
      BY <1>1, <1>2, <2>1 DEF FailLoad, TypeOK, SessionState, EvidenceRow, JobRow
  <1>13. CASE Fails(r, t)
    <2> DEFINE status == FailureStatus(r, t)
    <2>5. status \in EvidenceStatus
      BY <1>1, StatusesTyped DEF SessionState
    <2>1. PICK events \in {{Event(r, "FAILED", 0)}, {}} : CommitFailed(r, t, status, events)
      BY <1>13 DEF Fails
    <2> HIDE DEF status
    <2>2. evidence' \in [Evidence -> EvidenceRow]
      BY <1>1, <2>1, <2>5, EvidenceTyped DEF CommitFailed, SessionState
    <2>3. custody' \subseteq CustodyRow
      BY <1>1, <2>1 DEF CommitFailed, TypeOK, Event, CustodyRow, CustodyType
    <2>4. jobs' \in [Job -> JobRow]
      BY <1>1, <1>2, <2>1 DEF CommitFailed, TypeOK, JobRow, JobStatus, Flush,
         FailedStatus
    <2> QED
      BY <1>1, <2>1, <2>2, <2>3, <2>4 DEF CommitFailed, TypeOK, SessionState,
         AnalysisRunStatus, EvidenceStatus, JobStatus
  <1> QED
    BY <1>3, <1>4, <1>5, <1>6, <1>7, <1>8, <1>9, <1>10, <1>11, <1>12, <1>13, <1>14,
       <1>15 DEF StepOf

(* A step of a run touches its own job row, never its evidence or type, and *)
(* no other run.                                                            *)
LEMMA RunStepFrame ==
  ASSUME TypeInv, NEW r \in Run, NEW t \in JobType, StepOf(r, t)
  PROVE  /\ client' = client
         /\ \A s \in Run : s # r => pc'[s] = pc[s] /\ session'[s] = session[s]
         /\ \A j \in Job : j # JobOf(r) => jobs'[j] = jobs[j]
         /\ jobs'[JobOf(r)].evidence = EvidenceOf(r) /\ jobs'[JobOf(r)].type = TypeOf(r)
         /\ jobs'[JobOf(r)].status # "ABSENT"
  <1>1. TypeOK /\ pc[r] # "idle"
    BY DEF TypeInv, TypeOK, StepOf, ReadJob, LoadEvidence, Begins, CommitRunning,
       RunningConflict, RecordStarted, Stores, StoreArtifact, Publishes,
       CommitSucceeded, Raise, RaiseOutside, CleansUp, CleanupArtifact, LoseRunId,
       Reloads, FailLoad, Fails, CommitFailed, At
  <1>2. JobOf(r) \in Job /\ jobs[JobOf(r)] \in JobRow /\ jobs[JobOf(r)].status # "ABSENT"
    BY <1>1, BegunHasRow DEF TypeOK
  <1>3. client' = client
    BY DEF StepOf, ReadJob, LoadEvidence, Begins, CommitRunning, RunningConflict,
       RecordStarted, Stores, StoreArtifact, Publishes, CommitSucceeded, Raise,
       RaiseOutside, CleansUp, CleanupArtifact, LoseRunId, Reloads, FailLoad, Fails,
       CommitFailed
  <1>4. \A s \in Run : s # r => pc'[s] = pc[s]
    BY <1>1 DEF TypeOK, Goto, StepOf, ReadJob, LoadEvidence, Begins, CommitRunning,
       RunningConflict, RecordStarted, Stores, StoreArtifact, Publishes,
       CommitSucceeded, Raise, RaiseOutside, CleansUp, CleanupArtifact, LoseRunId,
       Reloads, FailLoad, Fails, CommitFailed
  <1>5. \A s \in Run : s # r => session'[s] = session[s]
    BY <1>1 DEF TypeOK, Close, StepOf, ReadJob, LoadEvidence, Begins, CommitRunning,
       RunningConflict, RecordStarted, Stores, StoreArtifact, Publishes,
       CommitSucceeded, Raise, RaiseOutside, CleansUp, CleanupArtifact, LoseRunId,
       Reloads, FailLoad, Fails, CommitFailed
  <1>6. \/ jobs' = jobs
        \/ \E status \in JobStatus \ {"ABSENT"} :
             jobs' = [jobs EXCEPT ![JobOf(r)].status = status]
    <2>1. CASE Begins(r, t) \/ Publishes(r, t)
      BY <2>1 DEF Begins, CommitRunning, Publishes, CommitSucceeded, JobStatus
    <2>2. CASE Fails(r, t)
      BY <1>2, <2>2 DEF Fails, CommitFailed, Flush, FailedStatus, JobStatus, JobRow
    <2>3. CASE ~Begins(r, t) /\ ~Publishes(r, t) /\ ~Fails(r, t)
      BY <2>3 DEF StepOf, ReadJob, LoadEvidence, RunningConflict, RecordStarted, Stores,
         StoreArtifact, Raise, RaiseOutside, CleansUp, CleanupArtifact, LoseRunId,
         Reloads, FailLoad
    <2> QED
      BY <2>1, <2>2, <2>3
  <1>7. /\ \A j \in Job : j # JobOf(r) => jobs'[j] = jobs[j]
        /\ jobs'[JobOf(r)].evidence = EvidenceOf(r) /\ jobs'[JobOf(r)].type = TypeOf(r)
        /\ jobs'[JobOf(r)].status # "ABSENT"
    BY <1>1, <1>2, <1>6 DEF TypeOK, JobRow, EvidenceOf, TypeOf
  <1> QED
    BY <1>3, <1>4, <1>5, <1>7

(* A run works on a row that exists, and leaves it filled.                  *)
LEMMA RunStepTypeInv ==
  ASSUME TypeInv, NEW r \in Run, NEW t \in JobType, StepOf(r, t)
  PROVE  TypeInv'
  <1>1. TypeOK'
    BY RunStepType
  <1>2. /\ JobOf(r) \in Job /\ EvidenceOf(r) \in Evidence /\ TypeOf(r) \in JobType
        /\ \A j \in Job, d \in Delivery :
             <<j, d>> \in Run /\ (<<j, d>> = r => j = JobOf(r))
    <2>1. pc[r] # "idle"
      BY DEF StepOf, ReadJob, LoadEvidence, Begins, CommitRunning, RunningConflict,
         RecordStarted, Stores, StoreArtifact, Publishes, CommitSucceeded, Raise,
         RaiseOutside, CleansUp, CleanupArtifact, LoseRunId, Reloads, FailLoad, Fails,
         CommitFailed, At
    <2> QED
      BY <2>1, BegunHasRow DEF Run, JobOf
  <1>3. RowsFilled'
    BY <1>2, RunStepFrame DEF TypeInv, RowsFilled
  <1>4. RequestsNamed'
    BY <1>2, RunStepFrame DEF TypeInv, RequestsNamed
  <1> QED
    BY <1>1, <1>3, <1>4 DEF TypeInv

(* Requests fill the row they insert.                                       *)
LEMMA RequestTypeInv ==
  ASSUME TypeInv, RequestStep
  PROVE  TypeInv'
  <1> USE DEF TypeInv
  <1>1. ASSUME NEW c \in Client, NEW e \in Evidence, NEW t \in JobType, Admit(c, e, t)
        PROVE  TypeInv'
    BY <1>1 DEF Admit, TypeOK, ClientState, RowsFilled, RequestsNamed
  <1>2. ASSUME NEW c \in Client, NEW t \in JobType, CheckActive(c, t)
        PROVE  TypeInv'
    BY <1>2 DEF CheckActive, Answer, IdleClient, TypeOK, ClientState, RowsFilled,
       RequestsNamed
  <1>3. ASSUME NEW c \in Client, NEW t \in JobType, Insert(c, t)
        PROVE  TypeInv'
    <2>1. PICK j \in Job :
            /\ jobs[j].status = "ABSENT"
            /\ \/ /\ jobs' = [jobs EXCEPT ![j] = [evidence |-> client[c].evidence,
                                                  type |-> t, status |-> "QUEUED"]]
                  /\ Goto(<<j, FirstDelivery>>, "pending")
               \/ UNCHANGED <<jobs, pc>>
      BY <1>3 DEF Insert, NextFreeJob
    <2>2. client[c].evidence \in Evidence /\ <<j, FirstDelivery>> \in Run
      BY <1>3, FirstDeliveryAssumption DEF Insert, RequestsNamed, Run
    <2>3. jobs' \in [Job -> JobRow]
      BY <2>1, <2>2 DEF TypeOK, JobRow, JobStatus
    <2>4. pc' \in [Run -> RunPc]
      BY <2>1, <2>2 DEF TypeOK, Goto, RunPc
    <2>7. client' \in [Client -> ClientState]
      BY <1>3 DEF Insert, Answer, IdleClient, TypeOK, ClientState
    <2>8. \A i \in Job : jobs[i].status # "ABSENT" => jobs'[i] = jobs[i]
      BY <2>1 DEF TypeOK
    <2>9. RequestsNamed'
      BY <1>3, <2>8 DEF Insert, Answer, IdleClient, TypeOK, RequestsNamed
    <2>5. TypeOK'
      BY <1>3, <2>3, <2>4, <2>7 DEF TypeOK, Insert
    <2>6. RowsFilled'
      BY <2>1, <2>2 DEF RowsFilled, TypeOK, Goto, Run
    <2> QED
      BY <2>5, <2>6, <2>9
  <1>4. ASSUME NEW e \in Evidence, NEW t \in JobType, DispatchAgain(e, t)
        PROVE  TypeInv'
    <2>1. PICK r \in Run : jobs[JobOf(r)].status = "SUCCEEDED" /\ Goto(r, "pending")
      BY <1>4 DEF DispatchAgain
    <2>2. TypeOK' /\ RequestsNamed' /\ jobs' = jobs
      BY <1>4, <2>1 DEF DispatchAgain, TypeOK, RequestsNamed, Goto, RunPc
    <2>3. RowsFilled'
      BY <2>1, <2>2 DEF RowsFilled, Goto, TypeOK, Run, JobOf
    <2> QED
      BY <2>2, <2>3
  <1>5. ASSUME NEW c \in Client, Cancel(c)
        PROVE  TypeInv'
    <2>1. CASE \E j \in Job : CancelRead(c, j)
      <3>1. PICK j \in Job : CancelRead(c, j)
        BY <2>1
      <3>2. TypeOK'
        BY <3>1 DEF CancelRead, IdleClient, TypeOK, ClientState
      <3>3. RowsFilled'
        BY <3>1 DEF CancelRead, RowsFilled
      <3>4. RequestsNamed'
        BY <3>1 DEF CancelRead, IdleClient, TypeOK, RequestsNamed, ActiveStatus
      <3> QED
        BY <3>2, <3>3, <3>4
    <2>2. CASE CancelCommit(c)
      <3>1. client[c].job \in Job /\ jobs[client[c].job].status # "ABSENT"
        BY <2>2 DEF CancelCommit, RequestsNamed
      <3>2. jobs' = [jobs EXCEPT ![client[c].job].status = "CANCELLED"]
        BY <2>2 DEF CancelCommit
      <3>3. TypeOK'
        BY <2>2, <3>1, <3>2 DEF CancelCommit, Answer, IdleClient, TypeOK, JobRow,
           JobStatus, ClientState
      <3>4. RowsFilled'
        BY <2>2, <3>1, <3>2 DEF CancelCommit, RowsFilled, TypeOK, JobRow
      <3>5. RequestsNamed'
        BY <2>2, <3>1, <3>2 DEF CancelCommit, Answer, IdleClient, RequestsNamed, TypeOK,
           JobRow
      <3> QED
        BY <3>3, <3>4, <3>5
    <2> QED
      BY <1>5, <2>1, <2>2 DEF Cancel
  <1> QED
    BY <1>1, <1>2, <1>3, <1>4, <1>5 DEF RequestStep

(* A redelivery and a crash move one run whose job row exists.              *)
LEMMA ExternalTypeInv ==
  ASSUME TypeInv, NEW r \in Run, BrokerRedelivers(r) \/ Crash(r)
  PROVE  TypeInv'
  <1> USE DEF TypeInv
  <1>1. JobOf(r) \in Job /\ jobs[JobOf(r)].status # "ABSENT" /\ r = <<JobOf(r), r[2]>>
    <2>1. CASE BrokerRedelivers(r)
      BY <2>1 DEF BrokerRedelivers, TypeOf, RowsFilled, NoJob, Run, JobOf
    <2>2. CASE Crash(r)
      BY <2>2, BegunHasRow DEF Crash, Unfinished, Executing, Run, JobOf
    <2> QED
      BY <2>1, <2>2
  <1>2. NewSession \in SessionState
    BY DEF NewSession, SessionState, EvidenceStatus, JobStatus
  <1>3. TypeOK'
    BY <1>2 DEF BrokerRedelivers, Crash, Goto, Close, TypeOK, RunPc
  <1>4. jobs' = jobs /\ client' = client /\ \A s \in Run : s # r => pc'[s] = pc[s]
    BY DEF BrokerRedelivers, Crash, Goto, TypeOK
  <1>5. RowsFilled'
    BY <1>1, <1>4 DEF RowsFilled, Run
  <1>6. RequestsNamed'
    BY <1>4 DEF RequestsNamed
  <1> QED
    BY <1>3, <1>5, <1>6

(* There are no rows and no requests at first.                              *)
LEMMA InitTypeInv == Init => TypeInv
  BY NoEvidenceAssumption DEF Init, TypeInv, TypeOK, RowsFilled, RequestsNamed, NoJob,
     IdleClient, NewSession, JobRow, JobStatus, EvidenceRow, EvidenceStatus,
     AnalysisRunStatus, ClientState, RunPc, SessionState, Run

(* Next, sorted by what the lemmas above are about.                         *)
LEMMA NextShape ==
  ASSUME TypeOK, Next
  PROVE  \/ RequestStep
         \/ \E r \in Run, t \in JobType : StepOf(r, t)
         \/ \E r \in Run : BrokerRedelivers(r) \/ Crash(r)
  <1>1. CASE \/ \E c \in Client : Request(c) \/ EngineRequest(c) \/ Cancel(c)
             \/ \E e \in Evidence : Returned(e)
    BY <1>1, RequestShape
  <1>2. ASSUME NEW r \in Run, RunStep(r) PROVE \E t \in JobType : StepOf(r, t)
    BY <1>2, RunStepShape
  <1> QED
    BY <1>1, <1>2 DEF Next

(* Every variable keeps its type, and every row is filled as soon as it     *)
(* exists, whatever requests, runs, redeliveries and crashes interleave.    *)
THEOREM PipelineTypeInv == Spec => []TypeInv
  <1>1. TypeInv /\ [Next]_vars => TypeInv'
    <2> SUFFICES ASSUME TypeInv, [Next]_vars PROVE TypeInv'
      OBVIOUS
    <2>1. CASE Next
      BY <2>1, NextShape, RequestTypeInv, RunStepTypeInv, ExternalTypeInv DEF TypeInv
    <2>2. CASE UNCHANGED vars
      BY <2>2 DEF vars, TypeInv, TypeOK, RowsFilled, RequestsNamed
    <2> QED
      BY <2>1, <2>2
  <1> QED
    BY <1>1, InitTypeInv, PTL DEF Spec

(* Every variable keeps its type.                                           *)
THEOREM PipelineTypeCorrect == Spec => []TypeOK
  <1>1. TypeInv => TypeOK
    BY DEF TypeInv
  <1> QED
    BY <1>1, PipelineTypeInv, PTL

-----------------------------------------------------------------------------
(* One active job per slot.  The step that makes a row active is an INSERT  *)
(* or an UPDATE the unique index saw; every other step keeps rows as active *)
(* as they were, or ends them.                                              *)

IndexSaw(k) ==
  /\ \A j \in Job : j # k => jobs'[j] = jobs[j]
  /\ jobs'[k].status \in ActiveStatus =>
       \/ jobs'[k] = jobs[k]
       \/ IndexAllows(k, jobs'[k].evidence, jobs'[k].type)

(* A request changes one row: it inserts the row the index allowed, or      *)
(* cancels a job.                                                           *)
LEMMA RequestIndexed ==
  ASSUME TypeInv, RequestStep
  PROVE  jobs' = jobs \/ \E k \in Job : IndexSaw(k)
  <1>1. ASSUME NEW c \in Client, NEW t \in JobType, Insert(c, t)
        PROVE  jobs' = jobs \/ \E k \in Job : IndexSaw(k)
    BY <1>1 DEF Insert, IndexSaw, TypeInv, TypeOK
  <1>2. ASSUME NEW c \in Client, CancelCommit(c)
        PROVE  \E k \in Job : IndexSaw(k)
    <2>1. client[c].job \in Job /\ jobs[client[c].job] \in JobRow
      BY <1>2 DEF CancelCommit, TypeInv, TypeOK, RequestsNamed
    <2>2. IndexSaw(client[c].job)
      BY <1>2, <2>1 DEF CancelCommit, IndexSaw, TypeInv, TypeOK, JobRow, ActiveStatus
    <2> QED
      BY <2>1, <2>2
  <1> QED
    BY <1>1, <1>2 DEF RequestStep, Admit, CheckActive, DispatchAgain, Cancel, CancelRead

(* A run changes its own row: to RUNNING when the index allows it, or to an *)
(* end.                                                                     *)
LEMMA RunStepIndexed ==
  ASSUME TypeInv, NEW r \in Run, NEW t \in JobType, StepOf(r, t)
  PROVE  jobs' = jobs \/ \E k \in Job : IndexSaw(k)
  <1>1. pc[r] # "idle"
    BY DEF StepOf, ReadJob, LoadEvidence, Begins, CommitRunning, RunningConflict,
       RecordStarted, Stores, StoreArtifact, Publishes, CommitSucceeded, Raise,
       RaiseOutside, CleansUp, CleanupArtifact, LoseRunId, Reloads, FailLoad, Fails,
       CommitFailed, At
  <1>2. JobOf(r) \in Job /\ jobs[JobOf(r)] \in JobRow
    BY <1>1, BegunHasRow DEF TypeInv, TypeOK
  <1>3. CASE Begins(r, t)
    <2>1. /\ At(r, t, "loaded")
          /\ IndexAllows(JobOf(r), EvidenceOf(r), t)
          /\ jobs' = [jobs EXCEPT ![JobOf(r)].status = "RUNNING"]
      BY <1>3 DEF Begins, CommitRunning
    <2>2. jobs'[JobOf(r)].evidence = EvidenceOf(r) /\ jobs'[JobOf(r)].type = t
      BY <1>2, <2>1 DEF At, TypeOf, EvidenceOf, TypeInv, TypeOK, JobRow
    <2>3. IndexSaw(JobOf(r))
      BY <1>2, <2>1, <2>2 DEF IndexSaw, TypeInv, TypeOK
    <2> QED
      BY <1>2, <2>3
  <1>4. CASE Publishes(r, t)
    <2>1. jobs' = [jobs EXCEPT ![JobOf(r)].status = "SUCCEEDED"]
      BY <1>4 DEF Publishes, CommitSucceeded
    <2>2. IndexSaw(JobOf(r))
      BY <1>2, <2>1 DEF IndexSaw, TypeInv, TypeOK, JobRow, ActiveStatus
    <2> QED
      BY <1>2, <2>2
  <1>5. CASE Fails(r, t)
    <2>1. jobs' = [jobs EXCEPT ![JobOf(r)].status =
                     Flush(jobs[JobOf(r)].status, session[r].job, "FAILED")]
      BY <1>5 DEF Fails, CommitFailed, FailedStatus
    <2>2. jobs' = [jobs EXCEPT ![JobOf(r)].status = jobs[JobOf(r)].status]
          \/ jobs' = [jobs EXCEPT ![JobOf(r)].status = "FAILED"]
      BY <2>1 DEF Flush
    <2>3. jobs' = jobs \/ jobs' = [jobs EXCEPT ![JobOf(r)].status = "FAILED"]
      BY <1>2, <2>2 DEF TypeInv, TypeOK, JobRow
    <2>4. jobs' = jobs \/ IndexSaw(JobOf(r))
      BY <1>2, <2>3 DEF IndexSaw, TypeInv, TypeOK, JobRow, ActiveStatus
    <2> QED
      BY <1>2, <2>4
  <1>6. CASE ~Begins(r, t) /\ ~Publishes(r, t) /\ ~Fails(r, t)
    BY <1>6 DEF StepOf, ReadJob, LoadEvidence, RunningConflict, RecordStarted, Stores,
       StoreArtifact, Raise, RaiseOutside, CleansUp, CleanupArtifact, LoseRunId,
       Reloads, FailLoad
  <1> QED
    BY <1>3, <1>4, <1>5, <1>6

(* A change the index saw leaves one active row per slot.                   *)
LEMMA IndexKeepsUnique ==
  ASSUME ActiveUnique, NEW k \in Job, IndexSaw(k)
  PROVE  ActiveUnique'
  <1> SUFFICES ASSUME NEW i \in Job, NEW j \in Job, i # j,
                      jobs'[i].status \in ActiveStatus,
                      jobs'[j].status \in ActiveStatus,
                      jobs'[i].evidence = jobs'[j].evidence,
                      jobs'[i].type = jobs'[j].type
               PROVE  FALSE
    BY DEF ActiveUnique
  <1>1. CASE jobs'[k] = jobs[k]
    BY <1>1 DEF ActiveUnique, IndexSaw
  <1>2. CASE IndexAllows(k, jobs'[k].evidence, jobs'[k].type)
    <2>1. \A a \in ActiveJobs(jobs'[k].evidence, jobs'[k].type) : a = k
      BY <1>2 DEF IndexAllows
    <2>2. CASE i # k /\ j # k
      BY <2>2 DEF ActiveUnique, IndexSaw
    <2>3. CASE i = k \/ j = k
      BY <2>1, <2>3 DEF IndexSaw, ActiveJobs, JobsOf
    <2> QED
      BY <2>2, <2>3
  <1>3. CASE jobs'[k] # jobs[k] /\ jobs'[k].status \notin ActiveStatus
    BY <1>3 DEF ActiveUnique, IndexSaw
  <1> QED
    BY <1>1, <1>2, <1>3 DEF IndexSaw

(* At most one job of an evidence item and type is QUEUED or RUNNING: the   *)
(* check-then-insert of create_job and the read-then-update of run race,    *)
(* and the partial unique index alone keeps them apart.                     *)
THEOREM OneActiveJob == Spec => []ActiveUnique
  <1>1. Init => ActiveUnique
    BY DEF Init, ActiveUnique, NoJob, ActiveStatus
  <1>2. TypeInv /\ ActiveUnique /\ [Next]_vars => ActiveUnique'
    <2> SUFFICES ASSUME TypeInv, ActiveUnique, [Next]_vars PROVE ActiveUnique'
      OBVIOUS
    <2>1. jobs' = jobs \/ \E k \in Job : IndexSaw(k)
      <3>1. CASE \E r \in Run : BrokerRedelivers(r) \/ Crash(r)
        BY <3>1 DEF BrokerRedelivers, Crash
      <3>2. CASE UNCHANGED vars
        BY <3>2 DEF vars
      <3> QED
        BY <3>1, <3>2, NextShape, RequestIndexed, RunStepIndexed DEF TypeInv
    <2> QED
      BY <2>1, IndexKeepsUnique DEF ActiveUnique
  <1> QED
    BY <1>1, <1>2, PipelineTypeInv, PTL DEF Spec

-----------------------------------------------------------------------------
(* Published rows keep their files.  The only step that deletes an object   *)
(* is a run's clean-up of what it created itself.  When the answer to a     *)
(* COMMIT is never lost, a run that cleans up has published nothing, for    *)
(* rows belong to runs that are over (RowsAreDone).                         *)

(* A step of a run that neither publishes nor cleans up adds at most the    *)
(* objects the run records as its own.                                      *)
LEMMA RunStepCreates ==
  ASSUME TypeInv, BackedInv, NEW r \in Run, NEW t \in JobType, StepOf(r, t)
  PROVE  CreatedExist'
  <1> USE DEF TypeInv, BackedInv, CreatedExist
  <1>1. pc \in [Run -> RunPc] /\ session \in [Run -> SessionState]
    BY DEF TypeOK
  <1>2. \A s \in Run : s # r => pc'[s] = pc[s] /\ session'[s] = session[s]
    BY RunStepFrame
  <1>3. \A s \in Run : s # r => \A n : <<s, n>> \in objects => <<s, n>> \in objects'
    BY DEF StepOf, ReadJob, LoadEvidence, Begins, CommitRunning, RunningConflict,
       RecordStarted, Stores, StoreArtifact, Publishes, CommitSucceeded, Raise,
       RaiseOutside, CleansUp, CleanupArtifact, LoseRunId, CleanedUp, Reloads, FailLoad,
       Fails, CommitFailed
  <1>4. /\ pc'[r] \in {"idle", "pending", "jobRead"} => session'[r].created = {}
        /\ pc'[r] \in {"loaded", "running", "started"} =>
             \A n \in session'[r].created : <<r, n>> \in objects'
    <2>1. CASE ReadJob(r, t) \/ LoadEvidence(r, t)
      BY <1>1, <2>1 DEF ReadJob, LoadEvidence, At, Goto, SessionState
    <2>2. CASE Begins(r, t)
      BY <1>1, <2>2 DEF Begins, CommitRunning, At, Goto, SessionState
    <2>3. CASE RunningConflict(r, t) \/ RecordStarted(r, t) \/ Raise(r, t)
      BY <1>1, <2>3 DEF RunningConflict, RecordStarted, Raise, At, Goto
    <2>8. CASE RaiseOutside(r, t) \/ LoseRunId(r, t)
      BY <1>1, <2>8 DEF RaiseOutside, LoseRunId, At, Goto
    <2>4. CASE Stores(r, t)
      BY <1>1, <2>4 DEF Stores, StoreArtifact, At, Goto, SessionState
    <2>5. CASE Publishes(r, t)
      BY <1>1, <2>5 DEF Publishes, CommitSucceeded, At, Goto
    <2>6. CASE CleansUp(r, t)
      BY <1>1, <2>6 DEF CleansUp, CleanupArtifact, At
    <2>7. CASE Reloads(r, t) \/ Fails(r, t)
      BY <1>1, <2>7 DEF Reloads, FailLoad, Fails, CommitFailed, At, Goto
    <2> QED
      BY <2>1, <2>2, <2>3, <2>4, <2>5, <2>6, <2>7, <2>8 DEF StepOf
  <1> QED
    BY <1>2, <1>3, <1>4

(* A step of a run takes no file, row or event of a published artifact, and *)
(* publishes only what it stored.                                           *)
LEMMA RunStepBacked ==
  ASSUME AckLoss = FALSE, TypeInv, BackedInv, NEW r \in Run, NEW t \in JobType,
         StepOf(r, t)
  PROVE  BackedInv'
  <1> USE DEF TypeInv, BackedInv
  <1>1. /\ pc \in [Run -> RunPc] /\ artifacts \subseteq ArtifactKey
        /\ jobs \in [Job -> JobRow]
    BY DEF TypeOK
  <1>2. \A k \in ArtifactKey : k = <<k[1], k[2]>> /\ k[1] \in Run
    BY DEF ArtifactKey
  <1>3. /\ pc[r] \notin {"done", "idle"} /\ pc'[r] # "idle"
        /\ \A s \in Run : s # r => pc'[s] = pc[s]
        /\ \A s \in Run : pc[s] # "idle" => jobs'[JobOf(s)].type = TypeOf(s)
        /\ TypeOf(r) = t
    <2>1. pc[r] \notin {"done", "idle"} /\ TypeOf(r) = t
      BY DEF StepOf, ReadJob, LoadEvidence, Begins, CommitRunning, RunningConflict,
         RecordStarted, Stores, StoreArtifact, Publishes, CommitSucceeded, Raise,
         RaiseOutside, CleansUp, CleanupArtifact, LoseRunId, Reloads, FailLoad, Fails,
         CommitFailed, At
    <2>2. pc'[r] # "idle"
      BY <1>1, <2>1 DEF Goto, StepOf, ReadJob, LoadEvidence, Begins, CommitRunning,
         RunningConflict, RecordStarted, Stores, StoreArtifact, Publishes,
         CommitSucceeded, Raise, RaiseOutside, CleansUp, CleanupArtifact, LoseRunId,
         Reloads, FailLoad, Fails, CommitFailed, At
    <2> QED
      BY <2>1, <2>2, RunStepFrame, BegunHasRow DEF TypeOf
  <1>4. \A k \in artifacts :
          k[1] \in Run /\ pc[k[1]] # "idle" /\ (k[1] = r => t \notin Transactional)
    BY <1>1, <1>2, <1>3 DEF RowsAreDone
  <1>5. \A k \in artifacts : k \in objects' /\ jobs'[JobOf(k[1])].type = TypeOf(k[1])
    <2>1. \A k \in artifacts : k \in objects'
      <3>1. CASE CleansUp(r, t)
        BY <1>4, <3>1 DEF ArtifactsBacked, CleansUp, CleanupArtifact, CleanedUp
      <3>2. CASE ~CleansUp(r, t)
        BY <3>2 DEF ArtifactsBacked, StepOf, ReadJob, LoadEvidence, Begins,
           CommitRunning, RunningConflict, RecordStarted, Stores, StoreArtifact,
           Publishes, CommitSucceeded, Raise, RaiseOutside, LoseRunId, Reloads,
           FailLoad, Fails, CommitFailed
      <3> QED
        BY <3>1, <3>2
    <2> QED
      BY <2>1, <1>3, <1>4
  <1>6. custody \subseteq custody'
    BY DEF StepOf, ReadJob, LoadEvidence, Begins, CommitRunning, RunningConflict,
       RecordStarted, Stores, StoreArtifact, Publishes, CommitSucceeded, Raise,
       RaiseOutside, CleansUp, CleanupArtifact, LoseRunId, Reloads, FailLoad, Fails,
       CommitFailed
  <1>7. \A k \in artifacts' \ artifacts :
          /\ k[1] = r /\ k \in objects'
          /\ pc'[r] = "done" \/ t \notin Transactional
          /\ t \in Audited => Event(r, "ARTIFACT_CREATED", k[2]) \in custody'
    <2>1. CASE Publishes(r, t)
      <3>1. PICK events \in {SuccessEvents(r), {}} :
              /\ pc[r] = "started"
              /\ t \in Audited => events = SuccessEvents(r)
              /\ artifacts' = artifacts \cup StagedRows(r)
              /\ custody' = custody \cup events
              /\ Goto(r, "done")
              /\ objects' = objects
        BY <2>1 DEF Publishes, CommitSucceeded, At
      <3>2. ASSUME NEW n \in session[r].created
            PROVE  /\ <<r, n>> \in objects'
                   /\ t \in Audited => Event(r, "ARTIFACT_CREATED", n) \in custody'
        BY <3>1 DEF CreatedExist, SuccessEvents
      <3>3. pc'[r] = "done"
        BY <1>1, <3>1 DEF Goto
      <3> QED
        BY <3>1, <3>2, <3>3 DEF StagedRows
    <2>2. CASE Begins(r, t)
      <3>1. PICK rows \in {StagedRows(r), {}} :
              /\ pc[r] = "loaded"
              /\ rows # {} => t \notin Transactional
              /\ artifacts' = artifacts \cup rows
              /\ objects' = objects
        BY <2>2 DEF Begins, CommitRunning, At
      <3>2. t \notin Transactional => t \notin Audited
        BY DEF Transactional, Audited
      <3> QED
        BY <3>1, <3>2 DEF StagedRows, CreatedExist
    <2>3. CASE ~Publishes(r, t) /\ ~Begins(r, t)
      BY <2>3 DEF StepOf, ReadJob, LoadEvidence, RunningConflict, RecordStarted, Stores,
         StoreArtifact, Raise, RaiseOutside, CleansUp, CleanupArtifact, LoseRunId,
         Reloads, FailLoad, Fails, CommitFailed
    <2> QED
      BY <2>1, <2>2, <2>3
  <1>8. CreatedExist'
    BY RunStepCreates
  <1>11. jobs'[JobOf(r)].type = t
    BY <1>3
  <1>9. RowsAreDone'
    <2>1. \A k \in artifacts :
            \/ pc'[k[1]] = "done"
            \/ pc'[k[1]] # "idle" /\ jobs'[JobOf(k[1])].type \notin Transactional
      BY <1>3, <1>4, <1>5 DEF RowsAreDone
    <2>2. \A k \in artifacts' \ artifacts :
            \/ pc'[k[1]] = "done"
            \/ pc'[k[1]] # "idle" /\ jobs'[JobOf(k[1])].type \notin Transactional
      BY <1>3, <1>7, <1>11
    <2> QED
      BY <2>1, <2>2 DEF RowsAreDone, TypeOf, JobOf, Transactional, JobType
  <1>10. ArtifactsBacked'
    <2> SUFFICES ASSUME NEW k \in artifacts'
                 PROVE  /\ k \in objects'
                        /\ jobs'[JobOf(k[1])].type \in Audited =>
                             Event(k[1], "ARTIFACT_CREATED", k[2]) \in custody'
      BY DEF ArtifactsBacked, TypeOf, JobOf, Audited
    <2> QED
      BY <1>5, <1>6, <1>7, <1>11 DEF ArtifactsBacked
  <1> QED
    BY <1>8, <1>9, <1>10

(* Requests, redeliveries and crashes touch no object, row or event, and    *)
(* leave alone the runs that published.                                     *)
LEMMA OthersBacked ==
  ASSUME TypeInv, BackedInv,
         RequestStep \/ \E r \in Run : BrokerRedelivers(r) \/ Crash(r)
  PROVE  BackedInv'
  <1> USE DEF TypeInv, BackedInv
  <1>1. /\ pc \in [Run -> RunPc] /\ session \in [Run -> SessionState]
        /\ jobs \in [Job -> JobRow] /\ client \in [Client -> ClientState]
        /\ artifacts \subseteq ArtifactKey
    BY DEF TypeOK
  <1>2. UNCHANGED <<objects, artifacts, custody>>
    BY DEF RequestStep, Admit, CheckActive, Insert, DispatchAgain, Cancel, CancelRead,
       CancelCommit, BrokerRedelivers, Crash
  <1>3. \A r \in Run :
          \/ pc'[r] = pc[r] /\ session'[r] = session[r]
          \/ pc[r] = "idle" /\ pc'[r] = "pending" /\ session'[r] = session[r]
          \/ pc[r] \notin {"done", "idle"} /\ pc'[r] = "dead"
    <2>1. CASE \E c \in Client, t \in JobType : Insert(c, t)
      <3>1. PICK c \in Client, t \in JobType : Insert(c, t)
        BY <2>1
      <3>2. PICK j \in Job :
              /\ jobs[j].status = "ABSENT"
              /\ Goto(<<j, FirstDelivery>>, "pending") \/ pc' = pc
        BY <3>1 DEF Insert, NextFreeJob
      <3>3. pc[<<j, FirstDelivery>>] = "idle"
        BY <3>2, FirstDeliveryAssumption DEF RowsFilled
      <3> QED
        BY <1>1, <3>1, <3>2, <3>3 DEF Insert, Goto
    <2>2. CASE \E e \in Evidence, t \in JobType : DispatchAgain(e, t)
      BY <1>1, <2>2 DEF DispatchAgain, Goto
    <2>3. CASE \E r \in Run : BrokerRedelivers(r) \/ Crash(r)
      BY <1>1, <2>3 DEF BrokerRedelivers, Crash, Goto, Close, Unfinished, Executing
    <2>4. CASE \/ \E c \in Client, e \in Evidence, t \in JobType : Admit(c, e, t)
               \/ \E c \in Client, t \in JobType : CheckActive(c, t)
               \/ \E c \in Client : Cancel(c)
      BY <2>4 DEF Admit, CheckActive, Cancel, CancelRead, CancelCommit
    <2> QED
      BY <2>1, <2>2, <2>3, <2>4 DEF RequestStep
  <1>4. \A j \in Job : jobs[j].status # "ABSENT" => jobs'[j].type = jobs[j].type
    <2>1. ASSUME NEW c \in Client, NEW t \in JobType, Insert(c, t)
          PROVE  \A j \in Job :
                   jobs[j].status # "ABSENT" => jobs'[j].type = jobs[j].type
      BY <1>1, <2>1 DEF Insert, NextFreeJob
    <2>2. ASSUME NEW c \in Client, CancelCommit(c)
          PROVE  \A j \in Job : jobs'[j].type = jobs[j].type
      BY <1>1, <2>2 DEF CancelCommit, JobRow
    <2> QED
      BY <2>1, <2>2 DEF RequestStep, Admit, CheckActive, DispatchAgain, Cancel,
         CancelRead, BrokerRedelivers, Crash
  <1>5. CreatedExist'
    BY <1>2, <1>3 DEF CreatedExist
  <1>6. \A k \in artifacts : k[1] \in Run /\ pc[k[1]] # "idle"
    BY <1>1 DEF RowsAreDone, ArtifactKey
  <1>8. \A k \in artifacts : jobs'[JobOf(k[1])].type = TypeOf(k[1])
    BY <1>4, <1>6, BegunHasRow DEF TypeOf
  <1>7. RowsAreDone'
    BY <1>2, <1>3, <1>6, <1>8 DEF RowsAreDone, TypeOf, JobOf
  <1>9. ArtifactsBacked'
    <2> SUFFICES ASSUME NEW k \in artifacts
                 PROVE  /\ k \in objects
                        /\ jobs'[JobOf(k[1])].type \in Audited =>
                             Event(k[1], "ARTIFACT_CREATED", k[2]) \in custody
      BY <1>2 DEF ArtifactsBacked, TypeOf, JobOf, Audited
    <2> QED
      BY <1>8 DEF ArtifactsBacked
  <1> QED
    BY <1>5, <1>7, <1>9

(* Every published artifact keeps its file and its custody event, if the    *)
(* database never loses the answer to a COMMIT: then no clean-up, of a      *)
(* racing, redelivered, failed or killed run, deletes a published file.     *)
THEOREM PublishedStaysBacked ==
  ASSUME AckLoss = FALSE
  PROVE  Spec => []ArtifactsBacked
  <1>1. Init => BackedInv
    BY DEF Init, BackedInv, CreatedExist, RowsAreDone, ArtifactsBacked, NewSession
  <1>2. TypeInv /\ BackedInv /\ [Next]_vars => BackedInv'
    <2> SUFFICES ASSUME TypeInv, BackedInv, [Next]_vars PROVE BackedInv'
      OBVIOUS
    <2>1. CASE Next
      BY <2>1, NextShape, RunStepBacked, OthersBacked DEF TypeInv
    <2>2. CASE UNCHANGED vars
      BY <2>2 DEF vars, BackedInv, CreatedExist, RowsAreDone, ArtifactsBacked, TypeOf,
         JobOf
    <2> QED
      BY <2>1, <2>2
  <1>3. BackedInv => ArtifactsBacked
    BY DEF BackedInv
  <1> QED
    BY <1>1, <1>2, <1>3, PipelineTypeInv, PTL DEF Spec

-----------------------------------------------------------------------------
(* What a step leaves alone, for the invariants below.                      *)

(* The run that the request which made the job dispatched.                  *)
FirstRun(j) == <<j, FirstDelivery>>

(* A request inserts a job and dispatches its first run, dispatches one     *)
(* more run of a job that has succeeded, cancels a job where that is done   *)
(* at all, or changes nothing but what it has read.                         *)
Inserted(j, e, t) ==
  /\ jobs[j].status = "ABSENT"
  /\ \A i \in Job : i < j => jobs[i].status # "ABSENT"
  /\ IndexAllows(j, e, t)
  /\ jobs' = [jobs EXCEPT ![j] = [evidence |-> e, type |-> t, status |-> "QUEUED"]]
  /\ pc' = [pc EXCEPT ![FirstRun(j)] = "pending"]

DispatchedAgain(r) ==
  /\ jobs[JobOf(r)].status = "SUCCEEDED" /\ pc[r] = "idle"
  /\ jobs' = jobs
  /\ pc' = [pc EXCEPT ![r] = "pending"]

Cancelled(j) ==
  /\ Cancellable /\ jobs[j].status # "ABSENT"
  /\ jobs' = [jobs EXCEPT ![j].status = "CANCELLED"]
  /\ pc' = pc

(* What the steps of requests write.                                        *)
LEMMA RequestEffect ==
  ASSUME TypeInv, RequestStep
  PROVE  /\ UNCHANGED <<evidence, artifacts, objects, custody, analysisRun, session>>
         /\ \/ UNCHANGED <<jobs, pc>>
            \/ \E j \in Job, c \in Client :
                 /\ client[c].at = "checked"
                 /\ Inserted(j, client[c].evidence, client[c].type)
            \/ \E r \in Run : DispatchedAgain(r)
            \/ \E j \in Job : Cancelled(j)
  <1>1. ASSUME NEW c \in Client, NEW e \in Evidence, NEW t \in JobType, Admit(c, e, t)
        PROVE  UNCHANGED <<evidence, artifacts, objects, custody, analysisRun, session,
                           jobs, pc>>
    BY <1>1 DEF Admit
  <1>2. ASSUME NEW c \in Client, NEW t \in JobType, CheckActive(c, t)
        PROVE  UNCHANGED <<evidence, artifacts, objects, custody, analysisRun, session,
                           jobs, pc>>
    BY <1>2 DEF CheckActive
  <1>3. ASSUME NEW c \in Client, NEW t \in JobType, Insert(c, t)
        PROVE  /\ UNCHANGED <<evidence, artifacts, objects, custody, analysisRun, session>>
               /\ \/ UNCHANGED <<jobs, pc>>
                  \/ /\ client[c].at = "checked"
                     /\ \E j \in Job : Inserted(j, client[c].evidence, client[c].type)
    BY <1>3 DEF Insert, NextFreeJob, Inserted, Goto, FirstRun
  <1>4. ASSUME NEW e \in Evidence, NEW t \in JobType, DispatchAgain(e, t)
        PROVE  /\ UNCHANGED <<evidence, artifacts, objects, custody, analysisRun, session>>
               /\ \E r \in Run : DispatchedAgain(r)
    BY <1>4 DEF DispatchAgain, DispatchedAgain, Goto
  <1>5. ASSUME NEW c \in Client, Cancel(c)
        PROVE  /\ UNCHANGED <<evidence, artifacts, objects, custody, analysisRun, session>>
               /\ UNCHANGED <<jobs, pc>> \/ \E j \in Job : Cancelled(j)
    <2>1. CASE \E j \in Job : CancelRead(c, j)
      BY <2>1 DEF CancelRead
    <2>2. CASE CancelCommit(c)
      BY <2>2 DEF CancelCommit, Cancelled, TypeInv, RequestsNamed
    <2> QED
      BY <1>5, <2>1, <2>2 DEF Cancel
  <1> QED
    BY <1>1, <1>2, <1>3, <1>4, <1>5 DEF RequestStep

(* A redelivery or a crash moves one run.                                   *)
LEMMA ExternalEffect ==
  ASSUME TypeInv, NEW r \in Run, BrokerRedelivers(r) \/ Crash(r)
  PROVE  /\ UNCHANGED <<jobs, evidence, artifacts, objects, custody, analysisRun, client>>
         /\ \A s \in Run : s # r => pc'[s] = pc[s] /\ session'[s] = session[s]
         /\ \/ /\ Celery /\ TypeOf(r) = "PREPROCESSING" /\ pc[r] = "idle"
               /\ pc'[r] = "pending" /\ session'[r] = session[r]
            \/ pc[r] \in Unfinished /\ pc'[r] = "dead" /\ session'[r] = NewSession
  <1> USE DEF TypeInv, TypeOK, Goto, Close
  <1>1. CASE BrokerRedelivers(r)
    BY <1>1 DEF BrokerRedelivers
  <1>2. CASE Crash(r)
    BY <1>2 DEF Crash
  <1> QED
    BY <1>1, <1>2

(* Neither changes what is stored, but for a new row or a cancelled job;    *)
(* nor where a run is, but for one that is dispatched or killed.            *)
LEMMA OthersEffect ==
  ASSUME TypeInv, RequestStep \/ \E r \in Run : BrokerRedelivers(r) \/ Crash(r)
  PROVE  /\ UNCHANGED <<evidence, artifacts, objects, custody, analysisRun>>
         /\ \A r \in Run :
              \/ pc'[r] = pc[r] /\ session'[r] = session[r]
              \/ pc[r] = "idle" /\ pc'[r] = "pending" /\ session'[r] = session[r]
              \/ pc[r] \in Unfinished /\ pc'[r] = "dead" /\ session'[r] = NewSession
         /\ \A j \in Job :
              \/ jobs'[j] = jobs[j]
              \/ jobs[j].status = "ABSENT" /\ jobs'[j].status = "QUEUED"
              \/ /\ Cancellable /\ jobs[j].status # "ABSENT"
                 /\ jobs'[j].status = "CANCELLED"
                 /\ jobs'[j].evidence = jobs[j].evidence /\ jobs'[j].type = jobs[j].type
  <1>1. pc \in [Run -> RunPc] /\ jobs \in [Job -> JobRow]
    BY DEF TypeInv, TypeOK
  <1>2. CASE RequestStep
    <2>1. ASSUME NEW j \in Job, NEW e, NEW t, Inserted(j, e, t)
          PROVE  pc[FirstRun(j)] = "idle" /\ pc' = [pc EXCEPT ![FirstRun(j)] = "pending"]
      BY <2>1, FirstDeliveryAssumption DEF Inserted, FirstRun, TypeInv, RowsFilled
    <2>2. \A r \in Run : \/ pc'[r] = pc[r]
                         \/ pc[r] = "idle" /\ pc'[r] = "pending"
      BY <1>1, <1>2, <2>1, RequestEffect DEF DispatchedAgain, Cancelled
    <2>3. \A j \in Job :
            \/ jobs'[j] = jobs[j]
            \/ jobs[j].status = "ABSENT" /\ jobs'[j].status = "QUEUED"
            \/ /\ Cancellable /\ jobs[j].status # "ABSENT"
               /\ jobs'[j].status = "CANCELLED"
               /\ jobs'[j].evidence = jobs[j].evidence /\ jobs'[j].type = jobs[j].type
      BY <1>1, <1>2, RequestEffect DEF Inserted, DispatchedAgain, Cancelled, JobRow
    <2> QED
      BY <1>2, <2>2, <2>3, RequestEffect
  <1>3. ASSUME NEW r \in Run, BrokerRedelivers(r) \/ Crash(r)
        PROVE  /\ UNCHANGED <<jobs, evidence, artifacts, objects, custody, analysisRun>>
               /\ \A s \in Run :
                    \/ pc'[s] = pc[s] /\ session'[s] = session[s]
                    \/ pc[s] = "idle" /\ pc'[s] = "pending" /\ session'[s] = session[s]
                    \/ pc[s] \in Unfinished /\ pc'[s] = "dead" /\ session'[s] = NewSession
    BY <1>3, ExternalEffect
  <1> QED
    BY <1>2, <1>3

(* A run step is taken by an executing run of the job's type.               *)
LEMMA RunStepAt ==
  ASSUME TypeInv, NEW r \in Run, NEW t \in JobType, StepOf(r, t)
  PROVE  /\ TypeOf(r) = t /\ pc[r] \in Unfinished
         /\ pc'[r] \in RunPc \ {"idle", "pending", "dead"}
         /\ pc[r] = "pending" => ReadJob(r, t)
         /\ JobOf(r) \in Job /\ EvidenceOf(r) \in Evidence
         /\ jobs[JobOf(r)].status # "ABSENT"
  <1> USE DEF Goto, At, Unfinished, Executing, RunPc
  <1>1. TypeOf(r) = t /\ pc[r] \in Unfinished /\ (pc[r] = "pending" => ReadJob(r, t))
    BY DEF StepOf, ReadJob, LoadEvidence, Begins, CommitRunning,
       RunningConflict, RecordStarted, Stores, StoreArtifact, Publishes,
       CommitSucceeded, Raise, RaiseOutside, CleansUp, CleanupArtifact, LoseRunId,
       Reloads, FailLoad, Fails, CommitFailed
  <1>2. pc'[r] \in RunPc \ {"idle", "pending", "dead"}
    <2>1. pc \in [Run -> RunPc]
      BY DEF TypeInv, TypeOK
    <2>2. CASE Begins(r, t)
      BY <2>1, <2>2 DEF Begins, CommitRunning
    <2>3. CASE \/ ReadJob(r, t) \/ LoadEvidence(r, t) \/ RunningConflict(r, t)
               \/ RecordStarted(r, t) \/ Raise(r, t) \/ RaiseOutside(r, t)
               \/ LoseRunId(r, t)
      BY <2>1, <2>3 DEF ReadJob, LoadEvidence, RunningConflict, RecordStarted, Raise,
         RaiseOutside, LoseRunId
    <2>4. CASE Stores(r, t)
      BY <1>1, <2>1, <2>4 DEF Stores, StoreArtifact
    <2>5. CASE Publishes(r, t) \/ CleansUp(r, t)
      BY <2>1, <2>5 DEF Publishes, CommitSucceeded, CleansUp, CleanupArtifact
    <2>6. CASE Reloads(r, t) \/ Fails(r, t)
      BY <2>1, <2>6 DEF Reloads, FailLoad, Fails, CommitFailed
    <2> QED
      BY <2>2, <2>3, <2>4, <2>5, <2>6 DEF StepOf
  <1>3. pc[r] # "idle"
    BY <1>1
  <1> QED
    BY <1>1, <1>2, <1>3, BegunHasRow

(* What it writes is its own: its analysis run, artifact rows, objects and  *)
(* custody events; no row or event is taken back.                           *)
LEMMA RunStepRows ==
  ASSUME TypeInv, NEW r \in Run, NEW t \in JobType, StepOf(r, t)
  PROVE  /\ \A s \in Run : s # r => analysisRun'[s] = analysisRun[s]
         /\ artifacts \subseteq artifacts' /\ \A k \in artifacts' \ artifacts : k[1] = r
         /\ custody \subseteq custody'
         /\ \A k \in ArtifactKey : k[1] # r => (k \in objects' <=> k \in objects)
  <1>1. \A s \in Run : s # r => analysisRun'[s] = analysisRun[s]
    <2>1. \/ analysisRun' = analysisRun
          \/ \E run : analysisRun' = [analysisRun EXCEPT ![r] = run]
      <3>1. CASE Begins(r, t)
        BY <3>1 DEF Begins, CommitRunning
      <3>2. CASE Publishes(r, t)
        BY <3>2 DEF Publishes, CommitSucceeded
      <3>3. CASE Fails(r, t)
        BY <3>3 DEF Fails, CommitFailed
      <3>4. CASE ~Begins(r, t) /\ ~Publishes(r, t) /\ ~Fails(r, t)
        BY <3>4 DEF StepOf, ReadJob, LoadEvidence, RunningConflict, RecordStarted, Stores,
           StoreArtifact, Raise, RaiseOutside, CleansUp, CleanupArtifact, LoseRunId,
           Reloads, FailLoad
      <3> QED
        BY <3>1, <3>2, <3>3, <3>4
    <2> QED
      BY <2>1 DEF TypeInv, TypeOK
  <1>2. \/ artifacts' = artifacts
        \/ artifacts' \in {artifacts \cup StagedRows(r), artifacts \cup {}}
    <2>1. CASE Begins(r, t)
      BY <2>1 DEF Begins, CommitRunning
    <2>2. CASE Publishes(r, t)
      BY <2>2 DEF Publishes, CommitSucceeded
    <2>3. CASE ~Begins(r, t) /\ ~Publishes(r, t)
      BY <2>3 DEF StepOf, ReadJob, LoadEvidence, RunningConflict, RecordStarted, Stores,
         StoreArtifact, Raise, RaiseOutside, CleansUp, CleanupArtifact, LoseRunId,
         Reloads, FailLoad, Fails, CommitFailed
    <2> QED
      BY <2>1, <2>2, <2>3
  <1>3. artifacts \subseteq artifacts' /\ \A k \in artifacts' \ artifacts : k[1] = r
    BY <1>2 DEF StagedRows
  <1>4. custody \subseteq custody'
    <2>1. CASE Begins(r, t)
      BY <2>1 DEF Begins, CommitRunning
    <2>2. CASE Publishes(r, t)
      BY <2>2 DEF Publishes, CommitSucceeded
    <2>3. CASE Fails(r, t)
      BY <2>3 DEF Fails, CommitFailed
    <2>4. CASE ~Begins(r, t) /\ ~Publishes(r, t) /\ ~Fails(r, t)
      BY <2>4 DEF StepOf, ReadJob, LoadEvidence, RunningConflict, RecordStarted, Stores,
         StoreArtifact, Raise, RaiseOutside, CleansUp, CleanupArtifact, LoseRunId,
         Reloads, FailLoad
    <2> QED
      BY <2>1, <2>2, <2>3, <2>4
  <1>5. \A k \in ArtifactKey : k[1] # r => (k \in objects' <=> k \in objects)
    <2>1. CASE Stores(r, t)
      BY <2>1 DEF Stores, StoreArtifact
    <2>2. CASE CleansUp(r, t)
      BY <2>2 DEF CleansUp, CleanupArtifact, CleanedUp
    <2>3. CASE ~Stores(r, t) /\ ~CleansUp(r, t)
      <3>1. objects' = objects
        BY <2>3 DEF StepOf, ReadJob, LoadEvidence, Begins, CommitRunning,
           RunningConflict, RecordStarted, Publishes, CommitSucceeded, Raise,
           RaiseOutside, LoseRunId, Reloads, FailLoad, Fails, CommitFailed
      <3> QED
        BY <3>1
    <2> QED
      BY <2>1, <2>2, <2>3
  <1> QED
    BY <1>1, <1>3, <1>4, <1>5

-----------------------------------------------------------------------------
(* Who works on a job                                                       *)

(* Only the three commits of a run write the job row, an analysis run row   *)
(* or the evidence row.                                                     *)
LEMMA RunStepCommits ==
  ASSUME TypeInv, NEW r \in Run, NEW t \in JobType, StepOf(r, t)
  PROVE  \/ /\ Begins(r, t) /\ pc[r] = "loaded" /\ pc'[r] \in {"running", "started"}
            /\ jobs'[JobOf(r)].status = "RUNNING"
         \/ /\ Publishes(r, t) /\ pc[r] = "started" /\ pc'[r] \in {"done", "cleanup"}
            /\ jobs'[JobOf(r)].status = "SUCCEEDED" /\ (AckLoss = FALSE => pc'[r] = "done")
         \/ /\ Fails(r, t) /\ pc[r] = "failing" /\ pc'[r] = "done"
            /\ jobs'[JobOf(r)].status =
                 Flush(jobs[JobOf(r)].status, session[r].job, "FAILED")
            /\ artifacts' = artifacts
         \/ UNCHANGED <<jobs, evidence, analysisRun, artifacts>>
  <1>1. pc \in [Run -> RunPc] /\ jobs \in [Job -> JobRow] /\ JobOf(r) \in Job
    BY RunStepAt DEF TypeInv, TypeOK
  <1>2. CASE Begins(r, t)
    <2>1. /\ pc[r] = "loaded"
          /\ jobs' = [jobs EXCEPT ![JobOf(r)].status = "RUNNING"]
          /\ \E next \in {"running", "started"} : pc' = [pc EXCEPT ![r] = next]
      BY <1>2 DEF Begins, CommitRunning, Goto, At
    <2> QED
      BY <1>1, <1>2, <2>1 DEF JobRow
  <1>3. CASE Publishes(r, t)
    <2>1. /\ pc[r] = "started"
          /\ jobs' = [jobs EXCEPT ![JobOf(r)].status = "SUCCEEDED"]
          /\ \/ pc' = [pc EXCEPT ![r] = "done"]
             \/ AckLoss /\ pc' = [pc EXCEPT ![r] = "cleanup"]
      BY <1>3 DEF Publishes, CommitSucceeded, Goto, At
    <2> QED
      BY <1>1, <1>3, <2>1 DEF JobRow
  <1>4. CASE Fails(r, t)
    BY <1>1, <1>4 DEF Fails, CommitFailed, Goto, At, JobRow, FailedStatus
  <1>5. CASE ~Begins(r, t) /\ ~Publishes(r, t) /\ ~Fails(r, t)
    BY <1>5 DEF StepOf, ReadJob, LoadEvidence, RunningConflict, RecordStarted, Stores,
       StoreArtifact, Raise, RaiseOutside, CleansUp, CleanupArtifact, LoseRunId,
       Reloads, FailLoad
  <1> QED
    BY <1>2, <1>3, <1>4, <1>5

(* The jobs a broker may hand out again.                                    *)
Redelivered(t) == Celery /\ t = "PREPROCESSING"

(* A run that nobody but a broker or a repeated request dispatched does     *)
(* nothing: it finds its job no longer QUEUED.                              *)
SoleRun ==
  \A r \in Run :
    r[2] # FirstDelivery /\ ~Redelivered(TypeOf(r)) =>
      /\ pc[r] \in {"idle", "pending", "done", "dead"}
      /\ pc[r] = "pending" => jobs[JobOf(r)].status \notin {"ABSENT", "QUEUED"}
      /\ analysisRun[r] = "NONE"
      /\ \A k \in artifacts : k[1] # r

(* A step of a run leaves the second runs idle.                             *)
LEMMA RunStepSole ==
  ASSUME TypeInv, SoleRun, NEW r \in Run, NEW t \in JobType, StepOf(r, t)
  PROVE  SoleRun'
  <1> SUFFICES ASSUME NEW s \in Run, s[2] # FirstDelivery,
                      ~(Celery /\ jobs'[JobOf(s)].type = "PREPROCESSING")
               PROVE  /\ pc'[s] \in {"idle", "pending", "done", "dead"}
                      /\ pc'[s] = "pending" =>
                           jobs'[JobOf(s)].status \notin {"ABSENT", "QUEUED"}
                      /\ analysisRun'[s] = "NONE"
                      /\ \A k \in artifacts' : k[1] # s
    BY DEF SoleRun, TypeOf, JobOf, Redelivered
  <1>1. JobOf(s) \in Job /\ JobOf(r) \in Job
    BY DEF JobOf, Run
  <1>2. jobs'[JobOf(s)].type = jobs[JobOf(s)].type
    BY <1>1, RunStepFrame DEF TypeOf
  <1>3. /\ pc[s] \in {"idle", "pending", "done", "dead"}
        /\ pc[s] = "pending" => jobs[JobOf(s)].status \notin {"ABSENT", "QUEUED"}
        /\ analysisRun[s] = "NONE"
        /\ \A k \in artifacts : k[1] # s
    BY <1>2 DEF SoleRun, Redelivered, TypeOf
  <1>4. CASE s = r
    <2>1. pc[r] = "pending"
      BY <1>3, <1>4, RunStepAt DEF Unfinished, Executing
    <2>2. ReadJob(r, t) /\ ~IsQueued(JobOf(r))
      BY <1>3, <1>4, <2>1, RunStepAt DEF IsQueued
    <2>3. pc'[r] = "done" /\ analysisRun' = analysisRun /\ artifacts' = artifacts
      BY <2>2 DEF ReadJob, Goto, TypeInv, TypeOK
    <2> QED
      BY <1>3, <1>4, <2>3
  <1>5. CASE s # r
    <2>1. pc'[s] = pc[s] /\ analysisRun'[s] = analysisRun[s]
      BY <1>5, RunStepFrame, RunStepRows
    <2>2. \A k \in artifacts' : k[1] # s
      BY <1>3, <1>5, RunStepRows
    <2>3. jobs'[JobOf(s)].status # "ABSENT" \/ jobs'[JobOf(s)] = jobs[JobOf(s)]
      BY <1>1, RunStepFrame
    <2>4. jobs'[JobOf(s)].status # "QUEUED" \/ jobs[JobOf(s)].status = "QUEUED"
      BY <1>1, RunStepCommits, RunStepFrame DEF Flush
    <2> QED
      BY <1>3, <2>1, <2>2, <2>3, <2>4
  <1> QED
    BY <1>4, <1>5

(* So do requests: a run is dispatched again when its job has ended.        *)
LEMMA RequestSole ==
  ASSUME TypeInv, SoleRun, RequestStep
  PROVE  SoleRun'
  <1>1. /\ UNCHANGED <<artifacts, analysisRun>>
        /\ pc \in [Run -> RunPc] /\ jobs \in [Job -> JobRow]
        /\ \A r \in Run : JobOf(r) \in Job /\ r = <<JobOf(r), r[2]>> /\ r[2] \in Delivery
    BY RequestEffect DEF TypeInv, TypeOK, Run, JobOf
  <1>2. CASE UNCHANGED <<jobs, pc>>
    BY <1>1, <1>2 DEF SoleRun, TypeOf, JobOf, Redelivered
  <1>3. ASSUME NEW j \in Job, NEW e, NEW t, Inserted(j, e, t)
        PROVE  SoleRun'
    <2> SUFFICES ASSUME NEW s \in Run, s[2] # FirstDelivery,
                        ~(Celery /\ jobs'[JobOf(s)].type = "PREPROCESSING")
                 PROVE  /\ pc'[s] \in {"idle", "pending", "done", "dead"}
                        /\ pc'[s] = "pending" =>
                             jobs'[JobOf(s)].status \notin {"ABSENT", "QUEUED"}
                        /\ analysisRun'[s] = "NONE"
                        /\ \A k \in artifacts' : k[1] # s
      BY DEF SoleRun, TypeOf, JobOf, Redelivered
    <2>1. pc'[s] = pc[s]
      BY <1>1, <1>3 DEF Inserted, FirstRun
    <2>2. CASE JobOf(s) = j
      <3>1. pc[s] = "idle" /\ TypeOf(s) = "NONE"
        BY <1>1, <1>3, <2>2 DEF Inserted, TypeInv, RowsFilled, TypeOf, NoJob
      <3> QED
        BY <1>1, <2>1, <3>1 DEF SoleRun, Redelivered
    <2>3. CASE JobOf(s) # j
      <3>1. jobs'[JobOf(s)] = jobs[JobOf(s)]
        BY <1>1, <1>3, <2>3 DEF Inserted
      <3> QED
        BY <1>1, <2>1, <3>1 DEF SoleRun, Redelivered, TypeOf
    <2> QED
      BY <2>2, <2>3
  <1>4. ASSUME NEW r \in Run, DispatchedAgain(r)
        PROVE  SoleRun'
    BY <1>1, <1>4 DEF DispatchedAgain, SoleRun, TypeOf, JobOf, Redelivered
  <1>5. ASSUME NEW j \in Job, Cancelled(j)
        PROVE  SoleRun'
    <2>1. \A i \in Job : jobs'[i].type = jobs[i].type
                         /\ jobs'[i].status \in {jobs[i].status, "CANCELLED"}
      BY <1>1, <1>5 DEF Cancelled, JobRow
    <2> QED
      BY <1>1, <1>5, <2>1 DEF Cancelled, SoleRun, TypeOf, JobOf, Redelivered
  <1> QED
    BY <1>2, <1>3, <1>4, <1>5, RequestEffect

(* And so do redeliveries and crashes.                                      *)
LEMMA ExternalSole ==
  ASSUME TypeInv, SoleRun, NEW r \in Run, BrokerRedelivers(r) \/ Crash(r)
  PROVE  SoleRun'
  BY ExternalEffect DEF SoleRun, TypeOf, JobOf, Redelivered

(* Of a job that is not redelivered, only the first run ever works, for any *)
(* number of runs dispatched for it.                                        *)
LEMMA FirstRunsWork == Spec => []SoleRun
  <1>1. Init => SoleRun
    BY DEF Init, SoleRun
  <1>2. TypeInv /\ SoleRun /\ [Next]_vars => SoleRun'
    <2> SUFFICES ASSUME TypeInv, SoleRun, [Next]_vars PROVE SoleRun'
      OBVIOUS
    <2>1. CASE Next
      BY <2>1, NextShape, RequestSole, RunStepSole, ExternalSole DEF TypeInv
    <2>2. CASE UNCHANGED vars
      BY <2>2 DEF vars, SoleRun, TypeOf, JobOf, Redelivered
    <2> QED
      BY <2>1, <2>2
  <1> QED
    BY <1>1, <1>2, PipelineTypeInv, PTL DEF Spec

-----------------------------------------------------------------------------
(* How jobs end                                                             *)

(* A job that shows how it ended was ended by its first run: if it          *)
(* succeeded, by the commit that published its whole result; if it failed,  *)
(* by _fail_job.                                                            *)
Ended(j) ==
  LET f == FirstRun(j)
      t == jobs[j].type
  IN /\ jobs[j].status \in {"SUCCEEDED", "FAILED"} => pc[f] = "done"
     /\ jobs[j].status = "SUCCEEDED" =>
          /\ \A n \in Payloads(t) : <<f, n>> \in artifacts
          /\ t \in Audited => Event(f, "COMPLETED", 0) \in custody
          /\ analysisRun[f] \in {"NONE", "SUCCEEDED"}
     /\ jobs[j].status = "FAILED" =>
          /\ analysisRun[f] \in {"NONE", "FAILED"}
          /\ t \in Transactional => \A k \in artifacts : k[1] # f
          /\ t \in Audited => Event(f, "FAILED", 0) \in custody

OutcomeInv == \A j \in Job : Redelivered(jobs[j].type) \/ Ended(j)

(* What shows how a job ended does not go away.                             *)
LEMMA EndedStays ==
  ASSUME NEW j \in Job, Ended(j), jobs'[j] = jobs[j],
         pc'[FirstRun(j)] = pc[FirstRun(j)],
         analysisRun'[FirstRun(j)] = analysisRun[FirstRun(j)],
         artifacts \subseteq artifacts', custody \subseteq custody',
         \A k \in artifacts' \ artifacts : k[1] # FirstRun(j)
  PROVE  Ended(j)'
  BY DEF Ended, FirstRun

(* Only its first run writes the row of a job that is not redelivered.      *)
LEMMA OthersKeepJob ==
  ASSUME TypeInv, SoleRun, NEW r \in Run, NEW t \in JobType, StepOf(r, t),
         NEW j \in Job, ~Redelivered(jobs[j].type), r # FirstRun(j)
  PROVE  jobs'[j] = jobs[j]
  <1>1. CASE JobOf(r) # j
    BY <1>1, RunStepFrame
  <1>2. CASE JobOf(r) = j
    <2>1. r[2] # FirstDelivery /\ ~Redelivered(TypeOf(r))
      BY <1>2 DEF Run, JobOf, FirstRun, TypeOf
    <2>2. pc[r] \in {"idle", "pending", "done", "dead"}
      BY <2>1 DEF SoleRun
    <2>3. pc[r] = "pending"
      BY <2>2, RunStepAt DEF Unfinished, Executing
    <2> QED
      BY <2>3, RunStepAt DEF ReadJob
  <1> QED
    BY <1>1, <1>2

(* While a run works, no other run writes the row of its job.               *)
LEMMA OthersKeepOurJob ==
  ASSUME TypeInv, SoleRun, NEW r \in Run, NEW t \in JobType, StepOf(r, t),
         NEW s \in Run, s # r, pc[s] \in Executing, ~Redelivered(TypeOf(s))
  PROVE  jobs'[JobOf(s)] = jobs[JobOf(s)]
  <1>1. s[2] = FirstDelivery
    BY DEF SoleRun, Executing
  <1>2. JobOf(s) \in Job /\ r # FirstRun(JobOf(s))
    BY <1>1 DEF FirstRun, Run, JobOf
  <1> QED
    BY <1>2, OthersKeepJob DEF TypeOf

(* The first run of a job is a run of it.                                   *)
LEMMA FirstRunTyped ==
  ASSUME NEW j \in Job
  PROVE  FirstRun(j) \in Run /\ JobOf(FirstRun(j)) = j /\ FirstRun(j)[2] = FirstDelivery
  BY FirstDeliveryAssumption DEF FirstRun, Run, JobOf

(* The commit that publishes leaves a job that ended well.                  *)
LEMMA PublishEnds ==
  ASSUME AckLoss = FALSE, TypeInv, NEW j \in Job, NEW t \in JobType,
         StepOf(FirstRun(j), t), Publishes(FirstRun(j), t)
  PROVE  Ended(j)'
  <1> DEFINE f == FirstRun(j)
  <1>1. f \in Run /\ JobOf(f) = j /\ TypeOf(f) = t
    BY FirstRunTyped, RunStepAt
  <1>2. /\ jobs'[j].status = "SUCCEEDED" /\ jobs'[j].type = t /\ pc'[f] = "done"
    <2>1. pc \in [Run -> RunPc] /\ jobs \in [Job -> JobRow]
      BY DEF TypeInv, TypeOK
    <2>2. /\ jobs' = [jobs EXCEPT ![JobOf(f)].status = "SUCCEEDED"]
          /\ pc' = [pc EXCEPT ![f] = "done"]
      BY DEF Publishes, CommitSucceeded, Goto
    <2> QED
      BY <1>1, <2>1, <2>2 DEF JobRow, TypeOf
  <1>3. \A n \in Payloads(t) : <<f, n>> \in artifacts'
    BY <1>1 DEF Publishes, CommitSucceeded, StoredAll, StagedRows
  <1>4. t \in Audited => Event(f, "COMPLETED", 0) \in custody'
    BY DEF Publishes, CommitSucceeded, SuccessEvents
  <1>5. analysisRun'[f] \in {"NONE", "SUCCEEDED"}
    BY <1>1 DEF Publishes, CommitSucceeded, TypeInv, TypeOK
  <1> QED
    BY <1>2, <1>3, <1>4, <1>5 DEF Ended, FirstRun

(* The commit of _fail_job, of a run that published nothing, leaves a job   *)
(* that ended badly, or one that was ended for it.                          *)
LEMMA FailEnds ==
  ASSUME TypeInv, BackedInv, NEW j \in Job, NEW t \in JobType, Ended(j),
         StepOf(FirstRun(j), t), Fails(FirstRun(j), t)
  PROVE  Ended(j)'
  <1> DEFINE f == FirstRun(j)
  <1>1. f \in Run /\ JobOf(f) = j /\ TypeOf(f) = t
    BY FirstRunTyped, RunStepAt
  <1>2. /\ pc[f] = "failing" /\ pc'[f] = "done" /\ artifacts' = artifacts
        /\ jobs'[j].type = t
        /\ jobs'[j].status \in {jobs[j].status, "FAILED"}
    <2>1. pc \in [Run -> RunPc] /\ jobs \in [Job -> JobRow]
      BY DEF TypeInv, TypeOK
    <2>2. /\ pc[f] = "failing" /\ pc' = [pc EXCEPT ![f] = "done"] /\ artifacts' = artifacts
          /\ jobs' = [jobs EXCEPT ![JobOf(f)].status =
                        Flush(jobs[JobOf(f)].status, session[f].job, "FAILED")]
      BY DEF Fails, CommitFailed, FailedStatus, Goto, At
    <2> QED
      BY <1>1, <2>1, <2>2 DEF JobRow, TypeOf, Flush
  <1>3. jobs[j].status \notin {"SUCCEEDED", "FAILED"}
    BY <1>2 DEF Ended, FirstRun
  <1>4. t \in Transactional => \A k \in artifacts' : k[1] # f
    BY <1>1, <1>2 DEF BackedInv, RowsAreDone
  <1>5. t \in Audited => Event(f, "FAILED", 0) \in custody'
    BY DEF Fails, CommitFailed
  <1>6. analysisRun'[f] \in {"NONE", "FAILED"}
    BY <1>1 DEF Fails, CommitFailed, TypeInv, TypeOK
  <1> QED
    BY <1>2, <1>3, <1>4, <1>5, <1>6 DEF Ended, FirstRun

(* Jobs end as they should in the steps of runs.                            *)
LEMMA RunStepOutcome ==
  ASSUME AckLoss = FALSE, TypeInv, BackedInv, SoleRun, OutcomeInv,
         NEW r \in Run, NEW t \in JobType, StepOf(r, t)
  PROVE  OutcomeInv'
  <1> SUFFICES ASSUME NEW j \in Job, ~Redelivered(jobs'[j].type)
               PROVE  Ended(j)'
    BY DEF OutcomeInv, Redelivered
  <1> DEFINE f == FirstRun(j)
  <1>1. f \in Run /\ JobOf(f) = j /\ JobOf(r) \in Job /\ f[2] = FirstDelivery
    BY FirstRunTyped, RunStepAt
  <1>2. jobs'[j].type = jobs[j].type /\ Ended(j)
    BY <1>1, RunStepFrame DEF TypeOf, OutcomeInv
  <1>3. CASE r = f
    <2>1. CASE Publishes(r, t)
      BY <1>3, <2>1, PublishEnds
    <2>2. CASE Fails(r, t)
      BY <1>2, <1>3, <2>2, FailEnds
    <2>3. CASE jobs'[j].status = "RUNNING"
      BY <2>3 DEF Ended
    <2>4. CASE UNCHANGED jobs
      <3>1. pc[f] # "done"
        BY <1>3, RunStepAt DEF Unfinished, Executing
      <3> QED
        BY <1>2, <2>4, <3>1 DEF Ended, FirstRun
    <2> QED
      BY <1>1, <1>3, <2>1, <2>2, <2>3, <2>4, RunStepCommits
  <1>4. CASE r # f
    <2>1. /\ pc'[f] = pc[f] /\ analysisRun'[f] = analysisRun[f]
          /\ artifacts \subseteq artifacts' /\ custody \subseteq custody'
          /\ \A k \in artifacts' \ artifacts : k[1] # f
      BY <1>1, <1>4, RunStepFrame, RunStepRows
    <2>2. jobs'[j] = jobs[j]
      BY <1>2, <1>4, OthersKeepJob
    <2> QED
      BY <1>2, <2>1, <2>2, EndedStays
  <1> QED
    BY <1>3, <1>4

(* Jobs that have ended stay as they are in the steps of requests.          *)
LEMMA RequestOutcome ==
  ASSUME TypeInv, OutcomeInv, RequestStep
  PROVE  OutcomeInv'
  <1> SUFFICES ASSUME NEW j \in Job, ~Redelivered(jobs'[j].type)
               PROVE  Ended(j)'
    BY DEF OutcomeInv, Redelivered
  <1> DEFINE f == FirstRun(j)
  <1>1. /\ UNCHANGED <<artifacts, analysisRun, custody>>
        /\ pc \in [Run -> RunPc] /\ jobs \in [Job -> JobRow]
        /\ f \in Run /\ JobOf(f) = j
    BY RequestEffect, FirstRunTyped DEF TypeInv, TypeOK
  <1>2. CASE UNCHANGED <<jobs, pc>>
    BY <1>1, <1>2, EndedStays DEF OutcomeInv
  <1>3. ASSUME NEW i \in Job, NEW e, NEW t, Inserted(i, e, t)
        PROVE  Ended(j)'
    <2>1. CASE i = j
      BY <1>1, <1>3, <2>1 DEF Inserted, Ended
    <2>2. CASE i # j
      <3>1. jobs'[j] = jobs[j] /\ pc'[f] = pc[f]
        BY <1>1, <1>3, <2>2 DEF Inserted, FirstRun
      <3> QED
        BY <1>1, <3>1, EndedStays DEF OutcomeInv
    <2> QED
      BY <2>1, <2>2
  <1>4. ASSUME NEW r \in Run, DispatchedAgain(r)
        PROVE  Ended(j)'
    <2>1. jobs' = jobs /\ Ended(j)
      BY <1>4 DEF DispatchedAgain, OutcomeInv
    <2>2. r # f \/ (jobs[j].status = "SUCCEEDED" /\ pc[f] = "idle")
      BY <1>1, <1>4 DEF DispatchedAgain
    <2>3. pc'[f] = pc[f]
      BY <1>1, <1>4, <2>1, <2>2 DEF DispatchedAgain, Ended
    <2> QED
      BY <1>1, <2>1, <2>3, EndedStays
  <1>5. ASSUME NEW i \in Job, Cancelled(i)
        PROVE  Ended(j)'
    <2>1. CASE i = j
      BY <1>1, <1>5, <2>1 DEF Cancelled, Ended, JobRow
    <2>2. CASE i # j
      <3>1. jobs'[j] = jobs[j] /\ pc'[f] = pc[f]
        BY <1>1, <1>5, <2>2 DEF Cancelled
      <3> QED
        BY <1>1, <3>1, EndedStays DEF OutcomeInv
    <2> QED
      BY <2>1, <2>2
  <1> QED
    BY <1>2, <1>3, <1>4, <1>5, RequestEffect

(* And in redeliveries and crashes.                                         *)
LEMMA ExternalOutcome ==
  ASSUME TypeInv, OutcomeInv, NEW r \in Run, BrokerRedelivers(r) \/ Crash(r)
  PROVE  OutcomeInv'
  <1> SUFFICES ASSUME NEW j \in Job, ~Redelivered(jobs'[j].type)
               PROVE  Ended(j)'
    BY DEF OutcomeInv, Redelivered
  <1> DEFINE f == FirstRun(j)
  <1>1. UNCHANGED <<jobs, artifacts, analysisRun, custody>> /\ f \in Run /\ JobOf(f) = j
    BY ExternalEffect, FirstRunTyped
  <1>2. Ended(j)
    BY <1>1 DEF OutcomeInv
  <1>3. CASE r # f \/ pc'[f] = pc[f]
    BY <1>1, <1>2, <1>3, ExternalEffect, EndedStays
  <1>4. CASE r = f /\ pc[f] \in Unfinished
    BY <1>1, <1>2, <1>4 DEF Ended, FirstRun, Unfinished, Executing
  <1>5. CASE r = f /\ pc[f] = "idle" /\ Celery /\ TypeOf(f) = "PREPROCESSING"
    BY <1>1, <1>5 DEF Redelivered, TypeOf
  <1> QED
    BY <1>3, <1>4, <1>5, ExternalEffect

(* At first there is nothing to be said of any job.                         *)
LEMMA InitOutcome == Init => BackedInv /\ SoleRun /\ OutcomeInv
  BY DEF Init, SoleRun, BackedInv, CreatedExist, RowsAreDone, ArtifactsBacked,
     NewSession, OutcomeInv, Ended, NoJob

OutcomeIInv == BackedInv /\ SoleRun /\ OutcomeInv

(* Every job that has ended was ended by its first run, unless it is of a   *)
(* kind that is redelivered.                                                *)
LEMMA OutcomesHold ==
  ASSUME AckLoss = FALSE
  PROVE  Spec => []OutcomeIInv
  <1>1. Init => OutcomeIInv
    BY InitOutcome DEF OutcomeIInv
  <1>2. TypeInv /\ OutcomeIInv /\ [Next]_vars => OutcomeIInv'
    <2> SUFFICES ASSUME TypeInv, OutcomeIInv, [Next]_vars PROVE OutcomeIInv'
      OBVIOUS
    <2>1. CASE RequestStep
      BY <2>1, OthersBacked, RequestSole, RequestOutcome DEF OutcomeIInv
    <2>2. ASSUME NEW r \in Run, NEW t \in JobType, StepOf(r, t)
          PROVE  OutcomeIInv'
      BY <2>2, RunStepBacked, RunStepSole, RunStepOutcome DEF OutcomeIInv
    <2>3. ASSUME NEW r \in Run, BrokerRedelivers(r) \/ Crash(r)
          PROVE  OutcomeIInv'
      BY <2>3, OthersBacked, ExternalSole, ExternalOutcome DEF OutcomeIInv
    <2>4. CASE UNCHANGED vars
      BY <2>4 DEF vars, OutcomeIInv, SoleRun, OutcomeInv, Ended, BackedInv, CreatedExist,
         RowsAreDone, ArtifactsBacked, TypeOf, JobOf, FirstRun, Redelivered
    <2> QED
      BY <2>1, <2>2, <2>3, <2>4, NextShape DEF TypeInv
  <1> QED
    BY <1>1, <1>2, PipelineTypeInv, PTL DEF Spec

(* A job that shows SUCCEEDED has every row of its result, its custody      *)
(* event and its analysis run; one that shows FAILED has the event of its   *)
(* failure, and published nothing. Where jobs run in the API process and no *)
(* answer to a COMMIT is lost.                                              *)
THEOREM OutcomesAreComplete ==
  ASSUME AckLoss = FALSE, Celery = FALSE
  PROVE  Spec => []OutcomeComplete
  <1>1. TypeInv /\ OutcomeIInv => OutcomeComplete
    <2> SUFFICES ASSUME TypeInv, OutcomeIInv, NEW j \in Job
                 PROVE  /\ jobs[j].status = "SUCCEEDED" =>
                           \E r \in RunsOf(j) :
                             /\ \A n \in Payloads(jobs[j].type) : <<r, n>> \in artifacts
                             /\ jobs[j].type \in Audited =>
                                  Event(r, "COMPLETED", 0) \in custody
                             /\ \A s \in RunsOf(j) :
                                  analysisRun[s] \in {"NONE", "SUCCEEDED"}
                        /\ jobs[j].status = "FAILED" =>
                           /\ \A r \in RunsOf(j) : analysisRun[r] \in {"NONE", "FAILED"}
                           /\ jobs[j].type \in Transactional =>
                                \A r \in RunsOf(j) : Rows(r) = {}
                           /\ jobs[j].type \in Audited =>
                                \E r \in RunsOf(j) : Event(r, "FAILED", 0) \in custody
      BY DEF OutcomeComplete
    <2>1. Ended(j) /\ FirstRun(j) \in RunsOf(j)
      BY FirstRunTyped DEF OutcomeIInv, OutcomeInv, Redelivered, RunsOf
    <2>2. \A s \in RunsOf(j) :
            s = FirstRun(j) \/ (analysisRun[s] = "NONE" /\ \A k \in artifacts : k[1] # s)
      BY DEF OutcomeIInv, SoleRun, Redelivered, RunsOf, Run, JobOf, FirstRun
    <2> QED
      BY <2>1, <2>2 DEF Ended, Rows
  <1> QED
    BY <1>1, OutcomesHold, PipelineTypeInv, PTL

-----------------------------------------------------------------------------
(* What becomes of stored objects                                           *)

(* Object n of run r has a row, or is on the list of what the run, still at *)
(* work, would clean up, or the run was killed.                             *)
Accounted(r, n) ==
  \/ <<r, n>> \in artifacts
  \/ TypeOf(r) \notin Transactional
  \/ pc[r] = "dead"
  \/ pc[r] \in Executing /\ n \in session[r].created

(* A run has nothing on its list before its pipeline works, nor when it has *)
(* cleaned up.                                                              *)
EmptyHanded(r) ==
  \/ pc[r] \in {"idle", "pending", "jobRead"}
  \/ pc[r] = "failing" /\ TypeOf(r) \in Transactional

OrphanInv ==
  \A r \in Run :
    /\ EmptyHanded(r) => session[r].created = {}
    /\ \A n \in Payload : <<r, n>> \in objects => pc[r] # "idle" /\ Accounted(r, n)

(* A step of the run itself.                                                *)
LEMMA OwnObjects ==
  ASSUME StorageFaults = FALSE, TypeInv, OrphanInv, NEW r \in Run, NEW t \in JobType,
         StepOf(r, t), TypeOf(r)' = t
  PROVE  /\ EmptyHanded(r)' => session'[r].created = {}
         /\ \A n \in Payload : <<r, n>> \in objects' => Accounted(r, n)'
  <1>1. /\ pc \in [Run -> RunPc] /\ session \in [Run -> SessionState]
        /\ pc[r] \in Unfinished /\ TypeOf(r) = t
    BY RunStepAt DEF TypeInv, TypeOK
  <1>2. /\ pc[r] \in {"pending", "jobRead"} => session[r].created = {}
        /\ pc[r] = "failing" /\ t \in Transactional => session[r].created = {}
        /\ \A n \in Payload : <<r, n>> \in objects =>
             \/ <<r, n>> \in artifacts
             \/ t \notin Transactional
             \/ pc[r] \in Executing /\ n \in session[r].created
    BY <1>1 DEF OrphanInv, EmptyHanded, Accounted, Unfinished, Executing
  <1> SUFFICES /\ pc'[r] \in {"idle", "pending", "jobRead"} => session'[r].created = {}
               /\ pc'[r] = "failing" /\ t \in Transactional => session'[r].created = {}
               /\ \A n \in Payload : <<r, n>> \in objects' =>
                    \/ <<r, n>> \in artifacts'
                    \/ t \notin Transactional
                    \/ pc'[r] \in Executing /\ n \in session'[r].created
    BY DEF EmptyHanded, Accounted
  <1>3. CASE ReadJob(r, t) \/ LoadEvidence(r, t)
    BY <1>1, <1>2, <1>3 DEF ReadJob, LoadEvidence, At, Goto, SessionState, Executing
  <1>4. CASE Begins(r, t)
    <2>1. /\ pc[r] = "loaded" /\ objects' = objects /\ artifacts \subseteq artifacts'
          /\ \E next \in {"running", "started"} : pc' = [pc EXCEPT ![r] = next]
          /\ session' = [session EXCEPT ![r].job = "RUNNING",
                                        ![r].status = BeginStatus(r, t)]
      BY <1>4 DEF Begins, CommitRunning, At, Goto
    <2>2. session'[r].created = session[r].created
      BY <1>1, <2>1 DEF SessionState
    <2> QED
      BY <1>1, <1>2, <2>1, <2>2 DEF Executing
  <1>5. CASE RunningConflict(r, t) \/ RecordStarted(r, t) \/ Raise(r, t)
    BY <1>1, <1>2, <1>5 DEF RunningConflict, RecordStarted, Raise, At, Goto, Executing
  <1>6. CASE RaiseOutside(r, t) \/ LoseRunId(r, t)
    BY <1>1, <1>2, <1>6 DEF RaiseOutside, LoseRunId, At, Goto, Executing
  <1>7. CASE Stores(r, t)
    BY <1>1, <1>2, <1>7 DEF Stores, StoreArtifact, At, SessionState, Executing
  <1>8. CASE Publishes(r, t)
    <2>1. /\ pc[r] = "started" /\ objects' = objects
          /\ artifacts' = artifacts \cup StagedRows(r)
          /\ pc' = [pc EXCEPT ![r] = "done"] \/ pc' = [pc EXCEPT ![r] = "cleanup"]
      BY <1>8 DEF Publishes, CommitSucceeded, At, Goto
    <2> QED
      BY <1>1, <1>2, <2>1 DEF StagedRows
  <1>9. CASE CleansUp(r, t)
    BY <1>1, <1>2, <1>9 DEF CleansUp, CleanupArtifact, CleanedUp, At, SessionState,
       Executing
  <1>10. CASE Reloads(r, t)
    <2>1. /\ pc[r] = "cleanup" /\ objects' = objects /\ artifacts' = artifacts
          /\ t \in Transactional => session[r].created = {}
          /\ pc' = [pc EXCEPT ![r] = "failing"]
          /\ session' = [session EXCEPT
               ![r].job = jobs[JobOf(r)].status,
               ![r].status = evidence[EvidenceOf(r)].status,
               ![r].sections = evidence[EvidenceOf(r)].sections]
      BY <1>10 DEF Reloads, FailLoad, At, Goto
    <2>2. session'[r].created = session[r].created
      BY <1>1, <2>1 DEF SessionState
    <2> QED
      BY <1>1, <1>2, <2>1, <2>2 DEF Executing
  <1>11. CASE Fails(r, t)
    <2>1. /\ pc[r] = "failing" /\ objects' = objects /\ artifacts' = artifacts
          /\ pc' = [pc EXCEPT ![r] = "done"]
      BY <1>11 DEF Fails, CommitFailed, At, Goto
    <2> QED
      BY <1>1, <1>2, <2>1 DEF Executing
  <1> QED
    BY <1>3, <1>4, <1>5, <1>6, <1>7, <1>8, <1>9, <1>10, <1>11 DEF StepOf

(* A step of a run accounts for the objects of every run.                   *)
LEMMA RunStepObjects ==
  ASSUME StorageFaults = FALSE, TypeInv, OrphanInv, NEW r \in Run, NEW t \in JobType,
         StepOf(r, t)
  PROVE  OrphanInv'
  <1>1. TypeOf(r)' = t /\ pc'[r] # "idle"
    BY RunStepAt, RunStepFrame DEF TypeOf, JobOf
  <1> SUFFICES ASSUME NEW s \in Run, s # r
               PROVE  /\ EmptyHanded(s)' => session'[s].created = {}
                      /\ \A n \in Payload : <<s, n>> \in objects' =>
                           pc'[s] # "idle" /\ Accounted(s, n)'
    BY <1>1, OwnObjects DEF OrphanInv
  <1>2. pc'[s] = pc[s] /\ session'[s] = session[s] /\ artifacts \subseteq artifacts'
    BY RunStepFrame, RunStepRows
  <1>3. \A n \in Payload : <<s, n>> \in objects' => <<s, n>> \in objects
    BY RunStepRows DEF ArtifactKey
  <1>4. TypeOf(s)' = TypeOf(s)
    BY RunStepFrame DEF TypeOf, JobOf, Run
  <1> QED
    BY <1>2, <1>3, <1>4 DEF OrphanInv, EmptyHanded, Accounted

(* So do requests, redeliveries and crashes: a killed run forgets its list, *)
(* and is known to have been killed.                                        *)
LEMMA OthersObjects ==
  ASSUME TypeInv, OrphanInv, RequestStep \/ \E r \in Run : BrokerRedelivers(r) \/ Crash(r)
  PROVE  OrphanInv'
  <1> SUFFICES ASSUME NEW r \in Run
               PROVE  /\ EmptyHanded(r)' => session'[r].created = {}
                      /\ \A n \in Payload : <<r, n>> \in objects =>
                           pc'[r] # "idle" /\ Accounted(r, n)'
    BY OthersEffect DEF OrphanInv
  <1>1. /\ EmptyHanded(r) => session[r].created = {}
        /\ \A n \in Payload : <<r, n>> \in objects => pc[r] # "idle" /\ Accounted(r, n)
    BY DEF OrphanInv
  <1>2. pc[r] # "idle" => TypeOf(r)' = TypeOf(r)
    BY BegunHasRow, OthersEffect DEF TypeOf, JobOf
  <1>3. /\ artifacts' = artifacts
        /\ \/ pc'[r] = pc[r] /\ session'[r] = session[r]
           \/ pc[r] = "idle" /\ pc'[r] = "pending" /\ session'[r] = session[r]
           \/ pc[r] \in Unfinished /\ pc'[r] = "dead" /\ session'[r] = NewSession
    BY OthersEffect
  <1> QED
    BY <1>1, <1>2, <1>3 DEF EmptyHanded, Accounted, NewSession, Executing

(* An object without a row is that of a run which is still at work or was   *)
(* killed: in every other course the except clause of a transactional       *)
(* service takes it back, if the storage lets it. For every mode of         *)
(* dispatch, with cancellation and with lost answers to a COMMIT.           *)
THEOREM OrphansAreOfTheKilled ==
  ASSUME StorageFaults = FALSE
  PROVE  Spec => []NoOrphans
  <1>1. Init => OrphanInv
    BY DEF Init, OrphanInv, NewSession
  <1>2. TypeInv /\ OrphanInv /\ [Next]_vars => OrphanInv'
    <2> SUFFICES ASSUME TypeInv, OrphanInv, [Next]_vars PROVE OrphanInv'
      OBVIOUS
    <2>1. CASE Next
      BY <2>1, NextShape, RunStepObjects, OthersObjects DEF TypeInv
    <2>2. CASE UNCHANGED vars
      BY <2>2 DEF vars, OrphanInv, EmptyHanded, Accounted, TypeOf, JobOf
    <2> QED
      BY <2>1, <2>2
  <1>3. TypeInv /\ OrphanInv => NoOrphans
    <2> SUFFICES ASSUME TypeInv, OrphanInv, NEW k \in objects \ artifacts,
                        TypeOf(k[1]) \in Transactional
                 PROVE  pc[k[1]] \in Executing \cup {"dead"}
      BY DEF NoOrphans
    <2>1. k = <<k[1], k[2]>> /\ k[1] \in Run /\ k[2] \in Payload
      BY DEF TypeInv, TypeOK, ArtifactKey
    <2> QED
      BY <2>1 DEF OrphanInv, Accounted
  <1> QED
    BY <1>1, <1>2, <1>3, PipelineTypeInv, PTL DEF Spec
=============================================================================
