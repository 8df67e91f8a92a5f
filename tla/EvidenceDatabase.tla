-------------------------- MODULE EvidenceDatabase --------------------------
(***************************************************************************)
(* The state the evidence job services share: the rows of the database,    *)
(* the objects of the storage service, and the unit-of-work session of     *)
(* every background run.  The services are modules of their own that       *)
(* EXTEND this one; EvidencePipeline composes them.                        *)
(*                                                                         *)
(* A job type stands for one service: PREPROCESSING for                    *)
(* ProcessingOrchestrator, EXTRACTION for ExtractionService, ANALYSIS for  *)
(* ForensicService, COMPARISON for ComparisonService, MULTIMODAL_FUSION    *)
(* for FusionService, and the five others for the AI services.             *)
(*                                                                         *)
(* One action is one database transaction or one storage call, the points  *)
(* between which other coroutines and processes run.  A row is read where  *)
(* the code reads it and written where the code commits it: what a run     *)
(* loaded may be stale by the time it writes.                              *)
(***************************************************************************)
EXTENDS Naturals

CONSTANTS
  Evidence,      \* registered evidence items
  NoEvidence,    \* the evidence of a job row that does not exist yet
  Client,        \* API requests being served at the same time
  MaxJobs,       \* bound: job rows ever inserted
  Delivery,      \* bound: invocations of run(job_id) per job
  FirstDelivery, \* the invocation dispatched by the request that made the job
  NumPayloads,   \* bound: artifacts a pipeline derives from one evidence item
  Requested,     \* the job types clients ask for
  Celery,        \* TRUE iff JOB_QUEUE_MODE is redis or celery
  Cancellable,   \* TRUE iff something calls ProcessingOrchestrator.cancel
  StorageFaults, \* TRUE iff a storage call may fail half-way
  AckLoss        \* TRUE iff the answer to a COMMIT may be lost

Job == 1..MaxJobs
Run == Job \X Delivery
Payload == 1..NumPayloads

JobType ==
  {"PREPROCESSING", "EXTRACTION", "ANALYSIS", "COMPARISON", "IMAGE_AI_ANALYSIS",
   "DOCUMENT_AI_ANALYSIS", "SIGNATURE_VERIFICATION", "VIDEO_AI_ANALYSIS",
   "AUDIO_AI_ANALYSIS", "MULTIMODAL_FUSION"}

(* The artifacts a job of each type makes: one prediction for a signature,  *)
(* none for a fusion, whose result is its run row.                          *)
Payloads(t) ==
  CASE t = "SIGNATURE_VERIFICATION" -> {1}
    [] t = "MULTIMODAL_FUSION"      -> {}
    [] OTHER                        -> Payload

ASSUME MaxJobsAssumption == MaxJobs \in Nat
ASSUME NumPayloadsAssumption == NumPayloads \in Nat \ {0}
ASSUME NoEvidenceAssumption == NoEvidence \notin Evidence
ASSUME FirstDeliveryAssumption == FirstDelivery \in Delivery
ASSUME RequestedAssumption == Requested \subseteq JobType
ASSUME FlagsAssumption == {Celery, Cancellable, StorageFaults, AckLoss} \subseteq BOOLEAN

VARIABLES
  jobs,        \* the processing_jobs table
  evidence,    \* status and metadata sections of each evidence row
  artifacts,   \* the artifacts table: keys of the committed rows
  objects,     \* keys of the derived objects that exist in storage
  custody,     \* the chain-of-custody rows the runs committed
  analysisRun, \* the analysis run row of each run
  client,      \* each API request: what it has read, and not yet written
  pc,          \* where each background run is
  session      \* what each run's session loaded, and the artifacts it made

vars == <<jobs, evidence, artifacts, objects, custody, analysisRun, client,
          pc, session>>

-----------------------------------------------------------------------------
(* Rows *)

JobStatus == {"ABSENT", "QUEUED", "RUNNING", "SUCCEEDED", "FAILED", "CANCELLED"}

ActiveStatus == {"QUEUED", "RUNNING"}
TerminalStatus == {"SUCCEEDED", "FAILED", "CANCELLED"}

JobRow == [evidence : Evidence \cup {NoEvidence},
           type : JobType \cup {"NONE"},
           status : JobStatus]

NoJob == [evidence |-> NoEvidence, type |-> "NONE", status |-> "ABSENT"]

EvidenceStatus ==
  {"REGISTERED", "READY_FOR_ANALYSIS", "ANALYZING", "ANALYZED", "FAILED"}

(* The metadata document is kept as the set of services whose section is in *)
(* it: a service writes the same section for the same evidence.             *)
EvidenceRow == [status : EvidenceStatus, sections : SUBSET JobType]

(* An artifact row and its object have a key made for one payload of one    *)
(* run (a fresh UUID in the code).                                          *)
ArtifactKey == Run \X Payload

CustodyType == {"STARTED", "ARTIFACT_CREATED", "COMPLETED", "FAILED"}
CustodyRow == [run : Run, type : CustodyType, payload : Payload \cup {0}]
Event(r, t, n) == [run |-> r, type |-> t, payload |-> n]

AnalysisRunStatus == {"NONE", "RUNNING", "SUCCEEDED", "FAILED"}

JobOf(r) == r[1]
TypeOf(r) == jobs[JobOf(r)].type
EvidenceOf(r) == jobs[JobOf(r)].evidence
JobsOf(e, t) == {j \in Job : jobs[j].evidence = e /\ jobs[j].type = t}

-----------------------------------------------------------------------------
(* Queries and constraints of the processing_jobs table *)

ActiveJobs(e, t) == {j \in JobsOf(e, t) : jobs[j].status \in ActiveStatus}

HasActiveJob(e, t) == ActiveJobs(e, t) # {}

(* latest_for_evidence: rows are numbered in the order of created_at.       *)
LatestIs(j, e, t) == j \in JobsOf(e, t) /\ \A i \in JobsOf(e, t) : i <= j

LatestSucceeded(e, t) ==
  \E j \in Job : LatestIs(j, e, t) /\ jobs[j].status = "SUCCEEDED"

(* The partial unique index uq_processing_jobs_active, evaluated for row j  *)
(* of evidence e and type t when that row is about to be active.            *)
IndexIgnoredM(j, e, t) == TRUE
IndexAllows(j, e, t) == ActiveJobs(e, t) \subseteq {j}

NextFreeJob(j) ==
  jobs[j].status = "ABSENT" /\ \A i \in Job : i < j => jobs[i].status # "ABSENT"

-----------------------------------------------------------------------------
(* Flushing an ORM attribute: an UPDATE is emitted only for a value that    *)
(* differs from the one the session loaded.                                 *)

Flush(stored, loaded, new) == IF new = loaded THEN stored ELSE new

(* {**evidence.metadata_json, own_section: ...}: the document the session   *)
(* loaded with the service's section replaced.                              *)
UnmergedM(loaded, section) == {section}
Merged(loaded, section) == loaded \cup {section}

UpdatedEvidence(e, loaded, status, sections) ==
  [evidence EXCEPT
     ![e] = [status   |-> Flush(@.status, loaded.status, status),
             sections |-> Flush(@.sections, loaded.sections, sections)]]

-----------------------------------------------------------------------------
(* Where a run is.  "pending": dispatched, not begun.  "jobRead": the job   *)
(* was found QUEUED.  "loaded": the evidence row too.  "running": RUNNING   *)
(* is committed.  "started": the started event is committed as well and the *)
(* pipeline works.  "cleanup": an exception was caught and the transaction  *)
(* rolled back.  "failing": _fail_job has re-read the rows.  "dead": the    *)
(* process was killed.                                                      *)
RunPc == {"idle", "pending", "jobRead", "loaded", "running", "started",
          "cleanup", "failing", "done", "dead"}

Executing == {"jobRead", "loaded", "running", "started", "cleanup", "failing"}
Unfinished == Executing \cup {"pending"}

SessionState == [job : JobStatus, status : EvidenceStatus,
                 sections : SUBSET JobType, created : SUBSET Payload]
NewSession == [job |-> "ABSENT", status |-> "REGISTERED", sections |-> {},
               created |-> {}]

(* A request is admitted when the evidence allows the job, checked when no   *)
(* active job was found; "cancelling" holds a job that was read as active.   *)
ClientState == [at : {"idle", "admitted", "checked", "cancelling"},
                evidence : Evidence \cup {NoEvidence},
                type : JobType \cup {"NONE"}, job : Job \cup {0}]
IdleClient == [at |-> "idle", evidence |-> NoEvidence, type |-> "NONE", job |-> 0]

Goto(r, next) == pc' = [pc EXCEPT ![r] = next]
Close(r) == session' = [session EXCEPT ![r] = NewSession]
Answer(c) == client' = [client EXCEPT ![c] = IdleClient]

Init ==
  /\ jobs = [j \in Job |-> NoJob]
  /\ evidence = [e \in Evidence |-> [status |-> "REGISTERED", sections |-> {}]]
  /\ artifacts = {}
  /\ objects = {}
  /\ custody = {}
  /\ analysisRun = [r \in Run |-> "NONE"]
  /\ client = [c \in Client |-> IdleClient]
  /\ pc = [r \in Run |-> "idle"]
  /\ session = [r \in Run |-> NewSession]
=============================================================================
