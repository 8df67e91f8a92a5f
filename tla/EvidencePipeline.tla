-------------------------- MODULE EvidencePipeline --------------------------
(***************************************************************************)
(* The ten services at work on the same database and storage, with the     *)
(* processes that execute them: requests interleave with background runs,  *)
(* and a process may be killed between any two steps of a run.             *)
(***************************************************************************)
EXTENDS PreprocessingService, ExtractionService, ForensicService, ComparisonService,
        ImageAIService, DocumentAIService, SignatureService, VideoAIService,
        AudioAIService, FusionService

(* External: the process executing the run is killed, the dispatch of a     *)
(* committed job is lost, or the database refuses _fail_job as well.  What  *)
(* the run loaded is gone; nothing looks for the job it leaves behind.      *)
Crash(r) ==
  /\ pc[r] \in Unfinished
  /\ Goto(r, "dead")
  /\ Close(r)
  /\ UNCHANGED <<jobs, evidence, artifacts, objects, custody, analysisRun, client>>

Request(c) ==
  \/ \E e \in Evidence : PreprocessingRequest(c, e) \/ ExtractionRequest(c, e)
                           \/ AnalysisRequest(c, e)
  \/ PreprocessingCheck(c) \/ ExtractionCheck(c) \/ AnalysisCheck(c)
  \/ PreprocessingInsert(c) \/ ExtractionInsert(c) \/ AnalysisInsert(c)

(* The services whose jobs come after the pipeline proper.                  *)
EngineRequest(c) ==
  \/ \E e \in Evidence : ComparisonRequest(c, e) \/ ImageAIRequest(c, e)
                           \/ DocumentAIRequest(c, e) \/ SignatureRequest(c, e)
                           \/ VideoAIRequest(c, e) \/ AudioAIRequest(c, e)
                           \/ FusionRequest(c, e)
  \/ ComparisonCheck(c) \/ ImageAICheck(c) \/ DocumentAICheck(c) \/ SignatureCheck(c)
  \/ VideoAICheck(c) \/ AudioAICheck(c) \/ FusionCheck(c)
  \/ ComparisonInsert(c) \/ ImageAIInsert(c) \/ DocumentAIInsert(c) \/ SignatureInsert(c)
  \/ VideoAIInsert(c) \/ AudioAIInsert(c) \/ FusionInsert(c)

Returned(e) == ExtractionReturned(e) \/ AnalysisReturned(e)

Cancel(c) == (\E j \in Job : CancelRead(c, j)) \/ CancelCommit(c)

EngineRun(r) ==
  \/ ComparisonRun(r) \/ ImageAIRun(r) \/ DocumentAIRun(r) \/ SignatureRun(r)
  \/ VideoAIRun(r) \/ AudioAIRun(r) \/ FusionRun(r)

RunStep(r) == PreprocessingRun(r) \/ ExtractionRun(r) \/ ForensicRun(r) \/ EngineRun(r)

Next ==
  \/ \E c \in Client : Request(c) \/ EngineRequest(c) \/ Cancel(c)
  \/ \E e \in Evidence : Returned(e)
  \/ \E r \in Run : RunStep(r) \/ BrokerRedelivers(r) \/ Crash(r)

Spec == Init /\ [][Next]_vars

(* The event loop, or the worker, goes on executing a run that can take a   *)
(* step.  Nothing makes clients ask or cancel, or brokers redeliver.        *)
FairSpec == Spec /\ \A r \in Run : WF_vars(RunStep(r))

-----------------------------------------------------------------------------

TypeOK ==
  /\ jobs \in [Job -> JobRow]
  /\ evidence \in [Evidence -> EvidenceRow]
  /\ artifacts \subseteq ArtifactKey
  /\ objects \subseteq ArtifactKey
  /\ custody \subseteq CustodyRow
  /\ analysisRun \in [Run -> AnalysisRunStatus]
  /\ client \in [Client -> ClientState]
  /\ pc \in [Run -> RunPc]
  /\ session \in [Run -> SessionState]

(* At most one QUEUED or RUNNING job per evidence item and job type,        *)
(* whatever requests race, brokers redeliver or runs fail.                  *)
ActiveUnique ==
  \A i, j \in Job :
    /\ {jobs[i].status, jobs[j].status} \subseteq ActiveStatus
    /\ jobs[i].evidence = jobs[j].evidence
    /\ jobs[i].type = jobs[j].type
    => i = j

(* The services that append to the chain of custody.                        *)
Audited == {"PREPROCESSING", "EXTRACTION", "ANALYSIS", "COMPARISON"}

(* The services that publish in one transaction, and take back what they    *)
(* stored when they fail: a signature verification does neither.            *)
Transactional == JobType \ {"SIGNATURE_VERIFICATION"}

(* Every artifact row a reader can find has its file, and its custody event:*)
(* no failure, clean-up or crash takes away the file of a published row.    *)
ArtifactsBacked ==
  \A k \in artifacts :
    /\ k \in objects
    /\ TypeOf(k[1]) \in Audited => Event(k[1], "ARTIFACT_CREATED", k[2]) \in custody

Rows(r) == {k \in artifacts : k[1] = r}
RunsOf(j) == {r \in Run : JobOf(r) = j}

(* A SUCCEEDED job has one run that published all its artifacts, said so in *)
(* the chain of custody and closed its analysis run; a FAILED job said so,  *)
(* left no analysis run open and published nothing, but for a signature     *)
(* verification, whose row is committed before it ends.                     *)
OutcomeComplete ==
  \A j \in Job :
    /\ jobs[j].status = "SUCCEEDED" =>
         \E r \in RunsOf(j) :
           /\ \A n \in Payloads(jobs[j].type) : <<r, n>> \in artifacts
           /\ jobs[j].type \in Audited => Event(r, "COMPLETED", 0) \in custody
           /\ \A s \in RunsOf(j) : analysisRun[s] \in {"NONE", "SUCCEEDED"}
    /\ jobs[j].status = "FAILED" =>
         /\ \A r \in RunsOf(j) : analysisRun[r] \in {"NONE", "FAILED"}
         /\ jobs[j].type \in Transactional => \A r \in RunsOf(j) : Rows(r) = {}
         /\ jobs[j].type \in Audited =>
              \E r \in RunsOf(j) : Event(r, "FAILED", 0) \in custody

(* Evidence shown as ANALYZING has an analysis job that is RUNNING: no path *)
(* of a run leaves the status behind.                                       *)
AnalyzingHasRun ==
  \A e \in Evidence :
    evidence[e].status = "ANALYZING" =>
      \E j \in JobsOf(e, "ANALYSIS") : jobs[j].status = "RUNNING"

(* Evidence open for analysis was preprocessed with success, and its        *)
(* metadata still holds the classification preprocessing wrote, whatever    *)
(* other services wrote over the document since.                            *)
ReadyWasProcessed ==
  \A e \in Evidence :
    evidence[e].status \in {"READY_FOR_ANALYSIS", "ANALYZING", "ANALYZED"} =>
      /\ \E j \in JobsOf(e, "PREPROCESSING") : jobs[j].status = "SUCCEEDED"
      /\ "PREPROCESSING" \in evidence[e].sections

(* An analysis is never queued for evidence no extraction succeeded on      *)
(* before it.                                                               *)
AnalysisAfterExtraction ==
  \A j \in Job :
    jobs[j].type = "ANALYSIS" =>
      \E i \in JobsOf(jobs[j].evidence, "EXTRACTION") :
        i < j /\ jobs[i].status = "SUCCEEDED"

(* When storage works, an object without a row belongs to a run that is     *)
(* still at work or was killed, or to a signature verification.             *)
NoOrphans ==
  \A k \in objects \ artifacts :
    TypeOf(k[1]) \in Transactional => pc[k[1]] \in Executing \cup {"dead"}

(* What a job row says when it is over is final (docs/processing-pipeline,  *)
(* Job lifecycle).                                                          *)
TerminalStable ==
  [][\A j \in Job : jobs[j].status \in TerminalStatus => jobs'[j].status = jobs[j].status]_jobs

(* A repeat for unchanged evidence returns the existing extraction job      *)
(* instead of creating duplicate records (docs/extraction-and-localization).*)
ExtractionNotRepeated ==
  \A i, j \in Job :
    /\ jobs[i].type = "EXTRACTION" /\ jobs[i].status = "SUCCEEDED"
    /\ jobs[j].type = "EXTRACTION" /\ jobs[j].status = "SUCCEEDED"
    /\ jobs[i].evidence = jobs[j].evidence
    => i = j

(* When every run of a job is over, so is the job: it shows how it ended    *)
(* (docs/processing-pipeline, "Each job records its attempt and safe        *)
(* terminal error code/message").                                           *)
EndRecorded ==
  \A j \in Job :
    /\ \A r \in RunsOf(j) : pc[r] \in {"idle", "done"}
    /\ \E r \in RunsOf(j) : pc[r] = "done"
    => jobs[j].status \in TerminalStatus

(* A queued job comes to an end, unless the process that executes it is     *)
(* killed.                                                                  *)
Progress ==
  \A j \in Job :
    jobs[j].status = "QUEUED" ~>
      \/ jobs[j].status \in TerminalStatus
      \/ \E r \in RunsOf(j) : pc[r] = "dead"

(* The pipeline is the abstract job table: the slots are evidence items and *)
(* job types, and a job is published when some artifact of it has a row, or *)
(* its run row says SUCCEEDED.                                              *)
Lifecycle == INSTANCE JobLifecycle WITH
  Slot <- Evidence \X JobType,
  NoSlot <- <<NoEvidence, "NONE">>,
  slot <- [j \in Job |-> <<jobs[j].evidence, jobs[j].type>>],
  status <- [j \in Job |-> jobs[j].status],
  published <- {j \in Job : \E r \in RunsOf(j) :
                              Rows(r) # {} \/ analysisRun[r] = "SUCCEEDED"}

(* Every step of the services is a step of the abstract job table, or one   *)
(* its readers cannot see.                                                  *)
ImplementsLifecycle == Lifecycle!Spec
=============================================================================
