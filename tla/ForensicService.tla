-------------------------- MODULE ForensicService ---------------------------
(***************************************************************************)
(* ForensicAnalysisService (forensics/service.py): ANALYSIS jobs.  They    *)
(* hold the evidence in ANALYZING while they run, and keep one AnalysisRun *)
(* row per run.                                                            *)
(***************************************************************************)
EXTENDS JobRun

UnextractedM(e) == TRUE
ExtractionDone(e) == LatestSucceeded(e, "EXTRACTION")

AnalysisAllowed(e) ==
  evidence[e].status \in {"READY_FOR_ANALYSIS", "ANALYZED"} /\ ExtractionDone(e)

AnalysisRequest(c, e) ==
  /\ AnalysisAllowed(e)
  /\ ~LatestSucceeded(e, "ANALYSIS")
  /\ Admit(c, e, "ANALYSIS")

AnalysisReturned(e) == AnalysisAllowed(e) /\ DispatchAgain(e, "ANALYSIS")

AnalysisCheck(c) == CheckActive(c, "ANALYSIS")

AnalysisInsert(c) == Insert(c, "ANALYSIS")

AnalysisRead(r) == ReadJob(r, "ANALYSIS") \/ LoadEvidence(r, "ANALYSIS")

AnalysisBegin(r) == CommitRunning(r, "ANALYSIS", "running", "ANALYZING", "RUNNING", {})

AnalysisStarted(r) == RecordStarted(r, "ANALYSIS")

AnalysisStore(r) == StoreArtifact(r, "ANALYSIS", "started")

AnalysisSucceed(r) ==
  CommitSucceeded(r, "ANALYSIS", "ANALYZED", SuccessEvents(r), "SUCCEEDED")

AnalysisRaise(r) == Raise(r, "ANALYSIS") \/ RaiseOutside(r, "ANALYSIS")

AnalysisCleanup(r) ==
  \/ CleanupArtifact(r, "ANALYSIS")
  \/ analysisRun[r] = "NONE" /\ FailLoad(r, "ANALYSIS", session[r].created)
  \/ LoseRunId(r, "ANALYSIS")

LeftAnalyzingM(status) == status
StatusAfterAnalysisFailure(status) ==
  IF status = "ANALYZING" THEN "READY_FOR_ANALYSIS" ELSE status

AnalysisFail(r) ==
  CommitFailed(r, "ANALYSIS", StatusAfterAnalysisFailure(session[r].status),
               {Event(r, "FAILED", 0)})

ForensicRun(r) ==
  \/ AnalysisRead(r)
  \/ AnalysisBegin(r)
  \/ AnalysisStarted(r)
  \/ AnalysisStore(r)
  \/ AnalysisSucceed(r)
  \/ AnalysisRaise(r)
  \/ AnalysisCleanup(r)
  \/ AnalysisFail(r)
=============================================================================
