--------------------------- MODULE ImageAIService ---------------------------
(***************************************************************************)
(* The AI image analysis service (ai/image/service.py): IMAGE_AI_ANALYSIS  *)
(* jobs.  They neither write evidence.status nor append custody events.    *)
(* The evidence is taken to be an image, which create_job requires and     *)
(* nothing changes.                                                        *)
(***************************************************************************)
EXTENDS JobRun

ImageAIRequest(c, e) ==
  /\ evidence[e].status \in {"READY_FOR_ANALYSIS", "ANALYZED"}
  /\ Admit(c, e, "IMAGE_AI_ANALYSIS")

ImageAICheck(c) == CheckActive(c, "IMAGE_AI_ANALYSIS")

ImageAIInsert(c) == Insert(c, "IMAGE_AI_ANALYSIS")

ImageAIRead(r) == ReadJob(r, "IMAGE_AI_ANALYSIS") \/ LoadEvidence(r, "IMAGE_AI_ANALYSIS")

ImageAIBegin(r) ==
  CommitRunning(r, "IMAGE_AI_ANALYSIS", "started", session[r].status, "RUNNING", {})

ImageAIStore(r) == StoreArtifact(r, "IMAGE_AI_ANALYSIS", "started")

ImageAISucceed(r) ==
  CommitSucceeded(r, "IMAGE_AI_ANALYSIS", session[r].status, {}, "SUCCEEDED")

ImageAIRaise(r) == Raise(r, "IMAGE_AI_ANALYSIS") \/ RaiseOutside(r, "IMAGE_AI_ANALYSIS")

ImageAICleanup(r) ==
  \/ CleanupArtifact(r, "IMAGE_AI_ANALYSIS")
  \/ analysisRun[r] = "NONE" /\ FailLoad(r, "IMAGE_AI_ANALYSIS", session[r].created)
  \/ LoseRunId(r, "IMAGE_AI_ANALYSIS")

ImageAIFail(r) == CommitFailed(r, "IMAGE_AI_ANALYSIS", session[r].status, {})

ImageAIRun(r) ==
  \/ ImageAIRead(r)
  \/ ImageAIBegin(r)
  \/ ImageAIStore(r)
  \/ ImageAISucceed(r)
  \/ ImageAIRaise(r)
  \/ ImageAICleanup(r)
  \/ ImageAIFail(r)
=============================================================================
