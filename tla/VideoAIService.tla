-------------------------- MODULE VideoAIService ---------------------------
(***************************************************************************)
(* The AI video analysis service (ai/video/service.py): VIDEO_AI_ANALYSIS  *)
(* jobs.  The evidence is taken to be of the class create_job requires.    *)
(***************************************************************************)
EXTENDS JobRun

VideoAIRequest(c, e) ==
  /\ evidence[e].status \in {"READY_FOR_ANALYSIS", "ANALYZED"}
  /\ Admit(c, e, "VIDEO_AI_ANALYSIS")

VideoAICheck(c) == CheckActive(c, "VIDEO_AI_ANALYSIS")

VideoAIInsert(c) == Insert(c, "VIDEO_AI_ANALYSIS")

VideoAIRead(r) ==
  ReadJob(r, "VIDEO_AI_ANALYSIS") \/ LoadEvidence(r, "VIDEO_AI_ANALYSIS")

VideoAIBegin(r) ==
  CommitRunning(r, "VIDEO_AI_ANALYSIS", "started", session[r].status, "RUNNING", {})

VideoAIStore(r) == StoreArtifact(r, "VIDEO_AI_ANALYSIS", "started")

VideoAISucceed(r) ==
  CommitSucceeded(r, "VIDEO_AI_ANALYSIS", session[r].status, {}, "SUCCEEDED")

(* The transaction _context opened is open whatever raises.                 *)
VideoAIRaise(r) == Raise(r, "VIDEO_AI_ANALYSIS")

VideoAICleanup(r) ==
  \/ CleanupArtifact(r, "VIDEO_AI_ANALYSIS")
  \/ analysisRun[r] = "NONE" /\ FailLoad(r, "VIDEO_AI_ANALYSIS", session[r].created)
  \/ LoseRunId(r, "VIDEO_AI_ANALYSIS")

VideoAIFail(r) ==
  CommitFailed(r, "VIDEO_AI_ANALYSIS", session[r].status, {})

VideoAIRun(r) ==
  \/ VideoAIRead(r)
  \/ VideoAIBegin(r)
  \/ VideoAIStore(r)
  \/ VideoAISucceed(r)
  \/ VideoAIRaise(r)
  \/ VideoAICleanup(r)
  \/ VideoAIFail(r)
=============================================================================
