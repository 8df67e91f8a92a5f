------------------------ MODULE DocumentAIService --------------------------
(***************************************************************************)
(* The AI document analysis service (ai/document/service.py):              *)
(* DOCUMENT_AI_ANALYSIS jobs.  The evidence is taken to be of a class      *)
(* create_job accepts.                                                     *)
(***************************************************************************)
EXTENDS JobRun

DocumentAIRequest(c, e) ==
  /\ evidence[e].status \in {"READY_FOR_ANALYSIS", "ANALYZED"}
  /\ Admit(c, e, "DOCUMENT_AI_ANALYSIS")

DocumentAICheck(c) == CheckActive(c, "DOCUMENT_AI_ANALYSIS")

DocumentAIInsert(c) == Insert(c, "DOCUMENT_AI_ANALYSIS")

DocumentAIRead(r) ==
  ReadJob(r, "DOCUMENT_AI_ANALYSIS") \/ LoadEvidence(r, "DOCUMENT_AI_ANALYSIS")

DocumentAIBegin(r) ==
  CommitRunning(r, "DOCUMENT_AI_ANALYSIS", "started", session[r].status, "RUNNING", {})

DocumentAIStore(r) == StoreArtifact(r, "DOCUMENT_AI_ANALYSIS", "started")

DocumentAISucceed(r) ==
  CommitSucceeded(r, "DOCUMENT_AI_ANALYSIS", session[r].status, {}, "SUCCEEDED")

(* The transaction _context opened is open whatever raises.                 *)
DocumentAIRaise(r) == Raise(r, "DOCUMENT_AI_ANALYSIS")

DocumentAICleanup(r) ==
  \/ CleanupArtifact(r, "DOCUMENT_AI_ANALYSIS")
  \/ analysisRun[r] = "NONE" /\ FailLoad(r, "DOCUMENT_AI_ANALYSIS", session[r].created)
  \/ LoseRunId(r, "DOCUMENT_AI_ANALYSIS")

DocumentAIFail(r) ==
  CommitFailed(r, "DOCUMENT_AI_ANALYSIS", session[r].status, {})

DocumentAIRun(r) ==
  \/ DocumentAIRead(r)
  \/ DocumentAIBegin(r)
  \/ DocumentAIStore(r)
  \/ DocumentAISucceed(r)
  \/ DocumentAIRaise(r)
  \/ DocumentAICleanup(r)
  \/ DocumentAIFail(r)
=============================================================================
