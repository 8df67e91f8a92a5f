-------------------------- MODULE AudioAIService ---------------------------
(***************************************************************************)
(* The AI audio analysis service (ai/audio/service.py): AUDIO_AI_ANALYSIS  *)
(* jobs.  The reference a request may name is another item, only read.     *)
(***************************************************************************)
EXTENDS JobRun

AudioAIRequest(c, e) ==
  /\ evidence[e].status \in {"READY_FOR_ANALYSIS", "ANALYZED"}
  /\ Admit(c, e, "AUDIO_AI_ANALYSIS")

AudioAICheck(c) == CheckActive(c, "AUDIO_AI_ANALYSIS")

AudioAIInsert(c) == Insert(c, "AUDIO_AI_ANALYSIS")

AudioAIRead(r) ==
  ReadJob(r, "AUDIO_AI_ANALYSIS") \/ LoadEvidence(r, "AUDIO_AI_ANALYSIS")

AudioAIBegin(r) ==
  CommitRunning(r, "AUDIO_AI_ANALYSIS", "started", session[r].status, "RUNNING", {})

AudioAIStore(r) == StoreArtifact(r, "AUDIO_AI_ANALYSIS", "started")

AudioAISucceed(r) ==
  CommitSucceeded(r, "AUDIO_AI_ANALYSIS", session[r].status, {}, "SUCCEEDED")

(* The transaction _context opened is open whatever raises.                 *)
AudioAIRaise(r) == Raise(r, "AUDIO_AI_ANALYSIS")

AudioAICleanup(r) ==
  \/ CleanupArtifact(r, "AUDIO_AI_ANALYSIS")
  \/ analysisRun[r] = "NONE" /\ FailLoad(r, "AUDIO_AI_ANALYSIS", session[r].created)
  \/ LoseRunId(r, "AUDIO_AI_ANALYSIS")

AudioAIFail(r) ==
  CommitFailed(r, "AUDIO_AI_ANALYSIS", session[r].status, {})

AudioAIRun(r) ==
  \/ AudioAIRead(r)
  \/ AudioAIBegin(r)
  \/ AudioAIStore(r)
  \/ AudioAISucceed(r)
  \/ AudioAIRaise(r)
  \/ AudioAICleanup(r)
  \/ AudioAIFail(r)
=============================================================================
