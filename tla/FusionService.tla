-------------------------- MODULE FusionService ----------------------------
(***************************************************************************)
(* The fusion service (fusion/service.py): MULTIMODAL_FUSION jobs.  They   *)
(* read what the analyses of the item found and make no artifact; the run  *)
(* row is their whole result.                                              *)
(***************************************************************************)
EXTENDS JobRun

FusionRequest(c, e) ==
  /\ evidence[e].status \in {"READY_FOR_ANALYSIS", "ANALYZED"}
  /\ Admit(c, e, "MULTIMODAL_FUSION")

FusionCheck(c) == CheckActive(c, "MULTIMODAL_FUSION")

FusionInsert(c) == Insert(c, "MULTIMODAL_FUSION")

FusionRead(r) ==
  ReadJob(r, "MULTIMODAL_FUSION") \/ LoadEvidence(r, "MULTIMODAL_FUSION")

FusionBegin(r) ==
  CommitRunning(r, "MULTIMODAL_FUSION", "started", session[r].status, "RUNNING", {})

FusionSucceed(r) ==
  CommitSucceeded(r, "MULTIMODAL_FUSION", session[r].status, {}, "SUCCEEDED")

(* The engine reads through the session of the run before anything else.    *)
FusionRaise(r) == Raise(r, "MULTIMODAL_FUSION")

FusionCleanup(r) ==
  \/ analysisRun[r] = "NONE" /\ FailLoad(r, "MULTIMODAL_FUSION", session[r].created)
  \/ LoseRunId(r, "MULTIMODAL_FUSION")

FusionFail(r) ==
  CommitFailed(r, "MULTIMODAL_FUSION", session[r].status, {})

FusionRun(r) ==
  \/ FusionRead(r)
  \/ FusionBegin(r)
  \/ FusionSucceed(r)
  \/ FusionRaise(r)
  \/ FusionCleanup(r)
  \/ FusionFail(r)
=============================================================================
