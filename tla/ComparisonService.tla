------------------------ MODULE ComparisonService --------------------------
(***************************************************************************)
(* The comparison service (comparison/service.py): COMPARISON jobs, which  *)
(* append custody events.  The reference is another, registered item of the*)
(* case; a job only reads it, and nothing changes its hash.                *)
(***************************************************************************)
EXTENDS JobRun

ComparisonRequest(c, e) ==
  /\ evidence[e].status \in {"READY_FOR_ANALYSIS", "ANALYZED"}
  /\ Admit(c, e, "COMPARISON")

ComparisonCheck(c) == CheckActive(c, "COMPARISON")

ComparisonInsert(c) == Insert(c, "COMPARISON")

ComparisonRead(r) ==
  ReadJob(r, "COMPARISON") \/ LoadEvidence(r, "COMPARISON")

ComparisonBegin(r) ==
  CommitRunning(r, "COMPARISON", "running", session[r].status, "RUNNING", {})

ComparisonStarted(r) == RecordStarted(r, "COMPARISON")

ComparisonStore(r) == StoreArtifact(r, "COMPARISON", "started")

ComparisonSucceed(r) ==
  CommitSucceeded(r, "COMPARISON", session[r].status, SuccessEvents(r), "SUCCEEDED")

(* The extractions of both items are read before the engine compares.       *)
ComparisonRaise(r) == Raise(r, "COMPARISON")

ComparisonCleanup(r) ==
  \/ CleanupArtifact(r, "COMPARISON")
  \/ analysisRun[r] = "NONE" /\ FailLoad(r, "COMPARISON", session[r].created)
  \/ LoseRunId(r, "COMPARISON")

ComparisonFail(r) ==
  CommitFailed(r, "COMPARISON", session[r].status, {Event(r, "FAILED", 0)})

ComparisonRun(r) ==
  \/ ComparisonRead(r)
  \/ ComparisonBegin(r)
  \/ ComparisonStarted(r)
  \/ ComparisonStore(r)
  \/ ComparisonSucceed(r)
  \/ ComparisonRaise(r)
  \/ ComparisonCleanup(r)
  \/ ComparisonFail(r)
=============================================================================
