------------------------- MODULE ExtractionService --------------------------
(***************************************************************************)
(* ExtractionService (extraction/service.py): EXTRACTION jobs.  They never *)
(* write evidence.status.                                                  *)
(***************************************************************************)
EXTENDS JobRun

(* The evidence must be READY_FOR_ANALYSIS.  A succeeded newest job of the  *)
(* same bytes and extractor version is handed back instead of a new one.    *)
ExtractionRequest(c, e) ==
  /\ evidence[e].status = "READY_FOR_ANALYSIS"
  /\ ~LatestSucceeded(e, "EXTRACTION")
  /\ Admit(c, e, "EXTRACTION")

ExtractionReturned(e) ==
  /\ evidence[e].status = "READY_FOR_ANALYSIS"
  /\ DispatchAgain(e, "EXTRACTION")

ExtractionCheck(c) == CheckActive(c, "EXTRACTION")

ExtractionInsert(c) == Insert(c, "EXTRACTION")

ExtractionRead(r) == ReadJob(r, "EXTRACTION") \/ LoadEvidence(r, "EXTRACTION")

ExtractionBegin(r) ==
  CommitRunning(r, "EXTRACTION", "running", session[r].status, "NONE", {})

ExtractionStarted(r) == RecordStarted(r, "EXTRACTION")

ExtractionStore(r) == StoreArtifact(r, "EXTRACTION", "started")

ExtractionSucceed(r) ==
  CommitSucceeded(r, "EXTRACTION", session[r].status, SuccessEvents(r), "NONE")

ExtractionRaise(r) == Raise(r, "EXTRACTION") \/ RaiseOutside(r, "EXTRACTION")

ExtractionCleanup(r) ==
  \/ CleanupArtifact(r, "EXTRACTION")
  \/ FailLoad(r, "EXTRACTION", session[r].created)

ExtractionFail(r) ==
  CommitFailed(r, "EXTRACTION", session[r].status, {Event(r, "FAILED", 0)})

ExtractionRun(r) ==
  \/ ExtractionRead(r)
  \/ ExtractionBegin(r)
  \/ ExtractionStarted(r)
  \/ ExtractionStore(r)
  \/ ExtractionSucceed(r)
  \/ ExtractionRaise(r)
  \/ ExtractionCleanup(r)
  \/ ExtractionFail(r)
=============================================================================
