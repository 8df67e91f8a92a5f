-------------------------- MODULE SignatureService --------------------------
(***************************************************************************)
(* The signature verification service (ai/document/signature/service.py):  *)
(* SIGNATURE_VERIFICATION jobs.  RUNNING is not committed on its own: the  *)
(* prediction is stored first, and _execute_verification commits its row,  *)
(* the verification run and RUNNING together.  The run then commits its    *)
(* SUCCEEDED on its own.  The reference is another item, only read.        *)
(***************************************************************************)
EXTENDS JobRun

SignatureRequest(c, e) ==
  /\ evidence[e].status \in {"READY_FOR_ANALYSIS", "ANALYZED"}
  /\ Admit(c, e, "SIGNATURE_VERIFICATION")

SignatureCheck(c) == CheckActive(c, "SIGNATURE_VERIFICATION")

SignatureInsert(c) == Insert(c, "SIGNATURE_VERIFICATION")

SignatureRead(r) ==
  \/ ReadJob(r, "SIGNATURE_VERIFICATION")
  \/ LoadEvidence(r, "SIGNATURE_VERIFICATION")

(* The flush of the artifact row updates the job row as well: when the      *)
(* unique index refuses that, create takes the object back and raises.      *)
SignatureStore(r) ==
  /\ IndexAllows(JobOf(r), EvidenceOf(r), "SIGNATURE_VERIFICATION")
  /\ StoreArtifact(r, "SIGNATURE_VERIFICATION", "loaded")

SignatureBegin(r) ==
  /\ StoredAll(r)
  /\ CommitRunning(r, "SIGNATURE_VERIFICATION", "started", session[r].status, "NONE",
                   StagedRows(r))

SignatureSucceed(r) ==
  CommitSucceeded(r, "SIGNATURE_VERIFICATION", session[r].status, {}, "NONE")

SignatureRaise(r) == Raise(r, "SIGNATURE_VERIFICATION")

(* created_artifact is never assigned: the except clause deletes neither    *)
(* the object of a row it rolled back nor that of a row already committed.  *)
DeletesCreatedM(r) ==
  \/ CleanupArtifact(r, "SIGNATURE_VERIFICATION")
  \/ FailLoad(r, "SIGNATURE_VERIFICATION", session[r].created)
SignatureCleanup(r) == FailLoad(r, "SIGNATURE_VERIFICATION", {})

SignatureFail(r) == CommitFailed(r, "SIGNATURE_VERIFICATION", session[r].status, {})

SignatureRun(r) ==
  \/ SignatureRead(r)
  \/ SignatureStore(r)
  \/ SignatureBegin(r)
  \/ SignatureSucceed(r)
  \/ SignatureRaise(r)
  \/ SignatureCleanup(r)
  \/ SignatureFail(r)
=============================================================================
