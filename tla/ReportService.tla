---------------------------- MODULE ReportService ----------------------------
(***************************************************************************)
(* The report job: aggregation reads the newest run of every analysis, of  *)
(* any status, each with statements of its own at READ COMMITTED; the PDF  *)
(* is stored before the report is committed.                               *)
(***************************************************************************)
EXTENDS CaseRun

ReportSources == <<"INTELLIGENCE", "CORRELATION", "ENTITIES", "TIMELINE">>

(* get_latest_for_case does not look at the status.                         *)
AnyStatus == RunStatus

ReportRequest(c) ==
  CheckNoActive(c, "REPORT") \/ InsertRun(c, "REPORT") \/ InsertRefused(c, "REPORT")

ReportStart(r) == StartRun(r, "REPORT")

(* External: Session.get answers from the identity map and applies no       *)
(* loader option to an object that is there, and AsyncSession refuses to    *)
(* load a relationship on attribute access.                                 *)
LoadedLazily(k) == k = "TIMELINE"

Aggregate(r) ==
  \/ ReadRow(r, ReportSources, AnyStatus)
  \/ /\ task[r].step = "rows"
     /\ ~LoadedLazily(ReportSources[task[r].at])
     /\ ReadRows(r, ReportSources)

(* The timeline is selected without its events and then fetched by get with *)
(* selectinload: reading its events raises.                                 *)
AggregateTimeline(r) ==
  /\ task[r].step = "rows"
  /\ LoadedLazily(ReportSources[task[r].at])
  /\ RaiseRun(r)

(* A plausible bug: an error of the storage is swallowed.                   *)
UnstoredM(r) ==
  /\ HasRead(r, ReportSources)
  /\ pdfs' = pdfs \cup {r} \/ UNCHANGED pdfs
  /\ Go(r, At("stored", 1))
  /\ UNCHANGED <<runs, published, cites, asking>>

(* A plausible bug: the report does without the sections it has not read.   *)
PartialM(r) ==
  /\ task[r].step = "row"
  /\ pdfs' = pdfs \cup {r}
  /\ Go(r, At("stored", 1))
  /\ UNCHANGED <<runs, published, cites, asking>>

(* save_stream creates reports/<case>/<report>.pdf and unlinks it when it   *)
(* fails; a later failure leaves the file.                                  *)
StorePdf(r) ==
  /\ HasRead(r, ReportSources)
  /\ pdfs' = pdfs \cup {r}
  /\ Go(r, At("stored", 1))
  /\ UNCHANGED <<runs, published, cites, asking>>

CommitReport(r) == task[r].step = "stored" /\ PublishRun(r)

ReportFail(r) == (RunFaults /\ RaiseRun(r)) \/ FailRun(r)

ReportRun(r) ==
  \/ ReportStart(r)
  \/ /\ runs[r].kind = "REPORT"
     /\ \/ Aggregate(r) \/ AggregateTimeline(r)
        \/ StorePdf(r) \/ CommitReport(r)
        \/ ReportFail(r)

(* get_pdf_storage_key: the reports whose PDF the download serves.          *)
Downloadable(r) == runs[r].kind = "REPORT" /\ runs[r].status = "SUCCEEDED"
=============================================================================
