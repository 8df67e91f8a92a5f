---------------------------- MODULE CaseKnowledge ----------------------------
(***************************************************************************)
(* The analyses of a case and its reports at work on the same tables.      *)
(***************************************************************************)
EXTENDS CaseAnalyses, ReportService

KnowledgeRequest(c, k) ==
  \/ k = "CORRELATION" /\ CorrelationRequest(c)
  \/ k = "ENTITIES" /\ EntityRequest(c)
  \/ k = "TIMELINE" /\ TimelineRequest(c)
  \/ k = "INTELLIGENCE" /\ IntelligenceRequest(c)
  \/ k = "REPORT" /\ ReportRequest(c)

KnowledgeRun(r) ==
  \/ CorrelationRun(r) \/ EntityRun(r) \/ TimelineRun(r)
  \/ IntelligenceRun(r) \/ ReportRun(r)

(* The steps of a behaviour whose requests are of the kinds in asked.       *)
KnowledgeNext(asked) ==
  \/ \E c \in Requester, k \in asked : KnowledgeRequest(c, k)
  \/ \E r \in RunId : KnowledgeRun(r) \/ CrashRun(r)

-----------------------------------------------------------------------------

KnowledgeTypeOK ==
  /\ runs \in [RunId -> RunRow]
  /\ published \subseteq RunId
  /\ cites \in [RunId -> [RunKind -> Citation]]
  /\ pdfs \subseteq RunId
  /\ asking \in [Requester -> RunKind \cup {"none"}]
  /\ task \in [RunId -> TaskState]

(* Derived analyses rest on published ones: whatever a published            *)
(* correlation or entity resolution used is committed, and was read whole.  *)
CitedPublished ==
  \A r \in published : \A k \in RunKind :
    LET cited == cites[r][k] IN
    runs[r].kind \in {"CORRELATION", "ENTITIES"} /\ cited.run # 0
      => cited.run \in published /\ cited.rows

(* An entity resolution is not behind the correlation it uses: the timeline *)
(* it took is at least as new as the one that correlation took, unless that *)
(* one has failed since.                                                    *)
EntitiesCoherent ==
  \A r \in published :
    LET c == cites[r]["CORRELATION"].run
        t == cites[c]["TIMELINE"].run
    IN (/\ runs[r].kind = "ENTITIES" /\ c # 0
        /\ t # 0 /\ runs[t].status = "SUCCEEDED") => t <= cites[r]["TIMELINE"].run

Reports == {r \in published : runs[r].kind = "REPORT"}

(* A report that shows an analysis as SUCCEEDED shows its rows, though it   *)
(* reads the status and the rows in two statements while runs publish.      *)
ReportShowsRows ==
  \A r \in Reports : \A k \in RunKind :
    cites[r][k].status = "SUCCEEDED" => cites[r][k].rows

(* A later report never shows an older analysis than an earlier report did. *)
ReportsAdvance ==
  \A r, s \in Reports : r < s =>
    \A k \in RunKind : cites[r][k].run <= cites[s][k].run

(* A report that can be downloaded has its PDF in storage.                  *)
PdfBacked == \A r \in RunId : Downloadable(r) => r \in pdfs

(* Reports include the timeline of the case (docs/reporting, Modules:       *)
(* aggregation collects timeline data): when nothing fails, no report does. *)
ReportsComplete ==
  \A r \in RunId : runs[r].kind = "REPORT" => runs[r].status # "FAILED"
=============================================================================
