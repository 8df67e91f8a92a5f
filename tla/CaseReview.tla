------------------------------ MODULE CaseReview ------------------------------
(***************************************************************************)
(* CaseReviewService: the stage of a review run is computed from the       *)
(* approvals recorded for it and from a fresh plan of the case.            *)
(*                                                                         *)
(* Approvals are only ever inserted.  The plan depends on everything else  *)
(* in the case: whether it has blocking or outstanding items is an input.  *)
(* FINALIZED is tested by the code and set nowhere.  A DEFERRED approval is *)
(* a row that no rule looks at: a request that records one adds nothing.   *)
(***************************************************************************)
EXTENDS CaseRequests

CONSTANTS
  ApproverRole   \* the roles, every one of which must approve

VARIABLES
  approvals,   \* case_review_approvals: the kinds of rows that are committed
  stage,       \* case_review_runs.stage, "none" before generate
  deciding,    \* per requester: its position and what it read
  reviewLate   \* history: requests that are overtaken

reviewVars == <<approvals, stage, deciding, reviewLate>>

Decision == {"APPROVED", "REJECTED", "CHANGES_REQUESTED"}
ReviewStage == {"UNDER_REVIEW", "VALIDATED", "CHANGES_REQUESTED", "APPROVED", "REJECTED"}

Approval == [role : ApproverRole, decision : Decision]

(* adds: the approval a request inserts, if it is no checklist update;      *)
(* loaded and next: the stage as it was read, and as it is to be assigned.  *)
Deciding ==
  [at : {"away", "loaded", "ready"}, adds : SUBSET Approval,
   loaded : ReviewStage \cup {"none"}, next : ReviewStage \cup {"none"}]
NotDeciding == [at |-> "away", adds |-> {}, loaded |-> "none", next |-> "none"]

ReviewInit ==
  /\ approvals = {}
  /\ stage = "none"
  /\ deciding = [c \in Requester |-> NotDeciding]
  /\ reviewLate = {}

DecisionsIn(rows) == {row.decision : row \in rows}
ApprovedRoles(rows) == {row.role : row \in {x \in rows : x.decision = "APPROVED"}}

(* A plausible bug: one role is enough.                                     *)
AnyRoleM(rows) == ApprovedRoles(rows) # {}

(* approval_completion: every required role, and an empty list never.       *)
AllApproved(rows) == ApproverRole # {} /\ ApproverRole \subseteq ApprovedRoles(rows)

(* A plausible bug: the rule for approval comes first.                      *)
ApprovedFirstM(rows, blocking, outstanding) ==
  IF AllApproved(rows) /\ ~blocking THEN "APPROVED"
  ELSE IF "REJECTED" \in DecisionsIn(rows) THEN "REJECTED"
  ELSE IF "CHANGES_REQUESTED" \in DecisionsIn(rows) THEN "CHANGES_REQUESTED"
  ELSE IF ~blocking /\ ~outstanding THEN "VALIDATED" ELSE "UNDER_REVIEW"

(* infer_stage, whose first rule that applies decides; no case is left for  *)
(* its last rule, PENDING.                                                  *)
InferStage(rows, blocking, outstanding) ==
  IF "REJECTED" \in DecisionsIn(rows) THEN "REJECTED"
  ELSE IF "CHANGES_REQUESTED" \in DecisionsIn(rows) THEN "CHANGES_REQUESTED"
  ELSE IF AllApproved(rows) /\ ~blocking THEN "APPROVED"
  ELSE IF ~blocking /\ ~outstanding THEN "VALIDATED" ELSE "UNDER_REVIEW"

-----------------------------------------------------------------------------

(* A new run has no approvals; only the newest run is followed here.        *)
Generate(c) ==
  /\ deciding[c].at = "away"
  /\ stage = "none"
  /\ \E blocking, outstanding \in BOOLEAN :
       stage' = InferStage({}, blocking, outstanding)
  /\ UNCHANGED <<approvals, deciding>>

(* record_approval reads the run and inserts a row, update_checklist_item   *)
(* reads the run and writes no approval.                                    *)
LoadRun(c, adds) ==
  /\ deciding[c].at = "away"
  /\ stage # "none"
  /\ deciding' = [deciding EXCEPT ![c] =
       [at |-> "loaded", adds |-> adds, loaded |-> stage, next |-> "none"]]
  /\ UNCHANGED <<approvals, stage>>

RecordApproval(c) == LoadRun(c, {}) \/ \E row \in Approval : LoadRun(c, {row})
UpdateChecklistItem(c) == LoadRun(c, {})

(* The approvals a request reads: what is committed, and its own.           *)
RecomputeStage(c) ==
  /\ deciding[c].at = "loaded"
  /\ \E blocking, outstanding \in BOOLEAN :
       deciding' = [deciding EXCEPT ![c].at = "ready",
         ![c].next = InferStage(approvals \cup deciding[c].adds, blocking, outstanding)]
  /\ UNCHANGED <<approvals, stage>>

CommitDecision(c) ==
  /\ deciding[c].at = "ready"
  /\ approvals' = approvals \cup deciding[c].adds
  /\ stage' = Column(stage, deciding[c].loaded, deciding[c].next)
  /\ deciding' = [deciding EXCEPT ![c] = NotDeciding]

CaseReviewNext(c) ==
  \/ Generate(c) \/ RecordApproval(c) \/ UpdateChecklistItem(c)
  \/ RecomputeStage(c) \/ CommitDecision(c)

(* Who is overtaken: a request at work while another changes the tables.    *)
ReviewOvertakes ==
  reviewLate' = {d \in Requester : /\ deciding'[d].at # "away"
                                   /\ \/ d \in reviewLate
                                      \/ approvals' # approvals \/ stage' # stage}

-----------------------------------------------------------------------------

ReviewTypeOK ==
  /\ approvals \subseteq Approval
  /\ stage \in ReviewStage \cup {"none"}
  /\ deciding \in [Requester -> Deciding]
  /\ reviewLate \subseteq Requester

(* The stage is never ahead of the decisions on record: an approved run has *)
(* the approval of every role, a rejected one a rejection, one that needs   *)
(* changes a request for them, whatever concurrent requests read.           *)
StageEarned ==
  /\ stage = "APPROVED" => \A r \in ApproverRole : [role |-> r, decision |-> "APPROVED"] \in approvals
  /\ stage \in {"REJECTED", "CHANGES_REQUESTED"} => stage \in DecisionsIn(approvals)

(* A rejection stands: once one is on record, each further decision or      *)
(* checklist update that nobody overtakes leaves the run REJECTED.          *)
RejectionStands ==
  [][\A c \in Requester \ reviewLate :
       /\ deciding[c].at = "ready" /\ deciding'[c].at = "away"
       /\ "REJECTED" \in DecisionsIn(approvals')
       => stage' = "REJECTED"]_reviewVars
=============================================================================
