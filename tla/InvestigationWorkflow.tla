------------------------ MODULE InvestigationWorkflow ------------------------
(***************************************************************************)
(* InvestigationWorkflowService: the status of an investigation with its   *)
(* milestones, a task of it, and a review with its history.                *)
(*                                                                         *)
(* A handler reads the row, checks the transition on what it read, and     *)
(* commits; append_activity flushes, and holds the row from there to the   *)
(* commit.  Notes, notifications, the activity list and audit events are   *)
(* left out: no check reads them.  Of the milestones those are kept that   *)
(* follow from this service's own state.                                   *)
(***************************************************************************)
EXTENDS Naturals, Sequences, CaseRequests

CONSTANTS
  MaxHistory   \* bound: entries a review history is extended up to

ASSUME MaxHistoryAssumption == MaxHistory \in Nat \ {0}

VARIABLES
  investigation,  \* investigation_workflows.status, "none" before the row
  milestones,     \* workflow_milestones
  workTask,       \* a row of workflow_tasks
  review,         \* a row of workflow_reviews
  flow,           \* per requester: what it read and what it asks for
  flowLate        \* history: requests that are overtaken

flowVars == <<investigation, milestones, workTask, review, flow, flowLate>>

NextStatuses ==
  [NEW |-> {"ACTIVE"},
   ACTIVE |-> {"UNDER_REVIEW", "ARCHIVED"},
   UNDER_REVIEW |-> {"REQUIRES_CHANGES", "APPROVED", "ACTIVE"},
   REQUIRES_CHANGES |-> {"ACTIVE", "UNDER_REVIEW"},
   APPROVED |-> {"REPORTED", "UNDER_REVIEW"},
   REPORTED |-> {"ARCHIVED"},
   ARCHIVED |-> {}]
InvestigationStatus == DOMAIN NextStatuses

NextTaskStatuses ==
  [OPEN |-> {"ASSIGNED", "COMPLETED", "CANCELLED"},
   ASSIGNED |-> {"COMPLETED", "CANCELLED", "OPEN"},
   COMPLETED |-> {"REOPENED"},
   REOPENED |-> {"ASSIGNED", "COMPLETED", "CANCELLED"},
   CANCELLED |-> {}]
TaskStatus == DOMAIN NextTaskStatuses

NextApprovals ==
  [draft |-> {"review", "approved"},
   review |-> {"approved", "revision_required", "draft"},
   approved |-> {"published", "revision_required"},
   published |-> {},
   revision_required |-> {"draft", "review"}]
ApprovalStatus == DOMAIN NextApprovals
EvidenceReviewStatus == {"PENDING", "APPROVED", "REJECTED", "NEEDS_REVIEW"}

Milestone == {"INVESTIGATION_STARTED", "REPORT_APPROVED", "CASE_CLOSED"}

(* completed and cancelled: is there a completed_at, a cancelled_at?        *)
TaskRow == [status : TaskStatus \cup {"none"}, completed : BOOLEAN, cancelled : BOOLEAN]
NoTask == [status |-> "none", completed |-> FALSE, cancelled |-> FALSE]

ReviewStatus == ApprovalStatus \cup EvidenceReviewStatus
ReviewRow ==
  [kind : {"report", "evidence", "none"}, status : ReviewStatus \cup {"none"},
   history : Seq(ReviewStatus)]
NoReview == [kind |-> "none", status |-> "none", history |-> <<>>]

FlowRequest ==
  [at : {"away", "derive", "status", "task", "review"},
   status : InvestigationStatus \cup {"none"}, task : TaskRow, review : ReviewRow,
   to : InvestigationStatus \cup TaskStatus \cup ReviewStatus \cup {"none"}]
NoRequest == [at |-> "away", status |-> "none", task |-> NoTask, review |-> NoReview,
              to |-> "none"]

FlowInit ==
  /\ investigation = "none"
  /\ milestones = {}
  /\ workTask = NoTask
  /\ review = NoReview
  /\ flow = [c \in Requester |-> NoRequest]
  /\ flowLate = {}

Flowing == {c \in Requester : flow[c].at # "away"}
EndFlow(c) == flow' = [flow EXCEPT ![c] = NoRequest]
Reads(c, request) ==
  /\ flow[c].at = "away"
  /\ flow' = [flow EXCEPT ![c] = request]
  /\ UNCHANGED <<investigation, milestones, workTask, review>>

-----------------------------------------------------------------------------
(* Status and milestones.                                                   *)

(* Every request of the case makes sure of the row first; of two that       *)
(* create it the unique constraint refuses one.                             *)
EnsureWorkflow(c) ==
  /\ flow[c].at = "away"
  /\ investigation = "none"
  /\ investigation' = "NEW"
  /\ milestones' = milestones \cup {"INVESTIGATION_STARTED"}
  /\ UNCHANGED <<workTask, review, flow>>

(* What _derive_milestones reaches for a status.                            *)
Derived(status) ==
  {m \in Milestone : \/ m = "REPORT_APPROVED" /\ status = "APPROVED"
                     \/ m = "CASE_CLOSED" /\ status \in {"REPORTED", "ARCHIVED"}}

(* get_workflow and list_milestones derive from the status they read.       *)
LoadWorkflow(c) ==
  /\ investigation # "none"
  /\ Reads(c, [NoRequest EXCEPT !.at = "derive", !.status = investigation])

CommitDerived(c) ==
  /\ flow[c].at = "derive"
  /\ milestones' = milestones \cup Derived(flow[c].status)
  /\ EndFlow(c)
  /\ UNCHANGED <<investigation, workTask, review>>

MayEnter(from, to) == to \in NextStatuses[from]

LoadStatus(c) ==
  /\ investigation # "none"
  /\ \E to \in InvestigationStatus :
       /\ MayEnter(investigation, to)
       /\ Reads(c, [NoRequest EXCEPT !.at = "status", !.status = investigation, !.to = to])

(* A plausible bug: milestones are derived before the status is assigned.   *)
BeforeM(from, to) == from

(* The status the milestones are derived from: the one just assigned.       *)
Reached(from, to) == to

(* UPDATE and milestones in one transaction.                                *)
CommitStatus(c) ==
  LET q == flow[c] IN
  /\ q.at = "status"
  /\ investigation' = Column(investigation, q.status, q.to)
  /\ milestones' = milestones \cup Derived(Reached(q.status, q.to))
  /\ EndFlow(c)
  /\ UNCHANGED <<workTask, review>>

StatusNext(c) ==
  \/ EnsureWorkflow(c) \/ LoadWorkflow(c) \/ CommitDerived(c)
  \/ LoadStatus(c) \/ CommitStatus(c)

-----------------------------------------------------------------------------
(* A task.                                                                  *)

CreateTask(c) ==
  /\ flow[c].at = "away"
  /\ investigation # "none" /\ workTask = NoTask
  /\ \E s \in {"OPEN", "ASSIGNED"} : workTask' = [NoTask EXCEPT !.status = s]
  /\ UNCHANGED <<investigation, milestones, review, flow>>

LoadTask(c) ==
  /\ workTask # NoTask
  /\ \E to \in NextTaskStatuses[workTask.status] :
       Reads(c, [NoRequest EXCEPT !.at = "task", !.task = workTask, !.to = to])

(* A status that ends or reopens the task writes its times as well.         *)
CompletedAt(task, loaded, to) ==
  to = "COMPLETED" \/ (IF to = "REOPENED"
                       THEN Column(task.completed, loaded.completed, FALSE)
                       ELSE task.completed)

CancelledAt(task, loaded, to) ==
  to = "CANCELLED" \/ (IF to = "REOPENED"
                       THEN Column(task.cancelled, loaded.cancelled, FALSE)
                       ELSE task.cancelled)

CommitTask(c) ==
  LET q == flow[c] IN
  /\ q.at = "task"
  /\ workTask' = [status |-> Column(workTask.status, q.task.status, q.to),
                  completed |-> CompletedAt(workTask, q.task, q.to),
                  cancelled |-> CancelledAt(workTask, q.task, q.to)]
  /\ EndFlow(c)
  /\ UNCHANGED <<investigation, milestones, review>>

TaskNext(c) == EnsureWorkflow(c) \/ CreateTask(c) \/ LoadTask(c) \/ CommitTask(c)

-----------------------------------------------------------------------------
(* A review of a report or of an evidence item.                             *)

InitialStatuses(kind) ==
  IF kind = "report" THEN ApprovalStatus \ {"published"} ELSE EvidenceReviewStatus

CreateReview(c) ==
  /\ flow[c].at = "away"
  /\ investigation # "none" /\ review = NoReview
  /\ \E k \in {"report", "evidence"} : \E s \in InitialStatuses(k) :
       /\ review' = [kind |-> k, status |-> s, history |-> <<s>>]
       /\ milestones' = milestones \cup
            (IF k = "report" /\ s = "approved" THEN {"REPORT_APPROVED"} ELSE {})
  /\ UNCHANGED <<investigation, workTask, flow>>

(* Any status may follow any in an evidence review.                         *)
MayDecide(kind, from, to) ==
  IF kind = "report" THEN to \in NextApprovals[from] ELSE to \in EvidenceReviewStatus

LoadReview(c) ==
  /\ review # NoReview
  /\ Len(review.history) < MaxHistory
  /\ \E to \in ReviewStatus :
       /\ (to \in ApprovalStatus) <=> (review.kind = "report")
       /\ MayDecide(review.kind, review.status, to)
       /\ Reads(c, [NoRequest EXCEPT !.at = "review", !.review = review, !.to = to])

(* A plausible bug: the entry is appended in the database, unchecked.       *)
AppendedM(stored, loaded, to) == Append(stored.history, to)

(* The history is assigned as a new list, and always written.               *)
ExtendedHistory(stored, loaded, to) == Append(loaded.history, to)

CommitReview(c) ==
  LET q == flow[c] IN
  /\ q.at = "review"
  /\ review' = [review EXCEPT !.status = Column(@, q.review.status, q.to),
                              !.history = ExtendedHistory(review, q.review, q.to)]
  /\ EndFlow(c)
  /\ UNCHANGED <<investigation, milestones, workTask>>

ReviewNext(c) == EnsureWorkflow(c) \/ CreateReview(c) \/ LoadReview(c) \/ CommitReview(c)

(* Who is overtaken: a request at work while another changes the tables.    *)
FlowOvertakes ==
  flowLate' = {d \in Flowing' :
    \/ d \in flowLate
    \/ investigation' # investigation \/ workTask' # workTask \/ review' # review}

-----------------------------------------------------------------------------

FlowTypeOK ==
  /\ investigation \in InvestigationStatus \cup {"none"}
  /\ milestones \subseteq Milestone
  /\ workTask \in TaskRow
  /\ review \in ReviewRow
  /\ flow \in [Requester -> FlowRequest]
  /\ flowLate \subseteq Requester

(* An approved investigation has reached REPORT_APPROVED, and a reported or *)
(* archived one CASE_CLOSED, whoever wrote the status and whatever others   *)
(* derived meanwhile: the milestone is committed with the status.           *)
MilestonesCoverStatus == Derived(investigation) \subseteq milestones

(* However updates of a report approval are lost, its history reads as a    *)
(* legal course of one review that ends in the status the row shows; so a   *)
(* published report is one whose history goes through approved.             *)
ReviewHistoryLegal ==
  review.kind = "report" =>
    LET h == review.history IN
    /\ h[1] # "published"
    /\ h[Len(h)] = review.status
    /\ \A i \in 1..(Len(h) - 1) : h[i + 1] \in NextApprovals[h[i]]

(* A task never stands as completed, or cancelled, without the time of it,  *)
(* though two requests write the columns from different readings.           *)
TaskTimes ==
  /\ workTask.status = "COMPLETED" => workTask.completed
  /\ workTask.status = "CANCELLED" => workTask.cancelled
=============================================================================
