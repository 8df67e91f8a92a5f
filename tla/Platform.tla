------------------------------- MODULE Platform -------------------------------
(***************************************************************************)
(* The services beside the evidence pipeline, composed: the analyses of a  *)
(* case and its reports, fusion of the findings about an item, the runs a  *)
(* request executes, collaboration, the investigation workflow, case       *)
(* review, and what the processes share in Redis.                          *)
(*                                                                         *)
(* Analyses and reports meet in the run tables, and the engines that build *)
(* what the analyses publish in each other's results; the former model is  *)
(* about when runs are read, the latter about what is derived from which   *)
(* rows.  The other services keep tables of their own, and no state or     *)
(* check of one is part of another, except that a milestone or a review    *)
(* plan looks at what exists in the case, which their modules leave open.  *)
(* So a behaviour here has requests of some kinds only, its workload: the  *)
(* kinds whose steps interact have to be in one workload.                  *)
(***************************************************************************)
EXTENDS CaseKnowledge, Collaboration, InvestigationWorkflow, CaseReview,
        FusionJury, EntityResolver, InlineRuns, DistributedLock, RateLimit

CONSTANTS
  Workloads   \* the sets of request kinds that behaviours consist of

Kind == RunKind \cup EngineKind \cup
        {"MEMBERS", "STAGE", "STATUS", "TASK", "REVIEW", "APPROVAL",
         "FUSION", "INLINE", "LOCK", "LIMIT"}

ASSUME WorkloadsAssumption == Workloads \subseteq SUBSET Kind

VARIABLES
  workload

vars == <<runVars, collabVars, flowVars, reviewVars, fusionVars, graphVars, inlineVars,
          lockVars, limitVars, workload>>

Init ==
  /\ workload \in Workloads
  /\ RunInit /\ CollabInit /\ FlowInit /\ ReviewInit
  /\ FusionInit /\ EnginesInit /\ InlineInit /\ LockInit /\ LimitInit

Knowledge ==
  /\ KnowledgeNext(workload \cap RunKind)
  /\ UNCHANGED <<collabVars, flowVars, reviewVars, fusionVars, graphVars, inlineVars,
                 lockVars, limitVars, workload>>

Collaborate ==
  /\ \E c \in Requester :
       \/ "MEMBERS" \in workload /\ MembersNext(c)
       \/ "STAGE" \in workload /\ StageNext(c)
  /\ CollabOvertakes
  /\ UNCHANGED <<runVars, flowVars, reviewVars, fusionVars, graphVars, inlineVars,
                 lockVars, limitVars, workload>>

Workflow ==
  /\ \E c \in Requester :
       \/ "STATUS" \in workload /\ StatusNext(c)
       \/ "TASK" \in workload /\ TaskNext(c)
       \/ "REVIEW" \in workload /\ ReviewNext(c)
  /\ FlowOvertakes
  /\ UNCHANGED <<runVars, collabVars, reviewVars, fusionVars, graphVars, inlineVars,
                 lockVars, limitVars, workload>>

ReviewCase ==
  /\ "APPROVAL" \in workload
  /\ \E c \in Requester : CaseReviewNext(c)
  /\ ReviewOvertakes
  /\ UNCHANGED <<runVars, collabVars, flowVars, fusionVars, graphVars, inlineVars,
                 lockVars, limitVars, workload>>

Fusing ==
  /\ "FUSION" \in workload
  /\ FusionNext
  /\ UNCHANGED <<runVars, collabVars, flowVars, reviewVars, graphVars, inlineVars,
                 lockVars, limitVars, workload>>

Deriving ==
  /\ EnginesNext(workload \cap EngineKind)
  /\ UNCHANGED <<runVars, collabVars, flowVars, reviewVars, fusionVars, inlineVars,
                 lockVars, limitVars, workload>>

Inline ==
  /\ "INLINE" \in workload
  /\ \E c \in Requester : InlineNext(c)
  /\ UNCHANGED <<runVars, collabVars, flowVars, reviewVars, fusionVars, graphVars,
                 lockVars, limitVars, workload>>

Lock ==
  /\ "LOCK" \in workload
  /\ \E c \in Requester : LockNext(c)
  /\ UNCHANGED <<runVars, collabVars, flowVars, reviewVars, fusionVars, graphVars,
                 inlineVars, limitVars, workload>>

Limit ==
  /\ "LIMIT" \in workload
  /\ \E c \in Requester : LimitNext(c)
  /\ UNCHANGED <<runVars, collabVars, flowVars, reviewVars, fusionVars, graphVars,
                 inlineVars, lockVars, workload>>

Next ==
  \/ Knowledge \/ Collaborate \/ Workflow \/ ReviewCase
  \/ Fusing \/ Deriving \/ Inline \/ Lock \/ Limit

Spec == Init /\ [][Next]_vars

-----------------------------------------------------------------------------

TypeOK ==
  /\ KnowledgeTypeOK /\ CollabTypeOK /\ FlowTypeOK
  /\ ReviewTypeOK /\ FusionTypeOK /\ EnginesTypeOK
  /\ InlineTypeOK /\ LockTypeOK /\ LimitTypeOK
  /\ workload \in Workloads

(* The case moves from stage to stage, and its investigation from status to *)
(* status, along the policy's edges, unless the request that moves it was   *)
(* overtaken between its reading and its commit: no guard compares again.   *)
MovesAlongPolicy ==
  [][/\ caseStage # "none" /\ caseStage' # caseStage
          => caseStage' \in NextStages[caseStage] \/ collabLate # {}
     /\ investigation # "none" /\ investigation' # investigation
          => investigation' \in NextStatuses[investigation] \/ flowLate # {}]_vars
=============================================================================
