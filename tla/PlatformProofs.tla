---------------------------- MODULE PlatformProofs ----------------------------
(***************************************************************************)
(* The platform composed: a step is a step of one component, and leaves    *)
(* the variables of the others alone, so what each of them preserves holds *)
(* for any workload, any numbers of requesters, runs and users.            *)
(***************************************************************************)
EXTENDS Platform, CaseKnowledgeProofs, CaseworkProofs, EngineProofs, ServiceProofs

PlatformInv ==
  /\ KnowledgeInv /\ CollabInv /\ FlowInv /\ ReviewInv
  /\ FusionInv /\ EnginesInv /\ InlineInv /\ LockInv /\ LimitInv
  /\ workload \in Workloads

(* An invariant is about the variables of its component only.               *)
LEMMA KnowledgeApart == KnowledgeInv /\ UNCHANGED runVars => KnowledgeInv'
<1> SUFFICES ASSUME KnowledgeInv, UNCHANGED runVars PROVE KnowledgeInv'
  OBVIOUS
<1>1. KnowledgeTypeOK'
  BY DEF KnowledgeInv, KnowledgeTypeOK, runVars
<1>2. \A r \in RunId : RunKnown(r)'
  BY OthersStay DEF KnowledgeInv, runVars
<1> QED
  BY <1>1, <1>2 DEF KnowledgeInv

(* The same of collaboration.                                               *)
LEMMA CollabApart == CollabInv /\ UNCHANGED collabVars => CollabInv'
BY DEF CollabInv, CollabTypeOK, MembersKnown, CollabAsked, CollabTimely, Owners, collabVars

(* The same of the investigation workflow.                                  *)
LEMMA FlowApart == FlowInv /\ UNCHANGED flowVars => FlowInv'
BY DEF FlowInv, FlowTypeOK, MilestonesCoverStatus, TaskTimes, LegalReview, FlowKnown, flowVars

(* The same of case review.                                                 *)
LEMMA ReviewApart == ReviewInv /\ UNCHANGED reviewVars => ReviewInv'
BY DEF ReviewInv, ReviewTypeOK, Earned, reviewVars

(* The same of fusion.                                                      *)
LEMMA FusionApart == FusionInv /\ UNCHANGED fusionVars => FusionInv'
BY DEF FusionInv, FusionTypeOK, Collectable, Expected, fusionVars

(* The same of the engines.                                                 *)
LEMMA EnginesApart ==
  ASSUME EnginesInv, UNCHANGED graphVars
  PROVE  EnginesInv' /\ ConflictsKept /\ TimelineBracketed /\ CorrelationsBracketed
<1>1. UNCHANGED <<held, rows, reading, timeline, correlations, earlier, graph>>
  BY DEF graphVars, engineVars, recordVars
<1>2. EnginesTypeOK'
  BY <1>1 DEF EnginesInv, EnginesTypeOK, RecordsTypeOK, TimelineTypeOK, CorrelationTypeOK, GraphTypeOK
<1>3. Uploaded' = Uploaded
  BY <1>1 DEF Uploaded
<1>4. RowsKept'
  BY <1>1, <1>3 DEF EnginesInv, RowsKept
<1>5. Below(Present, Present')
  BY <1>1, <1>3 DEF Below, Present, Uploaded
<1> QED
  BY <1>1, <1>2, <1>3, <1>4, <1>5, WritesKeep
     DEF ConflictsKept, TimelineBracketed, CorrelationsBracketed

(* The same of the runs a request executes, of the lock and of the counter. *)
LEMMA SharedApart ==
  /\ InlineInv /\ UNCHANGED inlineVars => InlineInv'
  /\ LockInv /\ UNCHANGED lockVars => LockInv'
  /\ LimitInv /\ UNCHANGED limitVars => LimitInv'
BY DEF InlineInv, InlineTypeOK, RecordsBacked, inlineVars, LockInv, LockTypeOK, lockVars,
       LimitInv, LimitTypeOK, CounterExpires, limitVars

(* All components start as their modules say.                               *)
LEMMA PlatformStarts == Init => PlatformInv
BY KnowledgeStarts, CollabStarts, FlowStarts, ReviewStarts, FusionStarts,
   EnginesStarts, InlineStarts, LockStarts, LimitStarts
   DEF Init, PlatformInv

-----------------------------------------------------------------------------
(* A step of the platform keeps the invariant; its parts about earlier and  *)
(* later states hold of it.                                                 *)
LEMMA PlatformStep ==
  ASSUME PlatformInv, [Next]_vars
  PROVE  /\ PlatformInv'
         /\ UNCHANGED collabVars \/ \E c \in Requester : KeepsOwner(c)
         /\ caseStage # "none" /\ caseStage' # caseStage
              => caseStage' \in NextStages[caseStage] \/ collabLate # {}
         /\ investigation # "none" /\ investigation' # investigation
              => investigation' \in NextStatuses[investigation] \/ flowLate # {}
         /\ \A d \in Requester \ reviewLate :
              /\ deciding[d].at = "ready" /\ deciding'[d].at = "away"
              /\ "REJECTED" \in DecisionsIn(approvals')
              => stage' = "REJECTED"
         /\ Level(verdict) <= Level(verdict')
         /\ ConflictsKept /\ TimelineBracketed /\ CorrelationsBracketed
<1> USE DEF PlatformInv
<1>0. /\ UNCHANGED fusionVars => Level(verdict) <= Level(verdict')
      /\ UNCHANGED graphVars =>
           ConflictsKept /\ TimelineBracketed /\ CorrelationsBracketed
  BY EnginesApart DEF fusionVars, Level
<1>1. CASE Knowledge
  <2>1. UNCHANGED <<collabVars, flowVars, reviewVars, fusionVars, graphVars, inlineVars,
                    lockVars, limitVars, workload>>
    BY <1>1 DEF Knowledge
  <2>2. KnowledgeInv'
    BY <1>1, KnowledgeStep DEF Knowledge
  <2>3. /\ CollabInv' /\ FlowInv' /\ ReviewInv' /\ FusionInv'
        /\ EnginesInv' /\ InlineInv' /\ LockInv' /\ LimitInv'
    BY <2>1, CollabApart, FlowApart, ReviewApart, FusionApart,
       EnginesApart, SharedApart
  <2> QED
    BY <1>0, <2>1, <2>2, <2>3 DEF collabVars, flowVars, reviewVars
<1>2. CASE Collaborate
  <2>1. UNCHANGED <<runVars, flowVars, reviewVars, fusionVars, graphVars, inlineVars,
                    lockVars, limitVars, workload>>
    BY <1>2 DEF Collaborate
  <2>2. /\ KnowledgeInv' /\ FlowInv' /\ ReviewInv' /\ FusionInv'
        /\ EnginesInv' /\ InlineInv' /\ LockInv' /\ LimitInv'
    BY <2>1, KnowledgeApart, FlowApart, ReviewApart, FusionApart,
       EnginesApart, SharedApart
  <2>3. PICK c \in Requester : MembersNext(c) \/ StageNext(c)
    BY <1>2 DEF Collaborate
  <2>4. CollabOvertakes
    BY <1>2 DEF Collaborate
  <2>5. CASE MembersNext(c)
    <3>1. CollabInv' /\ KeepsOwner(c) /\ caseStage' = caseStage
      BY <2>4, <2>5, MembersStep
    <3> QED
      BY <1>0, <2>1, <2>2, <3>1 DEF flowVars, reviewVars
  <2>6. CASE StageNext(c)
    <3>1. /\ CollabInv' /\ members' = members
          /\ caseStage # "none" /\ caseStage' # caseStage
               => caseStage' \in NextStages[caseStage] \/ collabLate # {}
      BY <2>4, <2>6, StageStep
    <3>2. KeepsOwner(c)
      BY <3>1 DEF KeepsOwner, Owners
    <3> QED
      BY <1>0, <2>1, <2>2, <3>1, <3>2 DEF flowVars, reviewVars
  <2> QED
    BY <2>3, <2>5, <2>6
<1>3. CASE Workflow
  <2>1. UNCHANGED <<runVars, collabVars, reviewVars, fusionVars, graphVars, inlineVars,
                    lockVars, limitVars, workload>>
    BY <1>3 DEF Workflow
  <2>2. /\ KnowledgeInv' /\ CollabInv' /\ ReviewInv' /\ FusionInv'
        /\ EnginesInv' /\ InlineInv' /\ LockInv' /\ LimitInv'
    BY <2>1, KnowledgeApart, CollabApart, ReviewApart, FusionApart,
       EnginesApart, SharedApart
  <2>3. /\ FlowInv'
        /\ investigation # "none" /\ investigation' # investigation
             => investigation' \in NextStatuses[investigation] \/ flowLate # {}
    BY <1>3, FlowStep DEF Workflow
  <2> QED
    BY <1>0, <2>1, <2>2, <2>3 DEF collabVars, reviewVars
<1>4. CASE ReviewCase
  <2>1. UNCHANGED <<runVars, collabVars, flowVars, fusionVars, graphVars, inlineVars,
                    lockVars, limitVars, workload>>
    BY <1>4 DEF ReviewCase
  <2>2. /\ KnowledgeInv' /\ CollabInv' /\ FlowInv' /\ FusionInv'
        /\ EnginesInv' /\ InlineInv' /\ LockInv' /\ LimitInv'
    BY <2>1, KnowledgeApart, CollabApart, FlowApart, FusionApart,
       EnginesApart, SharedApart
  <2>3. /\ ReviewInv'
        /\ \A d \in Requester \ reviewLate :
             /\ deciding[d].at = "ready" /\ deciding'[d].at = "away"
             /\ "REJECTED" \in DecisionsIn(approvals')
             => stage' = "REJECTED"
    BY <1>4, ReviewStep DEF ReviewCase
  <2> QED
    BY <1>0, <2>1, <2>2, <2>3 DEF collabVars, flowVars
<1>5. CASE Fusing
  <2>1. UNCHANGED <<runVars, collabVars, flowVars, reviewVars, graphVars, inlineVars,
                    lockVars, limitVars, workload>>
    BY <1>5 DEF Fusing
  <2>2. /\ KnowledgeInv' /\ CollabInv' /\ FlowInv' /\ ReviewInv'
        /\ EnginesInv' /\ InlineInv' /\ LockInv' /\ LimitInv'
    BY <2>1, KnowledgeApart, CollabApart, FlowApart, ReviewApart,
       EnginesApart, SharedApart
  <2>3. FusionInv' /\ Level(verdict) <= Level(verdict')
    BY <1>5, FusionStep DEF Fusing
  <2> QED
    BY <1>0, <2>1, <2>2, <2>3 DEF collabVars, flowVars, reviewVars
<1>10. CASE Deriving
  <2>1. UNCHANGED <<runVars, collabVars, flowVars, reviewVars, fusionVars, inlineVars,
                    lockVars, limitVars, workload>>
    BY <1>10 DEF Deriving
  <2>2. /\ KnowledgeInv' /\ CollabInv' /\ FlowInv' /\ ReviewInv'
        /\ FusionInv' /\ InlineInv' /\ LockInv' /\ LimitInv'
    BY <2>1, KnowledgeApart, CollabApart, FlowApart, ReviewApart, FusionApart,
       SharedApart
  <2>3. EnginesInv' /\ ConflictsKept /\ TimelineBracketed /\ CorrelationsBracketed
    BY <1>10, EnginesStep DEF Deriving
  <2> QED
    BY <1>0, <2>1, <2>2, <2>3 DEF collabVars, flowVars, reviewVars
<1>6. CASE Inline
  <2>1. UNCHANGED <<runVars, collabVars, flowVars, reviewVars, fusionVars, graphVars,
                    lockVars, limitVars, workload>>
    BY <1>6 DEF Inline
  <2>2. /\ KnowledgeInv' /\ CollabInv' /\ FlowInv' /\ ReviewInv'
        /\ FusionInv' /\ EnginesInv' /\ LockInv' /\ LimitInv'
    BY <2>1, KnowledgeApart, CollabApart, FlowApart, ReviewApart, FusionApart,
       EnginesApart, SharedApart
  <2>3. InlineInv'
    BY <1>6, InlineStep DEF Inline
  <2> QED
    BY <1>0, <2>1, <2>2, <2>3 DEF collabVars, flowVars, reviewVars
<1>7. CASE Lock
  <2>1. UNCHANGED <<runVars, collabVars, flowVars, reviewVars, fusionVars, graphVars, inlineVars,
                    limitVars, workload>>
    BY <1>7 DEF Lock
  <2>2. /\ KnowledgeInv' /\ CollabInv' /\ FlowInv' /\ ReviewInv'
        /\ FusionInv' /\ EnginesInv' /\ InlineInv' /\ LimitInv'
    BY <2>1, KnowledgeApart, CollabApart, FlowApart, ReviewApart, FusionApart,
       EnginesApart, SharedApart
  <2>3. LockInv'
    BY <1>7, LockStep DEF Lock
  <2> QED
    BY <1>0, <2>1, <2>2, <2>3 DEF collabVars, flowVars, reviewVars
<1>8. CASE Limit
  <2>1. UNCHANGED <<runVars, collabVars, flowVars, reviewVars, fusionVars, graphVars, inlineVars,
                    lockVars, workload>>
    BY <1>8 DEF Limit
  <2>2. /\ KnowledgeInv' /\ CollabInv' /\ FlowInv' /\ ReviewInv'
        /\ FusionInv' /\ EnginesInv' /\ InlineInv' /\ LockInv'
    BY <2>1, KnowledgeApart, CollabApart, FlowApart, ReviewApart, FusionApart,
       EnginesApart, SharedApart
  <2>3. LimitInv'
    BY <1>8, LimitStep DEF Limit
  <2> QED
    BY <1>0, <2>1, <2>2, <2>3 DEF collabVars, flowVars, reviewVars
<1>9. CASE UNCHANGED vars
  <2>1. UNCHANGED <<runVars, collabVars, flowVars, reviewVars, fusionVars, graphVars, inlineVars,
                    lockVars, limitVars, workload>>
    BY <1>9 DEF vars
  <2>2. /\ KnowledgeInv' /\ CollabInv' /\ FlowInv' /\ ReviewInv'
        /\ FusionInv' /\ EnginesInv' /\ InlineInv' /\ LockInv' /\ LimitInv'
    BY <2>1, KnowledgeApart, CollabApart, FlowApart, ReviewApart, FusionApart,
       EnginesApart, SharedApart
  <2> QED
    BY <1>0, <2>1, <2>2 DEF collabVars, flowVars, reviewVars
<1> QED
  BY <1>1, <1>2, <1>3, <1>4, <1>5, <1>6, <1>7, <1>8, <1>9, <1>10 DEF Next

(* The inductive invariant of the platform, for every workload.             *)
THEOREM PlatformInvariant == Spec => []PlatformInv
<1>1. PlatformInv /\ [Next]_vars => PlatformInv'
  BY PlatformStep
<1> QED
  BY <1>1, PlatformStarts, PTL DEF Spec

(* The variables of every component keep their types.                       *)
THEOREM PlatformTypeCorrect == Spec => []TypeOK
<1>1. PlatformInv => TypeOK
  BY KnowledgeSafe, FlowSafe, ReviewEarned, FusionSafe, LockExcludes
     DEF PlatformInv, CollabInv, EnginesInv, InlineInv, LimitInv, TypeOK
<1> QED
  BY <1>1, PlatformInvariant, PTL

(* Whatever a published correlation or entity resolution used was committed *)
(* and read whole.                                                          *)
THEOREM CitationsArePublished == Spec => []CitedPublished
<1>1. PlatformInv => CitedPublished
  BY KnowledgeSafe DEF PlatformInv
<1> QED
  BY <1>1, PlatformInvariant, PTL

(* Runs work in the order of their rows, and later ones have caught up with *)
(* earlier ones: only the analyses and the reports change any of it.        *)
LEMMA OrderHolds == Spec => []OrderInv
<1>1. Init => OrderInv
  BY OrderStarts DEF Init
<1>2. PlatformInv /\ OrderInv /\ [Next]_vars => OrderInv'
  <2> SUFFICES ASSUME PlatformInv, OrderInv, [Next]_vars PROVE OrderInv'
    OBVIOUS
  <2>1. CASE Knowledge
    BY <2>1, OrderStep DEF Knowledge, PlatformInv
  <2>2. CASE UNCHANGED runVars
    BY <2>2, OrderApart DEF runVars
  <2>3. Knowledge \/ UNCHANGED runVars
    BY DEF Next, vars, Collaborate, Workflow, ReviewCase, Fusing, Deriving, Inline, Lock, Limit
  <2> QED
    BY <2>1, <2>2, <2>3
<1> QED
  BY <1>1, <1>2, PlatformInvariant, PTL DEF Spec

(* An entity resolution is not behind the correlation it uses: it took its  *)
(* timeline after that one was published, and so a newer or the same one.   *)
THEOREM EntitiesKeepUp == Spec => []EntitiesCoherent
<1>1. PlatformInv /\ OrderInv => EntitiesCoherent
  BY OrderSafe DEF PlatformInv
<1> QED
  BY <1>1, PlatformInvariant, OrderHolds, PTL

(* A later report never shows an older analysis than an earlier one: the    *)
(* earlier one was over before the later was inserted.                      *)
THEOREM ReportsOnlyAdvance == Spec => []ReportsAdvance
<1>1. PlatformInv /\ OrderInv => ReportsAdvance
  BY OrderSafe DEF PlatformInv
<1> QED
  BY <1>1, PlatformInvariant, OrderHolds, PTL

(* A report that calls an analysis SUCCEEDED shows its rows.                *)
THEOREM ReportsShowRows == Spec => []ReportShowsRows
<1>1. PlatformInv => ReportShowsRows
  BY KnowledgeSafe DEF PlatformInv
<1> QED
  BY <1>1, PlatformInvariant, PTL

(* A report that can be downloaded has its PDF.                             *)
THEOREM DownloadsAreBacked == Spec => []PdfBacked
<1>1. PlatformInv => PdfBacked
  BY KnowledgeSafe DEF PlatformInv
<1> QED
  BY <1>1, PlatformInvariant, PTL

(* A status never stands without its milestones.                            *)
THEOREM MilestonesKeepUp == Spec => []MilestonesCoverStatus
<1>1. PlatformInv => MilestonesCoverStatus
  BY DEF PlatformInv, FlowInv
<1> QED
  BY <1>1, PlatformInvariant, PTL

(* The history of a report's review is a legal course to its status.        *)
THEOREM HistoriesAreLegal == Spec => []ReviewHistoryLegal
<1>1. PlatformInv => ReviewHistoryLegal
  BY FlowSafe DEF PlatformInv
<1> QED
  BY <1>1, PlatformInvariant, PTL

(* A task that ended has the time of its end.                               *)
THEOREM TasksAreTimed == Spec => []TaskTimes
<1>1. PlatformInv => TaskTimes
  BY DEF PlatformInv, FlowInv
<1> QED
  BY <1>1, PlatformInvariant, PTL

(* The stage of a case review is earned by the decisions on record.         *)
THEOREM StagesAreEarned == Spec => []StageEarned
<1>1. PlatformInv => StageEarned
  BY ReviewEarned DEF PlatformInv
<1> QED
  BY <1>1, PlatformInvariant, PTL

(* Unavailable analyses change no verdict.                                  *)
THEOREM UnavailableIsNeutral == Spec => []UnavailableNeutral
<1>1. PlatformInv => UnavailableNeutral
  BY FusionSafe DEF PlatformInv
<1> QED
  BY <1>1, PlatformInvariant, PTL

(* What a run that its request executed names is there, and whole if it     *)
(* shows success.                                                           *)
THEOREM RecordsAreBacked == Spec => []RecordsBacked
<1>1. PlatformInv => RecordsBacked
  BY DEF PlatformInv, InlineInv
<1> QED
  BY <1>1, PlatformInvariant, PTL

(* Two live leases never both hold the lock before one ran out in a release. *)
THEOREM LockIsExclusive == Spec => []LockExclusive
<1>1. PlatformInv => LockExclusive
  BY LockExcludes DEF PlatformInv
<1> QED
  BY <1>1, PlatformInvariant, PTL

(* A counter without an expiry has a request that will set it, unless a     *)
(* timeout cut that one short.                                              *)
THEOREM CountersExpire == Spec => []CounterExpires
<1>1. PlatformInv => CounterExpires
  BY DEF PlatformInv, LimitInv
<1> QED
  BY <1>1, PlatformInvariant, PTL

(* Only an overtaken request takes the last owner from a case.              *)
THEOREM LastOwnerStays == Spec => LastOwnerKept
<1> DEFINE Kept == Owners # {} /\ Owners' = {}
                     => \E c \in collabLate : collab[c].at = "ready" /\ collab'[c].at = "away"
<1>1. PlatformInv /\ [Next]_vars => [Kept]_collabVars
  <2> SUFFICES ASSUME PlatformInv, [Next]_vars, ~UNCHANGED collabVars
               PROVE  Kept
    OBVIOUS
  <2>1. \E c \in Requester : KeepsOwner(c)
    BY PlatformStep
  <2> QED
    BY <2>1 DEF KeepsOwner
<1> QED
  BY <1>1, PlatformInvariant, PTL DEF Spec, LastOwnerKept

(* A rejection stands against every decision that is not overtaken.         *)
THEOREM RejectionsStand == Spec => RejectionStands
<1> DEFINE Stands == \A c \in Requester \ reviewLate :
                       /\ deciding[c].at = "ready" /\ deciding'[c].at = "away"
                       /\ "REJECTED" \in DecisionsIn(approvals')
                       => stage' = "REJECTED"
<1>1. PlatformInv /\ [Next]_vars => Stands
  BY PlatformStep
<1> QED
  BY <1>1, PlatformInvariant, PTL DEF Spec, RejectionStands

(* No run of fusion takes back what an earlier one accused an item of.      *)
THEOREM AccusationsStand == Spec => AccusationStands
<1>1. PlatformInv /\ [Next]_vars => Level(verdict) <= Level(verdict')
  BY PlatformStep
<1> QED
  BY <1>1, PlatformInvariant, PTL DEF Spec, AccusationStands

(* Stage and status move along the edges of their policies unless the       *)
(* request that moves them was overtaken.                                   *)
THEOREM PolicyIsFollowed == Spec => MovesAlongPolicy
<1> DEFINE Along ==
      /\ caseStage # "none" /\ caseStage' # caseStage
           => caseStage' \in NextStages[caseStage] \/ collabLate # {}
      /\ investigation # "none" /\ investigation' # investigation
           => investigation' \in NextStatuses[investigation] \/ flowLate # {}
<1>1. PlatformInv /\ [Next]_vars => Along
  BY PlatformStep
<1> QED
  BY <1>1, PlatformInvariant, PTL DEF Spec, MovesAlongPolicy

(* Entities are unique, every relationship of the graph joins two of them   *)
(* and rests on their evidence, and two items that were correlated by what  *)
(* they contain are found together in one.                                  *)
THEOREM GraphIsExplained == Spec => []GraphExplained
<1>1. PlatformInv => GraphExplained
  BY DEF PlatformInv, EnginesInv
<1> QED
  BY <1>1, PlatformInvariant, PTL

(* A later timeline has the conflicts of an earlier one.                    *)
THEOREM TimelineConflictsStand == Spec => ConflictsStand
<1>1. PlatformInv /\ [Next]_vars => ConflictsKept
  BY PlatformStep
<1>2. PlatformInv /\ [Next]_vars =>
        [\A c \in timeline.conflicts :
           c.type # "future_timestamp" => c \in timeline'.conflicts]_<<recordVars, timeline>>
  BY <1>1 DEF ConflictsKept
<1> QED
  BY <1>2, PlatformInvariant, PTL DEF Spec, ConflictsStand

(* What an engine publishes is at least what there was when it began to     *)
(* read, and at most what there is.                                         *)
THEOREM BuildsAreBracketed == Spec => BuildsBracketed
<1> DEFINE Bracketed ==
      /\ timeline' # timeline =>
           /\ reading["timeline"].before \subseteq timeline'.rows
           /\ timeline'.rows \subseteq rows
      /\ correlations' # correlations =>
           LET b == reading["correlation"] IN
             /\ Correlated(b.before, b.known, NoTimeline) \subseteq correlations'
             /\ correlations' \subseteq Correlated(rows, Uploaded, timeline)
<1>1. PlatformInv /\ [Next]_vars => Bracketed
  BY PlatformStep DEF TimelineBracketed, CorrelationsBracketed
<1> QED
  BY <1>1, PlatformInvariant, PTL DEF Spec, BuildsBracketed
=============================================================================
