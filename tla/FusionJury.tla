------------------------------ MODULE FusionJury ------------------------------
(***************************************************************************)
(* What a fusion run decides about one evidence item: it collects the      *)
(* findings of one modality after the other while analyses publish more,   *)
(* lets specialists and a senior judge vote, and looks for conflicts.      *)
(*                                                                         *)
(* The run as a job is FusionService; the unique index lets one work at a  *)
(* time, and no task of it is delivered twice.  A finding is its modality  *)
(* and its verdict.  The verdicts NEUTRAL and INCONCLUSIVE are told apart  *)
(* nowhere.  Nothing deletes a finding.                                    *)
(***************************************************************************)
EXTENDS Naturals, FiniteSets, Sequences

CONSTANTS
  Collected,    \* the modalities, in the order they are collected
  MaxFindings   \* bound: distinct findings on record

(* A specialist is named by the modalities in its scope.                    *)
Specialists ==
  {{"forensics", "comparison"}, {"document_ai", "image_ai"},
   {"video_ai", "audio_ai"}, {"signature_ai"}}
Modality == UNION Specialists

ASSUME CollectedAssumption == Collected \in Seq(Modality)
ASSUME MaxFindingsAssumption == MaxFindings \in Nat

VARIABLES
  findings,   \* the finding tables, all modalities together
  gathered,   \* what the run at work has collected
  collectAt,  \* its place in Collected, 0 when none is at work
  verdict     \* of the newest run that succeeded

fusionVars == <<findings, gathered, collectAt, verdict>>

(* Only a signature that matches supports genuine.                          *)
FindingVerdicts(m) ==
  {"fraud", "inconclusive", "unavailable"}
    \cup (IF m = "signature_ai" THEN {"genuine"} ELSE {"suspicious"})
Finding == UNION {[modality : {m}, verdict : FindingVerdicts(m)] : m \in Modality}
FusionVerdict ==
  {"genuine", "suspicious", "potential_fraud", "inconclusive", "insufficient_evidence"}

FusionInit ==
  /\ findings = {}
  /\ gathered = {}
  /\ collectAt = 0
  /\ verdict = "none"

-----------------------------------------------------------------------------
(* The jury.                                                                *)

Accusing == {"suspicious", "fraud"}
Actionable(fs) == {f \in fs : f.verdict # "unavailable"}

(* A specialist votes on the actionable findings in its scope, if any.      *)
Seen(fs, s) == {f.verdict : f \in {g \in Actionable(fs) : g.modality \in s}}

(* A plausible bug: a specialist whose findings are unavailable is seated.  *)
AnyFindingM(fs) == {s \in Specialists : \E f \in fs : f.modality \in s}

Seated(fs) == {s \in Specialists : Seen(fs, s) # {}}

RoleVerdict(fs, s) ==
  IF "fraud" \in Seen(fs, s) THEN "potential_fraud"
  ELSE IF "suspicious" \in Seen(fs, s) THEN "suspicious"
  ELSE IF "genuine" \in Seen(fs, s) THEN "genuine" ELSE "inconclusive"

Votes(fs, v) == {s \in Seated(fs) : RoleVerdict(fs, s) = v}
Count(fs, v) == Cardinality(Votes(fs, v))

(* A plausible bug: the senior judge follows the majority.                  *)
MajorityM(fs) ==
  IF Seated(fs) = {} THEN "insufficient_evidence"
  ELSE IF 2 * Count(fs, "potential_fraud") > Cardinality(Seated(fs)) THEN "potential_fraud"
  ELSE IF Count(fs, "potential_fraud") = 1 \/ Count(fs, "suspicious") >= 2 THEN "suspicious"
  ELSE "inconclusive"

SeniorVerdict(fs) ==
  IF Seated(fs) = {} THEN "insufficient_evidence"
  ELSE IF Count(fs, "potential_fraud") >= 2 THEN "potential_fraud"
  ELSE IF Count(fs, "potential_fraud") = 1 \/ Count(fs, "suspicious") >= 2 THEN "suspicious"
  ELSE IF Count(fs, "genuine") >= 2 /\ Count(fs, "suspicious") = 0 THEN "genuine"
  ELSE "inconclusive"

(* detect_conflicts, without the spread of confidences: within a modality,  *)
(* between modalities, between members of the jury.                         *)
Suspected(fs) == {f.modality : f \in {g \in fs : g.verdict \in Accusing}}
Cleared(fs) == {f.modality : f \in {g \in fs : g.verdict = "genuine"}}
ModalityConflict(fs) ==
  \/ Suspected(fs) \cap Cleared(fs) # {}
  \/ Suspected(fs) # {} /\ Cleared(fs) # {}
JuryConflict(fs) ==
  Cardinality({RoleVerdict(fs, s) : s \in Seated(fs)} \cup {SeniorVerdict(fs)}) > 1

(* Open conflicts turn genuine into inconclusive.                           *)
FinalVerdict(fs, spread) ==
  IF SeniorVerdict(fs) = "genuine" /\ (spread \/ ModalityConflict(fs) \/ JuryConflict(fs))
  THEN "inconclusive" ELSE SeniorVerdict(fs)

-----------------------------------------------------------------------------
(* An analysis commits its findings of one modality.                        *)
PublishFindings(m) ==
  /\ \E vs \in SUBSET FindingVerdicts(m) :
       findings' = findings \cup [modality : {m}, verdict : vs]
  /\ Cardinality(findings') <= MaxFindings
  /\ UNCHANGED <<gathered, collectAt, verdict>>

StartFusion ==
  /\ collectAt = 0
  /\ collectAt' = 1
  /\ gathered' = {}
  /\ UNCHANGED <<findings, verdict>>

(* collect_normalized_findings: a SELECT for each modality.                 *)
CollectModality ==
  /\ collectAt \in 1..Len(Collected)
  /\ gathered' = gathered \cup {f \in findings : f.modality = Collected[collectAt]}
  /\ collectAt' = collectAt + 1
  /\ UNCHANGED <<findings, verdict>>

Fuse ==
  /\ collectAt = Len(Collected) + 1
  /\ \E spread \in BOOLEAN : verdict' = FinalVerdict(gathered, spread)
  /\ collectAt' = 0
  /\ UNCHANGED <<findings, gathered>>

(* The run fails, or its process ends: nothing of it is recorded.           *)
AbandonFusion ==
  /\ collectAt # 0
  /\ collectAt' = 0
  /\ UNCHANGED <<findings, gathered, verdict>>

FusionNext ==
  \/ \E i \in DOMAIN Collected : PublishFindings(Collected[i])
  \/ StartFusion \/ CollectModality \/ Fuse \/ AbandonFusion

-----------------------------------------------------------------------------

FusionTypeOK ==
  /\ findings \subseteq Finding
  /\ gathered \subseteq Finding
  /\ collectAt \in 0..(Len(Collected) + 1)
  /\ verdict \in FusionVerdict \cup {"none"}

(* Unavailable analyses are not negative evidence (docs/fusion-ai, AI       *)
(* jury): without them every verdict of a run would be the same.            *)
UnavailableNeutral ==
  \A spread \in BOOLEAN :
    FinalVerdict(gathered, spread) = FinalVerdict(Actionable(gathered), spread)

Level(v) == IF v = "potential_fraud" THEN 2 ELSE IF v = "suspicious" THEN 1 ELSE 0

(* An accusation is not taken back: fused again, with what was published    *)
(* meanwhile, an item is never less suspect, whatever each run missed of    *)
(* the findings that were published while it collected.                     *)
AccusationStands == [][Level(verdict) <= Level(verdict')]_fusionVars
=============================================================================
