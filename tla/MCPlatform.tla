------------------------------ MODULE MCPlatform ------------------------------
(***************************************************************************)
(* Platform for TLC: the workloads of a configuration, and its symmetry.   *)
(***************************************************************************)
EXTENDS Platform, TLC

(* Every kind is in one of these, and kinds that read each other together.  *)
AllWorkloads ==
  {{"TIMELINE", "CORRELATION", "ENTITIES"}, {"REPORT", "INTELLIGENCE"},
   {"REPORT", "TIMELINE"}, {"MEMBERS"}, {"STAGE"}, {"TASK"}, {"STATUS"},
   {"REVIEW"}, {"APPROVAL"}, {"FUSION"}, {"INLINE"}, {"LOCK"}, {"LIMIT"},
   {"timeline", "dates"}, {"timeline", "correlation", "past", "others"},
   {"correlation", "entities", "texts"}, {"correlation", "entities", "comparisons"}}

(* One modality of each specialist's, and two of one's.                     *)
FourModalities == <<"forensics", "image_ai", "signature_ai", "comparison">>

(* Two spellings of one text, for the engines that normalise and those that *)
(* do not.                                                                  *)
Lowercase == [t \in {"x", "X"} |-> "x"]

ReportsOnTimelines == {{"REPORT", "TIMELINE"}}

Symmetry == Permutations(Requester)
=============================================================================
