------------------------- MODULE MCEvidencePipeline -------------------------
(***************************************************************************)
(* EvidencePipeline for TLC.  API requests are interchangeable; job rows   *)
(* are not, for they are ordered by created_at.                            *)
(***************************************************************************)
EXTENDS EvidencePipeline, TLC

ClientSymmetry == Permutations(Client)
=============================================================================
