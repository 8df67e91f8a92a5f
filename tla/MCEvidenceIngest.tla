-------------------------- MODULE MCEvidenceIngest --------------------------
(***************************************************************************)
(* EvidenceIngest for TLC.  A number is allocated at most once per upload, *)
(* so the bound on numbers refuses nothing.                                *)
(***************************************************************************)
EXTENDS EvidenceIngest, FiniteSets, TLC

OnePerUpload == Cardinality(Upload)
Interchangeable == Permutations(Upload) \cup Permutations(Content)
=============================================================================
