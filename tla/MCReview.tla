------------------------------ MODULE MCReview ------------------------------
(***************************************************************************)
(* Two users whose reads and decisions interleave write three versions: of *)
(* one Candidate that is revised, or of up to three Candidates that target *)
(* the same Artifact.                                                      *)
(***************************************************************************)
EXTENDS Review, TLC

Symmetry == Permutations(Users)
=============================================================================
