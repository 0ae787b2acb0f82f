--------------------------- MODULE MCMemoryStore ---------------------------
(***************************************************************************)
(* Instances of MemoryStore: two processes that write, of which one has no *)
(* vector index, and a process whose commits run between the transactions  *)
(* of a search.                                                            *)
(***************************************************************************)
EXTENDS MemoryStore, TLC

Symmetry == Permutations(Texts)
=============================================================================
