-------------------------- MODULE MCPersonalService --------------------------
(***************************************************************************)
(* Three invocations that install, replace and uninstall three definitions.*)
(***************************************************************************)
EXTENDS PersonalService, TLC

Symmetry == Permutations(Processes) \cup Permutations(Registrations)
=============================================================================
