----------------------------- MODULE MCReadiness -----------------------------
(***************************************************************************)
(* Two callers, so that a refresh can be joined, and two workers, so that  *)
(* one can wait behind a native call that was given up.                    *)
(***************************************************************************)
EXTENDS Readiness
=============================================================================
