------------------------- MODULE MCRuntimeLifecycle -------------------------
(***************************************************************************)
(* Callers, a scheduled run and Close calls interleave over a Scope and    *)
(* the resources that Close tears down.                                    *)
(***************************************************************************)
EXTENDS RuntimeLifecycle
=============================================================================
