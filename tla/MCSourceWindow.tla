--------------------------- MODULE MCSourceWindow ---------------------------
(***************************************************************************)
(* Two processes, one of them scheduled, compete for the windows of a      *)
(* journal of captured content (evidence), Skill usage (a native Source    *)
(* that is not evidence) and worker observations, whose Definition has a   *)
(* text projection or not.  The Limit is two positions, so a window can be *)
(* full, partial, mixed, or free of evidence.                              *)
(***************************************************************************)
EXTENDS SourceWindow

CONSTANTS p1, p2, content1, usage, worker, x, text, plain

MCConforming == Fingerprints \X Payloads
=============================================================================
