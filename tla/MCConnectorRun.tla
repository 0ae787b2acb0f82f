--------------------------- MODULE MCConnectorRun ---------------------------
(***************************************************************************)
(* A run of the lifecycle and a remote worker race for the checkpoint of   *)
(* one binding over a provider of three items.                             *)
(***************************************************************************)
EXTENDS ConnectorRun
=============================================================================
