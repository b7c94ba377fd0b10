--------------------------- MODULE MCCameraPipeline ---------------------------
(***************************************************************************)
(* CameraPipeline for TLC; the bounds are in the configurations.           *)
(***************************************************************************)
EXTENDS CameraPipeline
=============================================================================
