------------------------ MODULE MCCompanionApplication ------------------------
(***************************************************************************)
(* CompanionApplication on small instances.                                *)
(***************************************************************************)
EXTENDS CompanionApplication
=============================================================================
