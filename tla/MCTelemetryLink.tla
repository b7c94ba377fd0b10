--------------------------- MODULE MCTelemetryLink ---------------------------
(***************************************************************************)
(* TelemetryLink on small instances.                                       *)
(***************************************************************************)
EXTENDS TelemetryLink
=============================================================================
