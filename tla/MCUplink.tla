------------------------------- MODULE MCUplink -------------------------------
(***************************************************************************)
(* Uplink with the code's intervals, in ticks of half a second.            *)
(***************************************************************************)
EXTENDS Uplink
=============================================================================
