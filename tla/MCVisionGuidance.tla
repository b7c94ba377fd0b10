--------------------------- MODULE MCVisionGuidance ---------------------------
(***************************************************************************)
(* VisionGuidance on small instances.  Tags are interchangeable.           *)
(***************************************************************************)
EXTENDS VisionGuidance, TLC

TagSymmetry == Permutations(Tags)
=============================================================================
