----------------------------- MODULE CameraMonitor -----------------------------
(***************************************************************************)
(* application/CameraMonitor: poll takes the latest frame of the source    *)
(* and keeps the statistics that snapshot reports.  Detection, preview and *)
(* latency, which feed nothing back into them, are left out.               *)
(***************************************************************************)
EXTENDS Naturals

CONSTANT NoFrame   \* std::nullopt in place of a frame

VARIABLES
  last_sequence,              \* last_sequence_, 0 before the first frame
  received_frames,
  dropped_before_processing

vars == <<last_sequence, received_frames, dropped_before_processing>>

Init ==
  /\ last_sequence = 0
  /\ received_frames = 0
  /\ dropped_before_processing = 0

(***************************************************************************)
(* The frames that the sequence number shows were skipped.                 *)
(***************************************************************************)
Gap(frame) ==
  IF last_sequence # 0 /\ frame.sequence > last_sequence + 1
    THEN frame.sequence - last_sequence - 1
    ELSE 0

Poll(frame) ==
  IF frame = NoFrame
    THEN UNCHANGED vars
    ELSE /\ dropped_before_processing' = dropped_before_processing + Gap(frame)
         /\ last_sequence' = frame.sequence
         /\ received_frames' = received_frames + 1

(***************************************************************************)
(* dropped_before_processing of a snapshot.                                *)
(***************************************************************************)
ReportedDrops(overwritten_frames) ==
  IF overwritten_frames > dropped_before_processing
    THEN overwritten_frames
    ELSE dropped_before_processing
=============================================================================
