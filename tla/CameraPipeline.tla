---------------------------- MODULE CameraPipeline ----------------------------
(***************************************************************************)
(* A camera source with the CameraMonitor that polls it, both owned by the *)
(* main loop: CompanionApplication.poll starts with a poll of the monitor, *)
(* and main destroys the source when the loop is left.                     *)
(***************************************************************************)
EXTENDS CameraSource

VARIABLES last_sequence, received_frames, dropped_before_processing

Monitor == INSTANCE CameraMonitor

monitor_vars == <<last_sequence, received_frames, dropped_before_processing>>

pipeline_vars == <<source_vars, monitor_vars>>

PipelineInit == SourceInit /\ Monitor!Init

PollMonitor == TakeLatestFrame /\ Monitor!Poll(latest_frame)

SourceStep ==
  /\ WorkerStep \/ Collect \/ ChildStep \/ Destroy
  /\ UNCHANGED monitor_vars

PipelineNext == PollMonitor \/ SourceStep

(***************************************************************************)
(* Polling and stopping are the owner's choice: no fairness is asked.      *)
(***************************************************************************)
PipelineSpec == PipelineInit /\ [][PipelineNext]_pipeline_vars /\ Fairness

-----------------------------------------------------------------------------
WorkerStates ==
  {"preparing", "forking", "storing", "checking", "reading", "pairing",
   "publishing", "killing", "reaping", "clearing", "joining", "retrying",
   "delaying", "ending", "stopped"}

Shots == [attempt: 0..MaxRestarts, number: 1..MaxFrames]

Frames == [sequence: 1..((MaxRestarts + 1) * MaxFrames), shot: Shots,
           captured_at: Shots \cup {NoFrame}]

(***************************************************************************)
(* The type invariant, the bound on the deque of capture times with it:    *)
(* it holds no more than one attempt leaves.                               *)
(***************************************************************************)
PipelineTypeOK ==
  /\ kind \in Kinds
  /\ worker \in WorkerStates
  /\ frame \in Frames \cup {NoFrame}
  /\ latest_frame \in Frames \cup {NoFrame}
  /\ phase \in {"starting", "streaming", "reconnecting", "failed", "stopped"}
  /\ restart_count \in 0..MaxRestarts
  /\ Len(metadata_timestamps) <= MaxFrames
  /\ child \in {"none", "starting", "running", "exited"}
  /\ {child_pid, interrupted, stop_requested} \subseteq BOOLEAN
  /\ read <= filmed /\ filmed <= MaxFrames
  /\ collected <= described /\ described <= MaxFrames
  /\ owner \in {"polling", "stopping", "signalling", "joining", "done"}

(***************************************************************************)
(* "FrameWallClock is paired with each completed frame": the capture time  *)
(* handed out with a frame is the frame's own, over any number of attempts *)
(* that ended between a frame and its capture time; and a GStreamer frame  *)
(* has none, "rather than being reported as a fabricated zero".            *)
(***************************************************************************)
FramesArePaired ==
  latest_frame # NoFrame =>
    latest_frame.captured_at =
      (IF kind = "rpicam" THEN latest_frame.shot ELSE NoFrame)

(***************************************************************************)
(* After a restart no frame of an earlier attempt is handed out any more:  *)
(* what the vision reads is as new as the reported phase says.             *)
(***************************************************************************)
FrameIsOfThisAttempt ==
  latest_frame # NoFrame => latest_frame.shot.attempt = restart_count

(***************************************************************************)
(* The types and bounds, and that what one attempt leaves behind ends with *)
(* it.                                                                     *)
(***************************************************************************)
PipelineInvariant ==
  /\ PipelineTypeOK
  /\ FrameIsOfThisAttempt

(***************************************************************************)
(* stop_child signals whatever child_pid_ names.  It names a child that    *)
(* was not reaped, but for the instant between waitpid and the store       *)
(* after it: a pid is never kept through a restart delay, when the system  *)
(* may give it to another process.                                         *)
(***************************************************************************)
PidIsOfChild ==
  child_pid => child # "none" \/ worker = "clearing"

(***************************************************************************)
(* Sequence numbers go on across restarts, so that neither the gaps that   *)
(* the monitor counts nor the overwritten frames exceed the frames that    *)
(* were completed: no attempt is ever reported as dropped frames.          *)
(***************************************************************************)
DropsWereComplete ==
  received_frames + Monitor!ReportedDrops(overwritten_frames) <= next_sequence

(***************************************************************************)
(* "They stop the child process, wait for a bounded retry delay, and start *)
(* it again until the owner requests shutdown."                            *)
(***************************************************************************)
FailureIsRetried == worker = "killing" ~> worker = "checking" \/ stop_requested

(***************************************************************************)
(* The destructor returns, whatever the worker is doing,                   *)
(***************************************************************************)
ShutdownEnds == stop_requested ~> owner = "done"

(***************************************************************************)
(* or at least when the stop does not fall between fork and execvp, where  *)
(* the signal is not sent or is lost.                                      *)
(***************************************************************************)
ChildSettled == child # "starting" /\ worker \notin {"forking", "storing"}

SettledShutdownEnds == owner = "stopping" /\ ChildSettled ~> owner = "done"
=============================================================================
