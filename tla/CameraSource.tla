----------------------------- MODULE CameraSource -----------------------------
(***************************************************************************)
(* adapters/camera/RpicamCameraSource and GStreamerCameraSource: a worker  *)
(* thread that runs a camera program as a child process, reads whole       *)
(* frames from its output, pairs each with a capture time that a reader    *)
(* thread collects (rpicam only), and starts the child again when it ends  *)
(* or stalls; and the owner, who takes the latest frame and destroys the   *)
(* source.  Every step below is atomic under a mutex or is one system      *)
(* call, and the threads interleave between steps.                         *)
(*                                                                         *)
(* The child is external.  It writes a frame and its capture time in any   *)
(* order, may end by itself, and may stall: then the read times out.       *)
(***************************************************************************)
EXTENDS Naturals, Sequences

CONSTANTS
  Kinds,        \* which of the two adapters: a subset of {"rpicam", "gstreamer"}
  MaxFrames,    \* bound: frames the child writes in one attempt
  MaxRestarts,  \* bound: failed attempts; a later attempt fails no more
  NoFrame       \* std::nullopt in place of a frame or of a capture time

ASSUME KindsAssumption == Kinds \subseteq {"rpicam", "gstreamer"}
ASSUME BoundsAssumption == MaxFrames \in Nat /\ MaxRestarts \in Nat

VARIABLES
  kind,           \* which adapter this is
  worker,         \* where run and run_once are
  frame,          \* the frame in hand
  next_sequence,  \* next_sequence_
  latest_frame,   \* latest_frame_
  phase, restart_count, produced_frames, overwritten_frames,  \* status_
  metadata_timestamps,   \* the deque of the same name
  child_pid       \* whether child_pid_ names the child

VARIABLES
  child,          \* "none", "starting" before execvp, "running", "exited"
  interrupted,    \* SIGINT reached the running child
  filmed, read,   \* frames this child wrote, and those the worker read
  described, collected   \* the same of its capture times

VARIABLES
  owner,          \* where the owner and the destructor are
  stop_requested

status_vars == <<phase, restart_count, produced_frames, overwritten_frames>>
child_vars == <<child, interrupted>>
pipe_vars == <<filmed, read, described, collected>>
owner_vars == <<owner, stop_requested>>

source_vars == <<kind, worker, frame, next_sequence, latest_frame,
                 status_vars, metadata_timestamps, child_pid, child_vars,
                 pipe_vars, owner_vars>>

SourceInit ==
  /\ kind \in Kinds
  /\ worker = "preparing"
  /\ frame = NoFrame /\ latest_frame = NoFrame
  /\ next_sequence = 0
  /\ phase = "starting"
  /\ restart_count = 0 /\ produced_frames = 0 /\ overwritten_frames = 0
  /\ metadata_timestamps = <<>>
  /\ child_pid = FALSE
  /\ child = "none" /\ interrupted = FALSE
  /\ filmed = 0 /\ read = 0 /\ described = 0 /\ collected = 0
  /\ owner = "polling" /\ stop_requested = FALSE

(***************************************************************************)
(* An attempt may still fail: the bound MaxRestarts.                       *)
(***************************************************************************)
MayFail == restart_count < MaxRestarts

(***************************************************************************)
(* The n-th frame of an attempt, and its capture time.                     *)
(***************************************************************************)
Shot(n) == [attempt |-> restart_count, number |-> n]

-----------------------------------------------------------------------------
(***************************************************************************)
(* Mutant: prepare_attempt leaves the capture times of the last attempt.   *)
(***************************************************************************)
PrepareKeepingTimes ==
  /\ worker = "preparing"
  /\ worker' = IF stop_requested THEN "ending" ELSE "forking"
  /\ latest_frame' = IF stop_requested THEN latest_frame ELSE NoFrame
  /\ UNCHANGED <<kind, frame, next_sequence, status_vars, metadata_timestamps,
                 child_pid, child_vars, pipe_vars, owner_vars>>

(***************************************************************************)
(* The loop of run: a stop ends it, otherwise prepare_attempt forgets what *)
(* an earlier attempt left.                                                *)
(***************************************************************************)
Prepare ==
  /\ worker = "preparing"
  /\ IF stop_requested
       THEN /\ worker' = "ending"
            /\ UNCHANGED <<latest_frame, metadata_timestamps>>
       ELSE /\ worker' = "forking"
            /\ latest_frame' = NoFrame
            /\ metadata_timestamps' = <<>>
  /\ UNCHANGED <<kind, frame, next_sequence, status_vars, child_pid,
                 child_vars, pipe_vars, owner_vars>>

(***************************************************************************)
(* Mutant: each attempt numbers its frames from one.                       *)
(***************************************************************************)
ForkRenumbering ==
  /\ worker = "forking"
  /\ worker' = "storing"
  /\ child' = "starting" /\ interrupted' = FALSE
  /\ filmed' = 0 /\ read' = 0 /\ described' = 0 /\ collected' = 0
  /\ next_sequence' = 0
  /\ UNCHANGED <<kind, frame, latest_frame, status_vars, metadata_timestamps,
                 child_pid, owner_vars>>

Fork ==
  /\ worker = "forking"
  /\ worker' = "storing"
  /\ child' = "starting" /\ interrupted' = FALSE
  /\ filmed' = 0 /\ read' = 0 /\ described' = 0 /\ collected' = 0
  /\ UNCHANGED <<kind, frame, next_sequence, latest_frame, status_vars,
                 metadata_timestamps, child_pid, owner_vars>>

(***************************************************************************)
(* pipe or fork fails; run_once returns at once.                           *)
(***************************************************************************)
ForkFails ==
  /\ worker = "forking"
  /\ MayFail
  /\ worker' = "retrying"
  /\ phase' = "failed"
  /\ UNCHANGED <<kind, frame, next_sequence, latest_frame, restart_count,
                 produced_frames, overwritten_frames, metadata_timestamps,
                 child_pid, child_vars, pipe_vars, owner_vars>>

StorePid ==
  /\ worker = "storing"
  /\ child_pid' = TRUE
  /\ worker' = "checking"
  /\ UNCHANGED <<kind, frame, next_sequence, latest_frame, status_vars,
                 metadata_timestamps, child_vars, pipe_vars, owner_vars>>

-----------------------------------------------------------------------------
(***************************************************************************)
(* The frame loop of run_once.  The stop token is read before a frame and  *)
(* while waiting for its bytes, so that a frame may still be completed     *)
(* after the request.                                                      *)
(***************************************************************************)
WorkerMoves(to) ==
  /\ worker' = to
  /\ UNCHANGED <<kind, next_sequence, latest_frame, status_vars,
                 metadata_timestamps, child_pid, child_vars, pipe_vars,
                 owner_vars>>

Check ==
  /\ worker = "checking"
  /\ WorkerMoves(IF stop_requested THEN "killing" ELSE "reading")
  /\ UNCHANGED frame

(***************************************************************************)
(* read_exact returns without a frame: stopped, end_of_file, timed_out or  *)
(* failed.  A child that execvp still has to replace does not time out.    *)
(***************************************************************************)
ReadEnds ==
  /\ worker = "reading"
  /\ \/ stop_requested
     \/ filmed = read /\ child = "exited"
     \/ filmed = read /\ child = "running" /\ MayFail
  /\ WorkerMoves("killing")
  /\ UNCHANGED frame

CompleteFrame ==
  /\ worker = "reading"
  /\ read < filmed
  /\ read' = read + 1
  /\ next_sequence' = next_sequence + 1
  /\ frame' = [sequence |-> next_sequence', shot |-> Shot(read'),
               captured_at |-> NoFrame]
  /\ worker' = IF kind = "rpicam" THEN "pairing" ELSE "publishing"
  /\ UNCHANGED <<kind, latest_frame, status_vars, metadata_timestamps,
                 child_pid, child_vars, filmed, described, collected,
                 owner_vars>>

(***************************************************************************)
(* wait_for_metadata takes the oldest capture time,                        *)
(***************************************************************************)
Pair ==
  /\ worker = "pairing"
  /\ metadata_timestamps # <<>>
  /\ frame' = [frame EXCEPT !.captured_at = Head(metadata_timestamps)]
  /\ metadata_timestamps' = Tail(metadata_timestamps)
  /\ worker' = "publishing"
  /\ UNCHANGED <<kind, next_sequence, latest_frame, status_vars, child_pid,
                 child_vars, pipe_vars, owner_vars>>

(***************************************************************************)
(* or gives up, which is a failure unless the source is being stopped.     *)
(***************************************************************************)
PairTimesOut ==
  /\ worker = "pairing"
  /\ metadata_timestamps = <<>>
  /\ stop_requested \/ MayFail
  /\ worker' = "killing"
  /\ phase' = IF stop_requested THEN phase ELSE "failed"
  /\ frame' = NoFrame
  /\ UNCHANGED <<kind, next_sequence, latest_frame, restart_count,
                 produced_frames, overwritten_frames, metadata_timestamps,
                 child_pid, child_vars, pipe_vars, owner_vars>>

Publish ==
  /\ worker = "publishing"
  /\ overwritten_frames' =
       overwritten_frames + (IF latest_frame = NoFrame THEN 0 ELSE 1)
  /\ latest_frame' = frame
  /\ produced_frames' = produced_frames + 1
  /\ phase' = "streaming"
  /\ frame' = NoFrame
  /\ worker' = "checking"
  /\ UNCHANGED <<kind, next_sequence, restart_count, metadata_timestamps,
                 child_pid, child_vars, pipe_vars, owner_vars>>

-----------------------------------------------------------------------------
(***************************************************************************)
(* kill(child, SIGINT).  Before execvp the child still has the handler     *)
(* that main installed and only sets a flag; an ended child feels nothing. *)
(***************************************************************************)
Interrupt ==
  /\ interrupted' = (interrupted \/ child = "running")
  /\ UNCHANGED child

(***************************************************************************)
(* Mutant: a child that stalls is waited for and not signalled.            *)
(***************************************************************************)
KillNone ==
  /\ worker = "killing"
  /\ worker' = "reaping"
  /\ UNCHANGED <<kind, frame, next_sequence, latest_frame, status_vars,
                 metadata_timestamps, child_pid, child_vars, pipe_vars,
                 owner_vars>>

(***************************************************************************)
(* The end of run_once.  The worker signals the child itself, unless a     *)
(* stop is requested: then stop_child is to have done so.                  *)
(***************************************************************************)
Kill ==
  /\ worker = "killing"
  /\ worker' = "reaping"
  /\ IF stop_requested THEN UNCHANGED child_vars ELSE Interrupt
  /\ UNCHANGED <<kind, frame, next_sequence, latest_frame, status_vars,
                 metadata_timestamps, child_pid, pipe_vars, owner_vars>>

(***************************************************************************)
(* waitpid returns.                                                        *)
(***************************************************************************)
Reap ==
  /\ worker = "reaping"
  /\ child = "exited"
  /\ child' = "none" /\ interrupted' = FALSE
  /\ worker' = "clearing"
  /\ UNCHANGED <<kind, frame, next_sequence, latest_frame, status_vars,
                 metadata_timestamps, child_pid, pipe_vars, owner_vars>>

(***************************************************************************)
(* Mutant: the pid is kept until the next child replaces it.               *)
(***************************************************************************)
ClearPidNever ==
  /\ worker = "clearing"
  /\ worker' = "joining"
  /\ UNCHANGED <<kind, frame, next_sequence, latest_frame, status_vars,
                 metadata_timestamps, child_pid, child_vars, pipe_vars,
                 owner_vars>>

ClearPid ==
  /\ worker = "clearing"
  /\ child_pid' = FALSE
  /\ worker' = "joining"
  /\ UNCHANGED <<kind, frame, next_sequence, latest_frame, status_vars,
                 metadata_timestamps, child_vars, pipe_vars, owner_vars>>

(***************************************************************************)
(* The reader thread ends when it has read all its pipe holds.             *)
(***************************************************************************)
JoinReaders ==
  /\ worker = "joining"
  /\ collected = described
  /\ phase' = IF stop_requested THEN phase ELSE "failed"
  /\ worker' = "retrying"
  /\ UNCHANGED <<kind, frame, next_sequence, latest_frame, restart_count,
                 produced_frames, overwritten_frames, metadata_timestamps,
                 child_pid, child_vars, pipe_vars, owner_vars>>

(***************************************************************************)
(* Mutant: set_reconnecting leaves the frame of the attempt that failed.   *)
(***************************************************************************)
RetryHoldingFrame ==
  /\ worker = "retrying"
  /\ worker' = IF stop_requested THEN "ending" ELSE "delaying"
  /\ phase' = IF stop_requested THEN phase ELSE "reconnecting"
  /\ restart_count' = restart_count + (IF stop_requested THEN 0 ELSE 1)
  /\ UNCHANGED <<kind, frame, next_sequence, latest_frame, produced_frames,
                 overwritten_frames, metadata_timestamps, child_pid,
                 child_vars, pipe_vars, owner_vars>>

(***************************************************************************)
(* run after run_once: stop, or set_reconnecting and wait_for_restart.     *)
(***************************************************************************)
Retry ==
  /\ worker = "retrying"
  /\ IF stop_requested
       THEN /\ worker' = "ending"
            /\ UNCHANGED <<latest_frame, phase, restart_count>>
       ELSE /\ worker' = "delaying"
            /\ latest_frame' = NoFrame
            /\ phase' = "reconnecting"
            /\ restart_count' = restart_count + 1
  /\ UNCHANGED <<kind, frame, next_sequence, produced_frames,
                 overwritten_frames, metadata_timestamps, child_pid,
                 child_vars, pipe_vars, owner_vars>>

Delay ==
  /\ worker = "delaying"
  /\ WorkerMoves(IF stop_requested THEN "ending" ELSE "preparing")
  /\ UNCHANGED frame

SetStopped ==
  /\ worker = "ending"
  /\ worker' = "stopped"
  /\ phase' = "stopped"
  /\ UNCHANGED <<kind, frame, next_sequence, latest_frame, restart_count,
                 produced_frames, overwritten_frames, metadata_timestamps,
                 child_pid, child_vars, pipe_vars, owner_vars>>

WorkerStep ==
  \/ Prepare \/ Fork \/ ForkFails \/ StorePid
  \/ Check \/ ReadEnds \/ CompleteFrame \/ Pair \/ PairTimesOut \/ Publish
  \/ Kill \/ Reap \/ ClearPid \/ JoinReaders \/ Retry \/ Delay \/ SetStopped

-----------------------------------------------------------------------------
(***************************************************************************)
(* The metadata reader: one more capture time for the deque.               *)
(***************************************************************************)
Collect ==
  /\ worker # "storing"
  /\ collected < described
  /\ collected' = collected + 1
  /\ metadata_timestamps' = Append(metadata_timestamps, Shot(collected'))
  /\ UNCHANGED <<kind, worker, frame, next_sequence, latest_frame, status_vars,
                 child_pid, child_vars, filmed, read, described, owner_vars>>

(***************************************************************************)
(* The child process.                                                      *)
(***************************************************************************)
ChildMoves(to) ==
  /\ child' = to
  /\ UNCHANGED <<kind, worker, frame, next_sequence, latest_frame, status_vars,
                 metadata_timestamps, child_pid, interrupted, pipe_vars,
                 owner_vars>>

Exec == child = "starting" /\ ChildMoves("running")

End ==
  /\ \/ child = "running" /\ interrupted
     \/ child \in {"starting", "running"} /\ MayFail
  /\ ChildMoves("exited")

Film ==
  /\ child = "running"
  /\ filmed < MaxFrames
  /\ kind = "rpicam" => filmed <= described
  /\ filmed' = filmed + 1
  /\ UNCHANGED <<kind, worker, frame, next_sequence, latest_frame, status_vars,
                 metadata_timestamps, child_pid, child_vars, read, described,
                 collected, owner_vars>>

Describe ==
  /\ kind = "rpicam"
  /\ child = "running"
  /\ described < MaxFrames
  /\ described <= filmed
  /\ described' = described + 1
  /\ UNCHANGED <<kind, worker, frame, next_sequence, latest_frame, status_vars,
                 metadata_timestamps, child_pid, child_vars, filmed, read,
                 collected, owner_vars>>

ChildStep == Exec \/ End \/ Film \/ Describe

-----------------------------------------------------------------------------
(***************************************************************************)
(* The owner: take_latest_frame; what becomes of the frame is the          *)
(* consumer's.                                                             *)
(***************************************************************************)
TakeLatestFrame ==
  /\ owner = "polling"
  /\ latest_frame' = NoFrame
  /\ UNCHANGED <<kind, worker, frame, next_sequence, status_vars,
                 metadata_timestamps, child_pid, child_vars, pipe_vars,
                 owner_vars>>

(***************************************************************************)
(* The destructor: request_stop; stop_child, which loads the pid and then  *)
(* signals it; and the join of the worker.                                 *)
(***************************************************************************)
OwnerMoves(to) ==
  /\ owner' = to
  /\ UNCHANGED <<kind, worker, frame, next_sequence, latest_frame, status_vars,
                 metadata_timestamps, child_pid, pipe_vars>>

RequestStop ==
  /\ owner = "polling"
  /\ stop_requested' = TRUE
  /\ OwnerMoves("stopping")
  /\ UNCHANGED child_vars

LoadPid ==
  /\ owner = "stopping"
  /\ OwnerMoves(IF child_pid THEN "signalling" ELSE "joining")
  /\ UNCHANGED <<child_vars, stop_requested>>

(***************************************************************************)
(* Mutant: the destructor does not signal the child.                       *)
(***************************************************************************)
StopChildNot ==
  /\ owner = "signalling"
  /\ OwnerMoves("joining")
  /\ UNCHANGED <<child_vars, stop_requested>>

StopChild ==
  /\ owner = "signalling"
  /\ Interrupt
  /\ OwnerMoves("joining")
  /\ UNCHANGED stop_requested

JoinWorker ==
  /\ owner = "joining"
  /\ worker = "stopped"
  /\ OwnerMoves("done")
  /\ UNCHANGED <<child_vars, stop_requested>>

Destroy == RequestStop \/ LoadPid \/ StopChild \/ JoinWorker

(***************************************************************************)
(* Threads run; a child gets to execvp, and one that SIGINT reached ends.  *)
(* It owes neither frames nor an end otherwise, but what it films it       *)
(* describes.                                                              *)
(***************************************************************************)
Fairness ==
  /\ WF_source_vars(WorkerStep)
  /\ WF_source_vars(Collect)
  /\ WF_source_vars(Exec)
  /\ WF_source_vars(interrupted /\ End)
  /\ WF_source_vars(filmed > described /\ Describe)
  /\ WF_source_vars(LoadPid \/ StopChild \/ JoinWorker)
=============================================================================
