-------------------------------- MODULE Service --------------------------------
(***************************************************************************)
(* The process around the application: main with its command line, its     *)
(* loop and its exit code, and how it is deployed.  Managed, systemd runs  *)
(* the launcher script: companion and log recorder joined by a pipe, with  *)
(* pipefail, restarted on failure.  Otherwise somebody runs it by hand.    *)
(* What a poll does to a flight is in CompanionApplication; here it is     *)
(* only where the flight stands.                                           *)
(***************************************************************************)
EXTENDS LaunchOptions, LogRecorder, UdpTransport, FiniteSets, FiniteSetsExt

CONSTANTS
  CommandLines,         \* typed by hand
  LauncherLines,        \* those of the launcher script
  Senders,              \* of datagrams to the companion's port
  LineSizes,            \* bytes of a line of JSON
  PipeCapacity          \* lines

ASSUME ServiceAssumption ==
  /\ CommandLines \cup LauncherLines \subseteq CommandLine
  /\ NoPeer \notin Senders
  /\ LineSizes \subseteq Nat \ {0}
  /\ \E longest \in LineSizes : \A size \in LineSizes : size <= longest
  /\ PipeCapacity \in Nat \ {0}

VARIABLES
  line,
  managed,
  unit,                 \* of systemd: starting, active, stopped
  stop_requested,       \* systemctl stop, SIGINT or the quit key
  present,              \* the serial device
  quiet,                \* nothing goes wrong any more outside the programs
  process,              \* off, starting, running, or printing a snapshot
  exit_code,            \* of the last process
  keep_running,
  snapshot_due,         \* now >= next_snapshot
  peer,                 \* of the UDP transport
  flight,               \* phase of the autonomy, or disabled
  pipe,                 \* sizes of the lines in it
  recorder,             \* program counter, its open file, and for the
                        \* properties: every line so far was the newest
  recorder_failed,      \* the last recorder did not end by itself
  logs

unit_vars == <<line, managed, unit, stop_requested, present, quiet>>

process_vars == <<process, exit_code, keep_running, snapshot_due, peer, flight>>

recorder_vars == <<pipe, recorder, recorder_failed, logs>>

service_vars == <<unit_vars, process_vars, recorder_vars>>

NoRecorder == [at |-> "off", open |-> FALSE, active_size |-> 0, in_order |-> TRUE]

NewRecorder == [NoRecorder EXCEPT !.at = "starting"]

Killed == 141        \* by SIGPIPE, as the shell reports it

ServiceInit ==
  /\ managed \in BOOLEAN
  /\ line \in IF managed THEN LauncherLines ELSE CommandLines
  /\ unit = "starting" /\ stop_requested = FALSE
  /\ present \in BOOLEAN /\ quiet = FALSE
  /\ process = "off" /\ exit_code = 0
  /\ keep_running = TRUE /\ snapshot_due = TRUE
  /\ peer = NoPeer /\ flight = "disabled"
  /\ pipe = <<>> /\ recorder = NoRecorder /\ recorder_failed = FALSE
  /\ logs = <<>>

Finished == flight \in {"completed", "failed"}

-----------------------------------------------------------------------------
(***************************************************************************)
(* Starting.  The launcher gives up without a serial device, and systemd   *)
(* tries again; else both programs start.  The files, the address and the  *)
(* baud rate on a command line may be missing or refused, those of the     *)
(* launcher are the package's.                                             *)
(***************************************************************************)
Start ==
  /\ unit = "starting" /\ (managed => present)
  /\ unit' = "active"
  /\ process' = "starting"
  /\ recorder' = IF managed THEN NewRecorder ELSE NoRecorder
  /\ pipe' = <<>>
  /\ UNCHANGED <<line, managed, stop_requested, present, quiet, exit_code,
                 keep_running, snapshot_due, peer, flight, recorder_failed, logs>>

Exit(code) ==
  /\ process' = "off"
  /\ exit_code' = code

(***************************************************************************)
(* main up to its loop: the command line, the motion policy, the terminal, *)
(* transport, files and constructor, each of which may throw.              *)
(***************************************************************************)
Starts(terminal, files) ==
  /\ Accepted(line)
  /\ Given(line, "--interactive") => terminal
  /\ line.transport = "serial" => present
  /\ files \/ managed

Launch(terminal, files) ==
  /\ process = "starting"
  /\ \/ /\ Starts(terminal, files)
        /\ process' = "running"
        /\ snapshot_due' = TRUE
        /\ peer' = NoPeer
        /\ flight' = IF Given(line, "--autonomous") THEN "waiting" ELSE "disabled"
        /\ UNCHANGED <<exit_code, keep_running>>
     \/ /\ ~Starts(terminal, files)
        /\ Exit(1)
        /\ UNCHANGED <<keep_running, snapshot_due, peer, flight>>
  /\ UNCHANGED <<unit_vars, recorder_vars>>

-----------------------------------------------------------------------------
(***************************************************************************)
(* One turn of the loop: keys, poll, and a snapshot if one is due.  Only   *)
(* UDP throws from poll.                                                   *)
(***************************************************************************)
Keys == IF Given(line, "--interactive") THEN {"none", "s", "q"} ELSE {"none"}

RequestStart ==
  /\ MotionOf(line).motion_commands_allowed
  /\ Finished

Advances(from) ==
  CASE from = "waiting" -> {"waiting", "active", "failed"}
    [] from = "active" -> {"active", "completed", "failed"}
    [] OTHER -> {from}

Throws(read, write) ==
  line.transport = "udp" /\ (read.kind = "error" \/ write = "error")

PollLink(key, started, read, write) ==
  /\ peer' = IF line.transport = "udp" THEN UdpRead(peer, read) ELSE peer
  /\ line.transport = "udp" => write \in UdpWriteOutcomes(peer')
  /\ \/ /\ Throws(read, write)
        /\ Exit(1)
        /\ UNCHANGED <<snapshot_due, flight>>
     \/ /\ ~Throws(read, write)
        /\ flight' \in Advances(IF started THEN "waiting" ELSE flight)
        /\ snapshot_due' = (snapshot_due \/ key = "s")
        /\ process' = IF snapshot_due' THEN "printing" ELSE "running"
        /\ UNCHANGED exit_code

Turn(key, read, write, accepted) ==
  /\ process = "running" /\ keep_running
  /\ \/ /\ key = "q"
        /\ Exit(0)
        /\ keep_running' = FALSE /\ stop_requested' = TRUE
        /\ UNCHANGED <<snapshot_due, peer, flight>>
     \/ /\ key # "q"
        /\ accepted => key = "s" /\ RequestStart
        /\ PollLink(key, accepted, read, write)
        /\ UNCHANGED <<keep_running, stop_requested>>
  /\ UNCHANGED <<line, managed, unit, present, quiet, recorder_vars>>

LeaveLoop ==
  /\ process = "running" /\ ~keep_running
  /\ Exit(0)
  /\ UNCHANGED <<keep_running, snapshot_due, peer, flight, unit_vars,
                 recorder_vars>>

(***************************************************************************)
(* The snapshot is printed: into a pipe, once there is room for it.  Then  *)
(* main looks at the flight.  The first mutant leaves with the code of the *)
(* loop's other way out; the second looks for completed flights only.      *)
(***************************************************************************)
ReportsAsStopped(phase) ==
  IF Given(line, "--exit-after-autonomy") /\ phase \in {"completed", "failed"}
  THEN Exit(0) ELSE process' = "running" /\ UNCHANGED exit_code

ReportsCompletion(phase) ==
  IF Given(line, "--exit-after-autonomy") /\ phase = "completed"
  THEN Exit(0) ELSE process' = "running" /\ UNCHANGED exit_code

Reports(phase) ==
  IF Given(line, "--exit-after-autonomy") /\ phase \in {"completed", "failed"}
  THEN Exit(IF phase = "failed" THEN 2 ELSE 0)
  ELSE process' = "running" /\ UNCHANGED exit_code

PrintSnapshot(size) ==
  /\ process = "printing"
  /\ managed => recorder.at # "off" /\ Len(pipe) < PipeCapacity
  /\ pipe' = IF managed THEN Append(pipe, size) ELSE pipe
  /\ Reports(flight)
  /\ snapshot_due' = FALSE
  /\ UNCHANGED <<keep_running, peer, flight, unit_vars, recorder,
                 recorder_failed, logs>>

(***************************************************************************)
(* Nobody reads the pipe any more.  Writing to it raises SIGPIPE, which    *)
(* ends the process; but the web server of the camera preview has set      *)
(* SIGPIPE to be ignored.  Then std::cout fails, main does not look at it, *)
(* and the process goes on without a recorder.                             *)
(***************************************************************************)
IgnoresSigpipe == Given(line, "--camera-preview")

PrintToNobody ==
  /\ process = "printing" /\ managed /\ recorder.at = "off"
  /\ \/ /\ IgnoresSigpipe
        /\ Reports(flight)
        /\ snapshot_due' = FALSE
     \/ /\ ~IgnoresSigpipe
        /\ Exit(Killed)
        /\ UNCHANGED snapshot_due
  /\ UNCHANGED <<keep_running, peer, flight, unit_vars, recorder_vars>>

TimePasses ==
  /\ process = "running" /\ ~snapshot_due
  /\ snapshot_due' = TRUE
  /\ UNCHANGED <<process, exit_code, keep_running, peer, flight, unit_vars,
                 recorder_vars>>

-----------------------------------------------------------------------------
(***************************************************************************)
(* The recorder: rotates when it starts and after every line, and ends     *)
(* with the pipe.                                                          *)
(***************************************************************************)
Rotate ==
  /\ recorder.at \in {"starting", "rotating"}
  /\ recorder' = [recorder EXCEPT !.at = "reading"]
  /\ logs' = Rotated(logs)
  /\ UNCHANGED <<unit_vars, process_vars, pipe, recorder_failed>>

RecordLine(place) ==
  /\ recorder.at = "reading" /\ pipe # <<>>
  /\ LET size == Head(pipe) IN
     /\ place <= Len(Others(logs, recorder, size)) + 1
     /\ logs' = Written(logs, recorder, size, place)
     /\ recorder' = [at |-> "rotating", open |-> TRUE,
                     active_size |-> ActiveSize(recorder, size),
                     in_order |-> recorder.in_order /\ place = 1]
  /\ pipe' = Tail(pipe)
  /\ UNCHANGED <<unit_vars, process_vars, recorder_failed>>

RecorderGone(failed) ==
  /\ recorder' = NoRecorder
  /\ recorder_failed' = failed
  /\ logs' = Closed(logs)
  /\ pipe' = <<>>

RecorderEnds ==
  /\ recorder.at = "reading" /\ pipe = <<>> /\ process = "off"
  /\ RecorderGone(FALSE)
  /\ UNCHANGED <<unit_vars, process_vars>>

RecorderDies ==
  /\ recorder.at # "off" /\ ~quiet
  /\ RecorderGone(TRUE)
  /\ UNCHANGED <<unit_vars, process_vars>>

-----------------------------------------------------------------------------

LauncherFailed(code) == code # 0 \/ recorder_failed

UnitEnds ==
  /\ unit = "active" /\ process = "off" /\ recorder.at = "off"
  /\ unit' = IF managed /\ LauncherFailed(exit_code) /\ ~stop_requested
             THEN "starting" ELSE "stopped"
  /\ UNCHANGED <<line, managed, stop_requested, present, quiet, process_vars,
                 recorder_vars>>

(***************************************************************************)
(* A stop signals every process; by hand, there is one.  One that has not  *)
(* come to its loop yet sees it there.                                     *)
(***************************************************************************)
Stop ==
  /\ unit = "active" /\ ~stop_requested
  /\ stop_requested' = TRUE
  /\ keep_running' = FALSE
  /\ IF recorder.at = "off" THEN UNCHANGED recorder_vars ELSE RecorderGone(TRUE)
  /\ UNCHANGED <<line, managed, unit, present, quiet, process, exit_code,
                 snapshot_due, peer, flight>>

(***************************************************************************)
(* Power is lost and comes back: systemd starts the unit again.            *)
(***************************************************************************)
PowerCycle ==
  /\ managed /\ ~quiet
  /\ unit' = "starting" /\ stop_requested' = FALSE
  /\ process' = "off" /\ exit_code' = 0 /\ keep_running' = TRUE
  /\ RecorderGone(FALSE)
  /\ UNCHANGED <<line, managed, present, quiet, snapshot_due, peer, flight>>

Replug ==
  /\ managed /\ ~quiet
  /\ present' = ~present
  /\ UNCHANGED <<line, managed, unit, stop_requested, quiet, process_vars,
                 recorder_vars>>

BecomeQuiet ==
  /\ ~quiet /\ present
  /\ quiet' = TRUE
  /\ UNCHANGED <<line, managed, unit, stop_requested, present, process_vars,
                 recorder_vars>>

TurnStep ==
  \E key \in Keys, read \in UdpReadOutcomes(Senders),
     write \in {"none", "written", "error"}, accepted \in BOOLEAN :
    Turn(key, read, write, accepted)

LaunchStep == \E terminal, files \in BOOLEAN : Launch(terminal, files)

PrintStep == \E size \in LineSizes : PrintSnapshot(size)

RecordStep == \E place \in 1..(MaxFiles + 1) : RecordLine(place)

Next ==
  \/ Start
  \/ LaunchStep
  \/ TurnStep \/ LeaveLoop
  \/ PrintStep \/ PrintToNobody \/ TimePasses
  \/ Rotate \/ RecordStep \/ RecorderEnds \/ RecorderDies
  \/ UnitEnds
  \/ Stop \/ PowerCycle \/ Replug \/ BecomeQuiet

Spec == ServiceInit /\ [][Next]_service_vars

(***************************************************************************)
(* The programs run, systemd restarts, time passes.                        *)
(***************************************************************************)
FairSpec ==
  /\ Spec
  /\ WF_service_vars(Start) /\ WF_service_vars(UnitEnds)
  /\ WF_service_vars(LaunchStep)
  /\ WF_service_vars(TurnStep) /\ WF_service_vars(LeaveLoop)
  /\ WF_service_vars(PrintStep) /\ WF_service_vars(PrintToNobody)
  /\ WF_service_vars(TimePasses)
  /\ WF_service_vars(Rotate) /\ WF_service_vars(RecordStep)
  /\ WF_service_vars(RecorderEnds)

-----------------------------------------------------------------------------
(***************************************************************************)
(* The type invariant.                                                     *)
(***************************************************************************)
ServiceTypeOK ==
  /\ line \in CommandLines \cup LauncherLines
  /\ unit \in {"starting", "active", "stopped"}
  /\ {managed, stop_requested, present, quiet, keep_running, snapshot_due,
      recorder_failed} \subseteq BOOLEAN
  /\ process \in {"off", "starting", "running", "printing"}
  /\ exit_code \in {0, 1, 2, Killed}
  /\ peer \in Senders \cup {NoPeer}
  /\ flight \in {"disabled", "waiting", "active", "completed", "failed"}
  /\ pipe \in UNION {[1..n -> LineSizes] : n \in 0..PipeCapacity}
  /\ recorder.at \in {"off", "starting", "reading", "rotating"}
  /\ recorder.at = "off" => recorder = NoRecorder
  /\ \A i \in DOMAIN logs : logs[i].size \in Nat /\ logs[i].active \in BOOLEAN
  /\ Cardinality(ActiveLogs(logs)) <= 1

(***************************************************************************)
(* The application flies only for somebody who asked for it, over UDP to   *)
(* what he called a simulation, and with all it needs to see the target,   *)
(* although no one of the three checks asks for all of that.               *)
(***************************************************************************)
AutonomyIsEquipped ==
  process \in {"running", "printing"} /\ flight # "disabled" =>
    /\ {"--autonomous", "--sitl", "--camera", "--apriltag",
        "--camera-calibration", "--camera-extrinsics"} \subseteq line.given
    /\ line.transport = "udp"

(***************************************************************************)
(* The exit code tells what happened: 0 only if somebody stopped the       *)
(* process, or a flight it was to exit after has completed; 2 only if one  *)
(* has failed; and that flight, failed, never ends in 0 by itself.         *)
(***************************************************************************)
ExitCodeTells ==
  process = "off" /\ unit = "stopped" =>
    /\ exit_code = 0 /\ ~stop_requested =>
         Given(line, "--exit-after-autonomy") /\ flight = "completed"
    /\ exit_code = 2 => Given(line, "--exit-after-autonomy") /\ flight = "failed"

(***************************************************************************)
(* The log directory is bounded at every moment, over crashes, restarts,   *)
(* power cycles and clocks set back: by one file and one line more than    *)
(* what rotation allows.                                                   *)
(***************************************************************************)
Limit == Max({MaxTotalBytes, MaxFileBytes} \cup LineSizes)

LogsAreBounded ==
  /\ Len(logs) <= MaxFiles + 1
  /\ Total(logs) <= Limit + Max(LineSizes)

(***************************************************************************)
(* The types, with one file being written at most, and the bounds.         *)
(***************************************************************************)
LogInvariant ==
  /\ ServiceTypeOK
  /\ LogsAreBounded

(***************************************************************************)
(* While the clock runs forward, what the recorder writes is on disk: the  *)
(* rotation it makes after every line never removes the file it has open,  *)
(* however large a line is.                                                *)
(***************************************************************************)
ActiveSurvives == recorder.open /\ recorder.in_order => ActiveLogs(logs) # {}


(***************************************************************************)
(* A process that is to exit after its flight does so, or the operator has *)
(* started another one.                                                    *)
(***************************************************************************)
OutcomeIsReported ==
  process = "running" /\ Given(line, "--exit-after-autonomy") /\ Finished
    ~> process = "off" \/ ~Finished
=============================================================================
