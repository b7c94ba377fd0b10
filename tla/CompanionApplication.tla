------------------------- MODULE CompanionApplication -------------------------
(***************************************************************************)
(* application/CompanionApplication, the part that flies: poll() decodes   *)
(* what arrived, takes one snapshot of the vehicle and lets the startup    *)
(* controller and then the autonomy runtime act on it;                     *)
(* request_autonomy_start begins another flight between two polls.         *)
(*                                                                         *)
(* The acknowledgements of one read are handled before the controllers     *)
(* run, at the same instant: from the first of them to the end of the poll *)
(* polling is "reading", and time does not pass meanwhile.                 *)
(*                                                                         *)
(* The link may lose, delay and repeat frames.  A command frame once on    *)
(* the link may therefore be answered at any later time, any number of     *)
(* times or never, with any outcome: commanded is all the link remembers.  *)
(* VehicleState, TelemetryStreamConfigurator, CompanionLinkFailsafe and    *)
(* the camera pipeline are inputs of a poll.                               *)
(***************************************************************************)
EXTENDS FlightInterface

CONSTANT AckOutcomes   \* the outcomes the flight controller answers with

ASSUME AckOutcomesAssumption == AckOutcomes \subseteq Outcomes

VARIABLES
  startup_phase, startup_vehicle, startup_attempt, startup_awaiting_ack,
  startup_accepted, startup_ack_deadline, startup_phase_deadline

VARIABLES
  autonomy_phase, motion_safety_status, autonomy_vehicle, land_command_after,
  target_missing_since, next_landing_target, land_ack_deadline,
  landing_deadline, land_attempt, awaiting_land_ack,
  vision_landing_target_active

VARIABLES
  polling,          \* "done" after a poll, "due" once time has passed since,
                    \* "reading" in a poll that handled acknowledgements
  landing_target,   \* current_landing_target of the last poll
  checked,          \* the vehicle whose failsafe policy it found accepted
  commanded         \* the command frames put on the link so far

Startup == INSTANCE FlightStartupController WITH
  phase <- startup_phase, vehicle_system_id <- startup_vehicle,
  attempt <- startup_attempt, awaiting_ack <- startup_awaiting_ack,
  command_accepted <- startup_accepted,
  acknowledgement_deadline <- startup_ack_deadline,
  phase_deadline <- startup_phase_deadline

Autonomy == INSTANCE AutonomyRuntime WITH
  phase <- autonomy_phase, vehicle_system_id <- autonomy_vehicle,
  acknowledgement_deadline <- land_ack_deadline

app_vars == <<polling, landing_target, checked, commanded>>

vars == <<Startup!vars, Autonomy!vars, app_vars>>

Init ==
  /\ Startup!Init
  /\ Autonomy!Init
  /\ polling = "due"
  /\ landing_target = "none"
  /\ checked = NoSystem
  /\ commanded = {}

(***************************************************************************)
(* The decoder delivers a COMMAND_ACK: both controllers are asked.         *)
(***************************************************************************)
ReceiveAck(command, outcome) ==
  /\ Startup!OnCommandAck(command.action, outcome, command.system)
  /\ Autonomy!OnCommandAck(command.action, outcome, command.system)
  /\ polling' = "reading"
  /\ UNCHANGED <<landing_target, checked, commanded>>

(***************************************************************************)
(* Mutant: the runtime is given the startup snapshot of the previous poll. *)
(***************************************************************************)
PollBehind(vehicle, telemetry_ready, failsafe_accepted, target, command_sent, target_sent) ==
  /\ telemetry_ready \/ failsafe_accepted => vehicle.connected
  /\ Startup!Update(vehicle, telemetry_ready, failsafe_accepted, command_sent)
  /\ Autonomy!Update(vehicle, startup_phase, failsafe_accepted, target,
                     target_sent, command_sent)
  /\ polling' = "done"
  /\ landing_target' = target
  /\ checked' = IF failsafe_accepted THEN vehicle.system_id ELSE NoSystem
  /\ commanded' = commanded \cup Startup!CommandsSent
                            \cup Autonomy!CommandsSent

(***************************************************************************)
(* The rest of a poll.  At most one of the controllers returns a command   *)
(* frame; command_sent says how writing it went, target_sent how writing   *)
(* the LANDING_TARGET went.                                                *)
(***************************************************************************)
Poll(vehicle, telemetry_ready, failsafe_accepted, target, command_sent, target_sent) ==
  /\ telemetry_ready \/ failsafe_accepted => vehicle.connected
  /\ Startup!Update(vehicle, telemetry_ready, failsafe_accepted, command_sent)
  /\ Autonomy!Update(vehicle, startup_phase', failsafe_accepted, target,
                     target_sent, command_sent)
  /\ polling' = "done"
  /\ landing_target' = target
  /\ checked' = IF failsafe_accepted THEN vehicle.system_id ELSE NoSystem
  /\ commanded' = commanded \cup Startup!CommandsSent
                            \cup Autonomy!CommandsSent

(***************************************************************************)
(* Mutant: a start restarts the startup controller alone.                  *)
(***************************************************************************)
RequestStartHalf(vehicle) ==
  /\ polling # "reading"
  /\ vehicle.connected
  /\ ~vehicle.armed
  /\ Startup!Finished
  /\ Autonomy!Finished
  /\ Startup!Restart
  /\ UNCHANGED <<autonomy_phase, motion_safety_status, autonomy_vehicle,
                 land_command_after, target_missing_since, next_landing_target,
                 land_ack_deadline, landing_deadline, land_attempt,
                 awaiting_land_ack, vision_landing_target_active, app_vars>>

(***************************************************************************)
(* request_autonomy_start grants a start: the vehicle is connected and     *)
(* disarmed as far as the application knows, and no flight is under way.   *)
(***************************************************************************)
RequestStart(vehicle) ==
  /\ polling # "reading"
  /\ vehicle.connected
  /\ ~vehicle.armed
  /\ Startup!Finished
  /\ Autonomy!Finished
  /\ Startup!Restart
  /\ Autonomy!Restart
  /\ UNCHANGED app_vars

Tick ==
  /\ polling # "reading"
  /\ Startup!Tick
  /\ Autonomy!Tick
  /\ polling' = "due"
  /\ UNCHANGED <<landing_target, checked, commanded>>

(***************************************************************************)
(* Before GUIDED is commanded and after, the controllers read different    *)
(* parts of a poll's inputs; the parts they do not read are fixed.         *)
(***************************************************************************)
Preflight == startup_phase \in {"waiting_for_vehicle", "waiting_for_readiness"}

Plain(vehicle) == ~vehicle.connected =>
  ~vehicle.multicopter /\ ~vehicle.armed /\ ~vehicle.guided

PreflightSnapshots ==
  {vehicle \in Snapshots : /\ Plain(vehicle)
                           /\ ~vehicle.guided
                           /\ vehicle.altitude \in {"unknown", "ground"}}

FlightSnapshots ==
  {vehicle \in Snapshots : /\ Plain(vehicle)
                           /\ vehicle.connected => vehicle.multicopter
                           /\ ~vehicle.armable
                           /\ vehicle.altitude # "low"}

PreflightPoll ==
  /\ Preflight
  /\ \E vehicle \in PreflightSnapshots,
        telemetry_ready, failsafe_accepted, command_sent \in BOOLEAN :
       Poll(vehicle, telemetry_ready, failsafe_accepted, "none",
            command_sent, FALSE)

FlightPoll ==
  /\ ~Preflight
  /\ \E vehicle \in FlightSnapshots, target \in Autonomy!Targets,
        failsafe_accepted, command_sent, target_sent \in BOOLEAN :
       /\ vehicle.connected /\ startup_phase # "setting_guided" =>
            vehicle.guided
       /\ target_sent => target = "valid"
       /\ Poll(vehicle, vehicle.connected, failsafe_accepted, target,
               command_sent, target_sent)

PollStep == PreflightPoll \/ FlightPoll

AckStep ==
  \E command \in commanded, outcome \in AckOutcomes :
    ReceiveAck(command, outcome)

StartStep == \E vehicle \in FlightSnapshots : RequestStart(vehicle)

Next == PollStep \/ AckStep \/ StartStep \/ Tick

(***************************************************************************)
(* The main loop polls for ever and the clock advances whatever it does;   *)
(* nobody owes an acknowledgement or a start request.  A poll that is due  *)
(* changes polling whatever it reads, so that the fairness of polls does   *)
(* not force anything on the vehicle, the link or the camera.              *)
(***************************************************************************)
Fairness == WF_vars(PollStep) /\ SF_vars(Tick)

Spec == Init /\ [][Next]_vars

FairSpec == Spec /\ Fairness

-----------------------------------------------------------------------------
Commands == [action: Actions, system: Systems]

(***************************************************************************)
(* The type invariant.                                                     *)
(***************************************************************************)
TypeOK ==
  /\ Startup!TypeOK
  /\ Autonomy!TypeOK
  /\ polling \in {"due", "reading", "done"}
  /\ landing_target \in Autonomy!Targets
  /\ checked \in Systems \cup {NoSystem}
  /\ commanded \subseteq Commands

(***************************************************************************)
(* The invariants of the two controllers, under the inputs a poll gives    *)
(* them: an awaited acknowledgement belongs to a command that was sent in  *)
(* the current phase,                                                      *)
(***************************************************************************)
AwaitedIsOutstanding == Startup!AwaitedIsOutstanding

(***************************************************************************)
(* no late acknowledgement of LAND revives a flight that is over,          *)
(***************************************************************************)
AwaitedLandIsLive == Autonomy!AwaitedLandIsLive

(***************************************************************************)
(* an active flight runs one of the two countdowns to LAND,                *)
(***************************************************************************)
OneCountdownToLand == Autonomy!OneCountdownToLand

(***************************************************************************)
(* and the supervisor never is the first to notice a lost link or a        *)
(* disarmed vehicle.                                                       *)
(***************************************************************************)
SupervisorIsBackstop == Autonomy!SupervisorIsBackstop

(***************************************************************************)
(* The two controllers keep step, each reading only the other's phase of   *)
(* the same poll: the runtime flies only over a completed startup, and     *)
(* waits while startup runs.                                               *)
(***************************************************************************)
RuntimeFollowsStartup ==
  /\ ~Startup!Finished => autonomy_phase = "waiting_for_startup"
  /\ startup_phase = "completed" => autonomy_phase # "waiting_for_startup"
  /\ startup_phase = "failed" =>
       autonomy_phase \in {"waiting_for_startup", "failed"}

(***************************************************************************)
(* request_autonomy_start needs both controllers finished, so a flight     *)
(* that failed in one of them must have ended both by the end of the poll; *)
(* otherwise the operator could never start again.                         *)
(***************************************************************************)
FailureEndsBoth ==
  polling # "reading" => (startup_phase = "failed" => autonomy_phase = "failed")

(***************************************************************************)
(* "OnboardAutonomy stops new actions when its input becomes stale": a     *)
(* command frame goes out only in a poll that found the vehicle connected  *)
(* and its failsafe policy accepted, be it a first attempt or a retry.     *)
(***************************************************************************)
CommandsNeedAcceptedFailsafe ==
  [][Startup!CommandsSent \cup Autonomy!CommandsSent # {}
       => checked' # NoSystem]_vars

(***************************************************************************)
(* The application implements FlightPlan, its stage read off the phases.   *)
(***************************************************************************)
Stage ==
  CASE startup_phase \in {"waiting_for_vehicle", "waiting_for_readiness"}
         -> "preparing"
    [] startup_phase = "setting_guided" -> "guiding"
    [] startup_phase = "arming" -> "arming"
    [] startup_phase = "taking_off" -> "climbing"
    [] startup_phase = "failed" \/ autonomy_phase = "failed" -> "aborted"
    [] autonomy_phase = "active" -> "flying"
    [] autonomy_phase = "landing" -> "descending"
    [] autonomy_phase = "completed" -> "landed"
    [] OTHER -> "climbing"

Plan == INSTANCE FlightPlan WITH stage <- Stage

ImplementsFlightPlan == Plan!Spec

(***************************************************************************)
(* Every command is addressed to the vehicle whose identity, telemetry and *)
(* failsafe policy the same poll verified.                                 *)
(***************************************************************************)
CommandsGoToCheckedVehicle ==
  [][\A command \in Startup!CommandsSent \cup Autonomy!CommandsSent :
       command.system = checked']_vars

(***************************************************************************)
(* A vehicle in flight is not left hovering: the runtime either gets LAND  *)
(* accepted or gives up.  It needs the vision target to settle, present or *)
(* absent, and an answer other than "in progress" (AckOutcomes).           *)
(***************************************************************************)
NoIndefiniteHover == autonomy_phase = "active" ~> autonomy_phase # "active"

TargetSettles ==
  <>[](landing_target = "valid") \/ <>[](landing_target # "valid")

(***************************************************************************)
(* Once a vehicle is adopted the startup sequence ends, however the        *)
(* vehicle and the link behave: every phase has a deadline, which progress *)
(* acknowledgements, renewing the acknowledgement deadline, leave alone.   *)
(***************************************************************************)
StartupEnds ==
  startup_phase # "waiting_for_vehicle" ~> Startup!Finished

(***************************************************************************)
(* A flight that adopted a vehicle ends, in landed or in aborted, and then *)
(* both controllers accept another start request: provided the vision      *)
(* target settles and the vehicle does not answer LAND with progress for   *)
(* ever, which would renew the acknowledgement deadline each time.         *)
(***************************************************************************)
ProgressRenews == polling' = "reading" /\ land_ack_deadline' > land_ack_deadline

ProgressStops == <>[][~ProgressRenews]_vars

FlightEnds ==
  TargetSettles /\ ProgressStops =>
    (startup_phase # "waiting_for_vehicle"
       ~> Startup!Finished /\ Autonomy!Finished)
=============================================================================
