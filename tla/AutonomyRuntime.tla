--------------------------- MODULE AutonomyRuntime ---------------------------
(***************************************************************************)
(* application/AutonomyRuntime with the DecisionEngine and the             *)
(* SafetySupervisor it consults: after takeoff, streams LANDING_TARGET     *)
(* while a fresh vision target is approved, requests LAND after a warm-up  *)
(* of continuous target, or after the target has been missing too long,    *)
(* and follows the descent until telemetry shows the vehicle disarmed.     *)
(*                                                                         *)
(* Update is update together with the writes and the on_action_sent calls  *)
(* the application makes for each frame it returned: target_sent and       *)
(* land_sent are the outcomes of those writes.                             *)
(***************************************************************************)
EXTENDS FlightInterface

VARIABLES
  phase,                         \* AutonomyRuntimePhase
  motion_safety_status,          \* the last verdict of the supervisor
  vehicle_system_id,
  land_command_after,            \* Unset without a continuous target
  target_missing_since,          \* time left until the loss is too long
  next_landing_target,
  acknowledgement_deadline,
  landing_deadline,
  land_attempt,
  awaiting_land_ack,
  vision_landing_target_active   \* the last LANDING_TARGET went out

land_vars == <<land_attempt, awaiting_land_ack, acknowledgement_deadline>>

target_vars == <<land_command_after, target_missing_since,
                 next_landing_target>>

vars == <<phase, motion_safety_status, vehicle_system_id, land_vars,
          target_vars, landing_deadline, vision_landing_target_active>>

Finished == phase \in {"completed", "failed"}

-----------------------------------------------------------------------------
Init ==
  /\ phase = "waiting_for_startup"
  /\ motion_safety_status = "no_intent"
  /\ vehicle_system_id = NoSystem
  /\ land_command_after = Unset
  /\ target_missing_since = Unset
  /\ next_landing_target = 0
  /\ acknowledgement_deadline = 0
  /\ landing_deadline = 0
  /\ land_attempt = 0
  /\ awaiting_land_ack = FALSE
  /\ vision_landing_target_active = FALSE

Restart ==
  /\ phase' = "waiting_for_startup"
  /\ motion_safety_status' = "no_intent"
  /\ vehicle_system_id' = NoSystem
  /\ land_command_after' = Unset
  /\ target_missing_since' = Unset
  /\ next_landing_target' = 0
  /\ acknowledgement_deadline' = 0
  /\ landing_deadline' = 0
  /\ land_attempt' = 0
  /\ awaiting_land_ack' = FALSE
  /\ vision_landing_target_active' = FALSE

(***************************************************************************)
(* Mutant: fail() forgets that an acknowledgement is awaited.              *)
(***************************************************************************)
FailStillAwaiting ==
  /\ phase' = "failed"
  /\ vision_landing_target_active' = FALSE
  /\ UNCHANGED awaiting_land_ack

(***************************************************************************)
(* fail().                                                                 *)
(***************************************************************************)
Fail ==
  /\ phase' = "failed"
  /\ awaiting_land_ack' = FALSE
  /\ vision_landing_target_active' = FALSE

-----------------------------------------------------------------------------
(***************************************************************************)
(* DecisionEngine::decide followed by SafetySupervisor::supervise, on the  *)
(* world of this update.  A landing target is "none", "invalid" (not       *)
(* finite, or not below the vehicle) or "valid".  The intent is created    *)
(* and judged at the same instant, so it is never a stale one.             *)
(***************************************************************************)
Targets == {"none", "invalid", "valid"}

Supervise(vehicle, landing_target) ==
  CASE vehicle.system_id = NoSystem \/ landing_target = "none" -> "no_intent"
    [] ~vehicle.connected -> "flight_controller_disconnected"
    [] ~vehicle.armed -> "vehicle_disarmed"
    [] landing_target = "invalid" -> "invalid_target"
    [] OTHER -> "allowed"

-----------------------------------------------------------------------------
(***************************************************************************)
(* Before startup is over.                                                 *)
(***************************************************************************)
WaitForStartup(startup_phase) ==
  /\ phase = "waiting_for_startup"
  /\ startup_phase \notin {"completed", "failed"}
  /\ UNCHANGED vars

StartupFailed(startup_phase) ==
  /\ phase = "waiting_for_startup"
  /\ startup_phase = "failed"
  /\ Fail
  /\ UNCHANGED <<motion_safety_status, vehicle_system_id, land_attempt,
                 acknowledgement_deadline, target_vars, landing_deadline>>

FailsafeMissing(startup_phase, failsafe_accepted) ==
  /\ phase = "waiting_for_startup"
  /\ startup_phase = "completed"
  /\ ~failsafe_accepted
  /\ Fail
  /\ UNCHANGED <<motion_safety_status, vehicle_system_id, land_attempt,
                 acknowledgement_deadline, target_vars, landing_deadline>>

(***************************************************************************)
(* An update that flies: the runtime is active or landing, or this very    *)
(* call activates it.  The values the rest of the call works with:         *)
(***************************************************************************)
Activating(startup_phase, failsafe_accepted) ==
  /\ phase = "waiting_for_startup"
  /\ startup_phase = "completed"
  /\ failsafe_accepted

Flying(startup_phase, failsafe_accepted) ==
  \/ phase \in {"active", "landing"}
  \/ Activating(startup_phase, failsafe_accepted)

FlightPhase == IF phase = "landing" THEN "landing" ELSE "active"

MissingSince == IF phase = "waiting_for_startup"
                  THEN TargetLossLandAfter ELSE target_missing_since

NextTarget == IF phase = "waiting_for_startup" THEN 0 ELSE next_landing_target

LinkLost(vehicle, startup_phase, failsafe_accepted) ==
  /\ Flying(startup_phase, failsafe_accepted)
  /\ ~vehicle.connected \/ ~failsafe_accepted
  /\ Fail
  /\ target_missing_since' = MissingSince
  /\ next_landing_target' = NextTarget
  /\ UNCHANGED <<motion_safety_status, vehicle_system_id, land_attempt,
                 acknowledgement_deadline, land_command_after,
                 landing_deadline>>

Linked(vehicle, startup_phase, failsafe_accepted) ==
  /\ Flying(startup_phase, failsafe_accepted)
  /\ vehicle.connected
  /\ failsafe_accepted
  /\ vehicle_system_id' = vehicle.system_id

Landed(vehicle, startup_phase, failsafe_accepted) ==
  /\ Linked(vehicle, startup_phase, failsafe_accepted)
  /\ phase = "landing"
  /\ ~vehicle.armed
  /\ phase' = "completed"
  /\ vision_landing_target_active' = FALSE
  /\ UNCHANGED <<motion_safety_status, land_vars, target_vars,
                 landing_deadline>>

DisarmedWhileActive(vehicle, startup_phase, failsafe_accepted) ==
  /\ Linked(vehicle, startup_phase, failsafe_accepted)
  /\ FlightPhase = "active"
  /\ ~vehicle.armed
  /\ Fail
  /\ target_missing_since' = MissingSince
  /\ next_landing_target' = NextTarget
  /\ UNCHANGED <<motion_safety_status, land_attempt,
                 acknowledgement_deadline, land_command_after,
                 landing_deadline>>

LandingTimedOut(vehicle, startup_phase, failsafe_accepted) ==
  /\ Linked(vehicle, startup_phase, failsafe_accepted)
  /\ phase = "landing"
  /\ vehicle.armed
  /\ landing_deadline = 0
  /\ Fail
  /\ UNCHANGED <<motion_safety_status, land_attempt,
                 acknowledgement_deadline, target_vars, landing_deadline>>

TouchedDown(vehicle, startup_phase, failsafe_accepted) ==
  /\ Linked(vehicle, startup_phase, failsafe_accepted)
  /\ phase = "landing"
  /\ vehicle.armed
  /\ landing_deadline > 0
  /\ vehicle.altitude = "ground"
  /\ vision_landing_target_active' = FALSE
  /\ UNCHANGED <<phase, motion_safety_status, land_vars, target_vars,
                 landing_deadline>>

(***************************************************************************)
(* The updates that reach a decision cycle.                                *)
(***************************************************************************)
Deciding(vehicle, startup_phase, failsafe_accepted, landing_target) ==
  /\ Linked(vehicle, startup_phase, failsafe_accepted)
  /\ vehicle.armed
  /\ phase = "landing" =>
       landing_deadline > 0 /\ vehicle.altitude # "ground"
  /\ motion_safety_status' = Supervise(vehicle, landing_target)
  /\ UNCHANGED landing_deadline

(***************************************************************************)
(* update_land_command when active, and on_action_sent for the frame.      *)
(***************************************************************************)
LandPending == awaiting_land_ack /\ acknowledgement_deadline > 0

NoLand ==
  /\ phase' = FlightPhase
  /\ UNCHANGED land_vars

LandExhausted ==
  /\ ~LandPending
  /\ land_attempt >= MaximumLandAttempts
  /\ phase' = "failed"
  /\ awaiting_land_ack' = FALSE
  /\ UNCHANGED <<land_attempt, acknowledgement_deadline>>

(***************************************************************************)
(* Mutant: the attempts are not counted against the maximum.               *)
(***************************************************************************)
SendLandUnbounded(land_sent) ==
  /\ ~LandPending
  /\ land_attempt' = land_attempt + 1
  /\ awaiting_land_ack' = land_sent
  /\ acknowledgement_deadline' = LandAckTimeout
  /\ phase' = "active"

SendLand(land_sent) ==
  /\ ~LandPending
  /\ land_attempt < MaximumLandAttempts
  /\ land_attempt' = land_attempt + 1
  /\ awaiting_land_ack' = land_sent
  /\ acknowledgement_deadline' = LandAckTimeout
  /\ phase' = IF land_sent \/ land_attempt' < MaximumLandAttempts
                THEN "active" ELSE "failed"

UpdateLandCommand(land_sent) ==
  \/ LandPending /\ NoLand
  \/ LandExhausted
  \/ SendLand(land_sent)

(***************************************************************************)
(* Mutants: the warm-up of a lost target is kept; the loss is timed from   *)
(* the latest update without a target.                                     *)
(***************************************************************************)
NoTargetStillWarm(vehicle, startup_phase, failsafe_accepted, landing_target, land_sent) ==
  /\ Deciding(vehicle, startup_phase, failsafe_accepted, landing_target)
  /\ Supervise(vehicle, landing_target) # "allowed"
  /\ vision_landing_target_active' = FALSE
  /\ next_landing_target' = 0
  /\ target_missing_since' = IF MissingSince = Unset
                               THEN TargetLossLandAfter ELSE MissingSince
  /\ UNCHANGED land_command_after
  /\ \/ /\ FlightPhase = "landing" \/ target_missing_since' > 0
        /\ NoLand
     \/ /\ FlightPhase = "active" /\ target_missing_since' = 0
        /\ UpdateLandCommand(land_sent)

NoTargetSinceNow(vehicle, startup_phase, failsafe_accepted, landing_target, land_sent) ==
  /\ Deciding(vehicle, startup_phase, failsafe_accepted, landing_target)
  /\ Supervise(vehicle, landing_target) # "allowed"
  /\ vision_landing_target_active' = FALSE
  /\ land_command_after' = Unset
  /\ next_landing_target' = 0
  /\ target_missing_since' = TargetLossLandAfter
  /\ NoLand

(***************************************************************************)
(* Without an approved intent.  The loss lasts from the first such update. *)
(***************************************************************************)
NoTarget(vehicle, startup_phase, failsafe_accepted, landing_target, land_sent) ==
  /\ Deciding(vehicle, startup_phase, failsafe_accepted, landing_target)
  /\ Supervise(vehicle, landing_target) # "allowed"
  /\ vision_landing_target_active' = FALSE
  /\ land_command_after' = Unset
  /\ next_landing_target' = 0
  /\ target_missing_since' = IF MissingSince = Unset
                               THEN TargetLossLandAfter ELSE MissingSince
  /\ \/ /\ FlightPhase = "landing" \/ target_missing_since' > 0
        /\ NoLand
     \/ /\ FlightPhase = "active" /\ target_missing_since' = 0
        /\ UpdateLandCommand(land_sent)

(***************************************************************************)
(* With an approved intent.  The frames are written after the call, the    *)
(* LANDING_TARGET first: its outcome is recorded whatever has happened to  *)
(* the phase meanwhile, unless the LAND write then fails for the last time. *)
(***************************************************************************)
WarmUpStarts == land_command_after = Unset /\ FlightPhase = "active"

TargetDue == WarmUpStarts \/ NextTarget = 0

LandDue == FlightPhase = "active" /\ land_command_after' = 0

LastLandUnsent(land_sent) ==
  /\ LandDue
  /\ ~LandPending
  /\ land_attempt = MaximumLandAttempts - 1
  /\ ~land_sent

Guide(vehicle, startup_phase, failsafe_accepted, landing_target, target_sent, land_sent) ==
  /\ Deciding(vehicle, startup_phase, failsafe_accepted, landing_target)
  /\ Supervise(vehicle, landing_target) = "allowed"
  /\ target_missing_since' = Unset
  /\ land_command_after' = IF WarmUpStarts
                             THEN LandingTargetWarmup ELSE land_command_after
  /\ next_landing_target' = IF TargetDue
                              THEN LandingTargetInterval ELSE NextTarget
  /\ \/ ~LandDue /\ NoLand
     \/ LandDue /\ UpdateLandCommand(land_sent)
  /\ vision_landing_target_active' =
       /\ ~LastLandUnsent(land_sent)
       /\ IF TargetDue
            THEN target_sent
            ELSE phase' # "failed" /\ vision_landing_target_active

Update(vehicle, startup_phase, failsafe_accepted, landing_target, target_sent, land_sent) ==
  \/ Finished /\ UNCHANGED vars
  \/ WaitForStartup(startup_phase)
  \/ StartupFailed(startup_phase)
  \/ FailsafeMissing(startup_phase, failsafe_accepted)
  \/ LinkLost(vehicle, startup_phase, failsafe_accepted)
  \/ Landed(vehicle, startup_phase, failsafe_accepted)
  \/ DisarmedWhileActive(vehicle, startup_phase, failsafe_accepted)
  \/ LandingTimedOut(vehicle, startup_phase, failsafe_accepted)
  \/ TouchedDown(vehicle, startup_phase, failsafe_accepted)
  \/ NoTarget(vehicle, startup_phase, failsafe_accepted, landing_target,
              land_sent)
  \/ Guide(vehicle, startup_phase, failsafe_accepted, landing_target,
           target_sent, land_sent)

-----------------------------------------------------------------------------
(***************************************************************************)
(* on_command_ack.                                                         *)
(***************************************************************************)
AckMatches(action, source_system) ==
  /\ action = "land"
  /\ awaiting_land_ack
  /\ vehicle_system_id # NoSystem
  /\ source_system = vehicle_system_id

AckAccepted(action, source_system) ==
  /\ AckMatches(action, source_system)
  /\ awaiting_land_ack' = FALSE
  /\ phase' = "landing"
  /\ landing_deadline' = LandingTimeout
  /\ UNCHANGED <<motion_safety_status, vehicle_system_id, land_attempt,
                 acknowledgement_deadline, target_vars,
                 vision_landing_target_active>>

AckInProgress(action, source_system) ==
  /\ AckMatches(action, source_system)
  /\ acknowledgement_deadline' = LandAckTimeout
  /\ UNCHANGED <<phase, motion_safety_status, vehicle_system_id,
                 land_attempt, awaiting_land_ack, target_vars,
                 landing_deadline, vision_landing_target_active>>

AckRejected(action, source_system) ==
  /\ AckMatches(action, source_system)
  /\ Fail
  /\ UNCHANGED <<motion_safety_status, vehicle_system_id, land_attempt,
                 acknowledgement_deadline, target_vars, landing_deadline>>

AckIgnored(action, source_system) ==
  /\ ~AckMatches(action, source_system)
  /\ UNCHANGED vars

OnCommandAck(action, outcome, source_system) ==
  \/ outcome = "accepted" /\ AckAccepted(action, source_system)
  \/ outcome = "in_progress" /\ AckInProgress(action, source_system)
  \/ outcome = "rejected" /\ AckRejected(action, source_system)
  \/ AckIgnored(action, source_system)

(***************************************************************************)
(* The passage of one tick, as this runtime's deadlines see it.            *)
(***************************************************************************)
Tick ==
  /\ land_command_after' = Elapse(land_command_after)
  /\ target_missing_since' = Elapse(target_missing_since)
  /\ next_landing_target' = Elapse(next_landing_target)
  /\ acknowledgement_deadline' = Elapse(acknowledgement_deadline)
  /\ landing_deadline' = Elapse(landing_deadline)
  /\ UNCHANGED <<phase, motion_safety_status, vehicle_system_id,
                 land_attempt, awaiting_land_ack,
                 vision_landing_target_active>>

(***************************************************************************)
(* The LAND frame that a step put on the link, as a set of at most one.    *)
(***************************************************************************)
CommandsSent ==
  IF awaiting_land_ack' /\ land_attempt' # land_attempt
    THEN {[action |-> "land", system |-> vehicle_system_id']}
    ELSE {}

-----------------------------------------------------------------------------
(***************************************************************************)
(* The runtime on its own: any snapshot, startup phase and landing target, *)
(* any acknowledgement from any system at any moment, and a restart once   *)
(* the flight is over.  The invariants below are proved of it;             *)
(* CompanionApplication checks them under a poll's inputs.                 *)
(***************************************************************************)
UpdateStep ==
  \E vehicle \in Snapshots,
     startup_phase \in {"waiting_for_vehicle", "completed", "failed"},
     landing_target \in Targets,
     failsafe_accepted, target_sent, land_sent \in BOOLEAN :
    Update(vehicle, startup_phase, failsafe_accepted, landing_target,
           target_sent, land_sent)

AckStep ==
  \E action \in Actions, outcome \in Outcomes, source \in Systems :
    OnCommandAck(action, outcome, source)

RestartStep == Finished /\ Restart

Next == UpdateStep \/ AckStep \/ RestartStep \/ Tick

Spec == Init /\ [][Next]_vars

-----------------------------------------------------------------------------
Phases == {"waiting_for_startup", "active", "landing", "completed", "failed"}

MotionSafetyStatuses ==
  {"no_intent", "flight_controller_disconnected", "vehicle_disarmed",
   "invalid_target", "allowed"}

(***************************************************************************)
(* The type invariant.                                                     *)
(***************************************************************************)
TypeOK ==
  /\ phase \in Phases
  /\ motion_safety_status \in MotionSafetyStatuses
  /\ vehicle_system_id \in Systems \cup {NoSystem}
  /\ land_command_after \in OptionalTimer(LandingTargetWarmup)
  /\ target_missing_since \in OptionalTimer(TargetLossLandAfter)
  /\ next_landing_target \in Timer(LandingTargetInterval)
  /\ acknowledgement_deadline \in Timer(LandAckTimeout)
  /\ landing_deadline \in Timer(LandingTimeout)
  /\ land_attempt \in 0..MaximumLandAttempts
  /\ awaiting_land_ack \in BOOLEAN
  /\ vision_landing_target_active \in BOOLEAN

(***************************************************************************)
(* on_command_ack turns an accepted LAND into phase landing without asking *)
(* which phase it is in, so a LAND may be awaited only while the runtime   *)
(* is active: a late acknowledgement never revives a flight that failed or *)
(* completed, nor restarts the deadline of a landing under way.            *)
(***************************************************************************)
AwaitedLandIsLive ==
  awaiting_land_ack =>
    /\ phase = "active"
    /\ land_attempt > 0
    /\ vehicle_system_id # NoSystem

(***************************************************************************)
(* An active flight is always on its way to a LAND: exactly one of the two *)
(* countdowns, warm-up with a target and loss without one, is running.     *)
(***************************************************************************)
OneCountdownToLand ==
  phase = "active" =>
    ((land_command_after = Unset) # (target_missing_since = Unset))

(***************************************************************************)
(* The supervisor's own checks of the link and of the armed flag are a     *)
(* second line of defence: update has failed the flight before either of   *)
(* them could be what stops a motion.                                      *)
(***************************************************************************)
SupervisorIsBackstop ==
  motion_safety_status \notin
    {"flight_controller_disconnected", "vehicle_disarmed"}
=============================================================================
