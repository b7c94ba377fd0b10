----------------------- MODULE FlightStartupController -----------------------
(***************************************************************************)
(* application/FlightStartupController: from a discovered vehicle to       *)
(* takeoff height.  Each of GUIDED, arm and takeoff is commanded at most   *)
(* MaximumActionAttempts times, and the sequence moves on only when the    *)
(* command was acknowledged and telemetry shows its effect.                *)
(*                                                                         *)
(* The application calls update once per poll, writes the frame update     *)
(* returned, if any, and reports the outcome of the write through          *)
(* on_action_sent before anything else happens; Update is that sequence,   *)
(* with sent the outcome of the write.  The controller is modelled         *)
(* enabled: one that is not stays in phase disabled, where update and      *)
(* on_command_ack return at once.                                          *)
(***************************************************************************)
EXTENDS FlightInterface

VARIABLES
  phase,                     \* FlightStartupPhase
  vehicle_system_id,         \* the vehicle the commands are addressed to
  attempt,                   \* attempts of the current command
  awaiting_ack,
  command_accepted,
  acknowledgement_deadline,
  phase_deadline

vars == <<phase, vehicle_system_id, attempt, awaiting_ack, command_accepted,
          acknowledgement_deadline, phase_deadline>>

CommandPhases == {"setting_guided", "arming", "taking_off"}

Finished == phase \in {"completed", "failed"}

(***************************************************************************)
(* The command a phase sends; outside the command phases none is expected. *)
(***************************************************************************)
ActionOf == [setting_guided |-> "set_guided_mode", arming |-> "arm",
             taking_off |-> "takeoff"]

Expects(action) == phase \in CommandPhases /\ ActionOf[phase] = action

PhaseLimit == [setting_guided |-> ModeChangeTimeout,
               arming |-> ArmingTimeout, taking_off |-> TakeoffTimeout]

Successor == [setting_guided |-> "arming", arming |-> "taking_off"]

-----------------------------------------------------------------------------
Init ==
  /\ phase = "waiting_for_vehicle"
  /\ vehicle_system_id = NoSystem
  /\ attempt = 0
  /\ awaiting_ack = FALSE
  /\ command_accepted = FALSE
  /\ acknowledgement_deadline = 0
  /\ phase_deadline = 0

Restart ==
  /\ phase' = "waiting_for_vehicle"
  /\ vehicle_system_id' = NoSystem
  /\ attempt' = 0
  /\ awaiting_ack' = FALSE
  /\ command_accepted' = FALSE
  /\ acknowledgement_deadline' = 0
  /\ phase_deadline' = 0

(***************************************************************************)
(* Mutant: fail() forgets that an acknowledgement is awaited.              *)
(***************************************************************************)
FailStillAwaiting ==
  /\ phase' = "failed"
  /\ command_accepted' = FALSE
  /\ UNCHANGED <<vehicle_system_id, attempt, awaiting_ack,
                 acknowledgement_deadline, phase_deadline>>

(***************************************************************************)
(* fail(); the vehicle, the attempt count and the deadlines are left.      *)
(***************************************************************************)
Fail ==
  /\ phase' = "failed"
  /\ awaiting_ack' = FALSE
  /\ command_accepted' = FALSE
  /\ UNCHANGED <<vehicle_system_id, attempt, acknowledgement_deadline,
                 phase_deadline>>

(***************************************************************************)
(* update_command sends attempt n of the command of phase `in`, and        *)
(* on_action_sent reports the write: a failed write is not waited for, and *)
(* a failed write of the last attempt ends the sequence.                   *)
(***************************************************************************)
Command(in, n, sent) ==
  /\ phase' = IF sent \/ n < MaximumActionAttempts THEN in ELSE "failed"
  /\ attempt' = n
  /\ awaiting_ack' = sent
  /\ command_accepted' = FALSE
  /\ acknowledgement_deadline' = AcknowledgementTimeout

(***************************************************************************)
(* enter_phase for a command phase: the loop in update goes round again    *)
(* and sends the first attempt in the same call.                           *)
(***************************************************************************)
Enter(next, sent) ==
  /\ Command(next, 1, sent)
  /\ phase_deadline' = PhaseLimit[next]

-----------------------------------------------------------------------------
(***************************************************************************)
(* The outcomes of one update.                                             *)
(***************************************************************************)
HeartbeatLost(vehicle) ==
  /\ phase = "waiting_for_readiness" \/ phase \in CommandPhases
  /\ ~vehicle.connected
  /\ Fail

FailsafeLost(vehicle, failsafe_accepted) ==
  /\ phase \in CommandPhases
  /\ vehicle.connected
  /\ ~failsafe_accepted
  /\ Fail

Ready(vehicle, telemetry_ready, failsafe_accepted) ==
  /\ telemetry_ready
  /\ vehicle.armable
  /\ ~vehicle.armed
  /\ failsafe_accepted
  /\ vehicle.altitude # "unknown"

RejectVehicle(vehicle) ==
  /\ phase = "waiting_for_vehicle"
  /\ vehicle.connected
  /\ ~vehicle.multicopter
  /\ Fail

AdoptVehicle(vehicle, telemetry_ready, failsafe_accepted, sent) ==
  /\ phase = "waiting_for_vehicle"
  /\ vehicle.connected
  /\ vehicle.multicopter
  /\ vehicle_system_id' = vehicle.system_id
  /\ \/ /\ Ready(vehicle, telemetry_ready, failsafe_accepted)
        /\ Enter("setting_guided", sent)
     \/ /\ ~Ready(vehicle, telemetry_ready, failsafe_accepted)
        /\ phase' = "waiting_for_readiness"
        /\ attempt' = 0
        /\ awaiting_ack' = FALSE
        /\ command_accepted' = FALSE
        /\ phase_deadline' = ReadinessTimeout
        /\ UNCHANGED acknowledgement_deadline

ReadinessTimedOut(vehicle) ==
  /\ phase = "waiting_for_readiness"
  /\ vehicle.connected
  /\ phase_deadline = 0
  /\ Fail

BecomeReady(vehicle, telemetry_ready, failsafe_accepted, sent) ==
  /\ phase = "waiting_for_readiness"
  /\ vehicle.connected
  /\ phase_deadline > 0
  /\ Ready(vehicle, telemetry_ready, failsafe_accepted)
  /\ Enter("setting_guided", sent)
  /\ UNCHANGED vehicle_system_id

(***************************************************************************)
(* Mutant: the failsafe verdict is checked before the first command only.  *)
(***************************************************************************)
CommandingUnverified(vehicle, failsafe_accepted) ==
  /\ phase \in CommandPhases
  /\ vehicle.connected

(***************************************************************************)
(* An update in a command phase that got past the two common checks.       *)
(***************************************************************************)
Commanding(vehicle, failsafe_accepted) ==
  /\ phase \in CommandPhases
  /\ vehicle.connected
  /\ failsafe_accepted

(***************************************************************************)
(* Telemetry shows the effect of the command of the current phase.         *)
(***************************************************************************)
Effective(vehicle) ==
  \/ phase = "setting_guided" /\ vehicle.guided
  \/ phase = "arming" /\ vehicle.armed
  \/ phase = "taking_off" /\ vehicle.armed /\ vehicle.altitude = "target"

Confirmed(vehicle) == command_accepted /\ Effective(vehicle)

Advance(vehicle, failsafe_accepted, sent) ==
  /\ Commanding(vehicle, failsafe_accepted)
  /\ phase # "taking_off"
  /\ Confirmed(vehicle)
  /\ Enter(Successor[phase], sent)
  /\ UNCHANGED vehicle_system_id

Complete(vehicle, failsafe_accepted) ==
  /\ Commanding(vehicle, failsafe_accepted)
  /\ phase = "taking_off"
  /\ Confirmed(vehicle)
  /\ phase' = "completed"
  /\ attempt' = 0
  /\ awaiting_ack' = FALSE
  /\ UNCHANGED <<vehicle_system_id, command_accepted,
                 acknowledgement_deadline, phase_deadline>>

DisarmedInTakeoff(vehicle, failsafe_accepted) ==
  /\ Commanding(vehicle, failsafe_accepted)
  /\ phase = "taking_off"
  /\ ~vehicle.armed
  /\ command_accepted
  /\ Fail

PhaseTimedOut(vehicle, failsafe_accepted) ==
  /\ Commanding(vehicle, failsafe_accepted)
  /\ ~Confirmed(vehicle)
  /\ phase_deadline = 0
  /\ Fail

(***************************************************************************)
(* update_command goes on to a new attempt: none is accepted, none pending. *)
(***************************************************************************)
AttemptDue(vehicle, failsafe_accepted) ==
  /\ Commanding(vehicle, failsafe_accepted)
  /\ phase_deadline > 0
  /\ ~command_accepted
  /\ awaiting_ack => acknowledgement_deadline = 0

(***************************************************************************)
(* Mutant: the attempts are not counted against their maximum.             *)
(***************************************************************************)
RetryUnbounded(vehicle, failsafe_accepted, sent) ==
  /\ AttemptDue(vehicle, failsafe_accepted)
  /\ Command(phase, attempt + 1, sent)
  /\ UNCHANGED <<vehicle_system_id, phase_deadline>>

Retry(vehicle, failsafe_accepted, sent) ==
  /\ AttemptDue(vehicle, failsafe_accepted)
  /\ attempt < MaximumActionAttempts
  /\ Command(phase, attempt + 1, sent)
  /\ UNCHANGED <<vehicle_system_id, phase_deadline>>

AttemptsExhausted(vehicle, failsafe_accepted) ==
  /\ AttemptDue(vehicle, failsafe_accepted)
  /\ attempt >= MaximumActionAttempts
  /\ Fail

(***************************************************************************)
(* update changes nothing: the sequence is over, or it goes on waiting.    *)
(***************************************************************************)
Waiting(vehicle, telemetry_ready, failsafe_accepted) ==
  \/ Finished
  \/ phase = "waiting_for_vehicle" /\ ~vehicle.connected
  \/ /\ phase = "waiting_for_readiness"
     /\ vehicle.connected
     /\ phase_deadline > 0
     /\ ~Ready(vehicle, telemetry_ready, failsafe_accepted)
  \/ /\ Commanding(vehicle, failsafe_accepted)
     /\ ~Confirmed(vehicle)
     /\ ~(phase = "taking_off" /\ ~vehicle.armed /\ command_accepted)
     /\ phase_deadline > 0
     /\ command_accepted \/ (awaiting_ack /\ acknowledgement_deadline > 0)

Wait(vehicle, telemetry_ready, failsafe_accepted) ==
  /\ Waiting(vehicle, telemetry_ready, failsafe_accepted)
  /\ UNCHANGED vars

Update(vehicle, telemetry_ready, failsafe_accepted, sent) ==
  \/ HeartbeatLost(vehicle)
  \/ FailsafeLost(vehicle, failsafe_accepted)
  \/ RejectVehicle(vehicle)
  \/ AdoptVehicle(vehicle, telemetry_ready, failsafe_accepted, sent)
  \/ ReadinessTimedOut(vehicle)
  \/ BecomeReady(vehicle, telemetry_ready, failsafe_accepted, sent)
  \/ Advance(vehicle, failsafe_accepted, sent)
  \/ Complete(vehicle, failsafe_accepted)
  \/ DisarmedInTakeoff(vehicle, failsafe_accepted)
  \/ PhaseTimedOut(vehicle, failsafe_accepted)
  \/ Retry(vehicle, failsafe_accepted, sent)
  \/ AttemptsExhausted(vehicle, failsafe_accepted)
  \/ Wait(vehicle, telemetry_ready, failsafe_accepted)

-----------------------------------------------------------------------------
(***************************************************************************)
(* on_command_ack.                                                         *)
(***************************************************************************)
AckMatches(action, source_system) ==
  /\ Expects(action)
  /\ awaiting_ack
  /\ vehicle_system_id # NoSystem
  /\ source_system = vehicle_system_id

AckAccepted(action, source_system) ==
  /\ AckMatches(action, source_system)
  /\ awaiting_ack' = FALSE
  /\ command_accepted' = TRUE
  /\ UNCHANGED <<phase, vehicle_system_id, attempt, acknowledgement_deadline,
                 phase_deadline>>

(***************************************************************************)
(* Mutant: progress renews the deadline of the phase as well.              *)
(***************************************************************************)
AckInProgressRenewing(action, source_system) ==
  /\ AckMatches(action, source_system)
  /\ acknowledgement_deadline' = AcknowledgementTimeout
  /\ phase_deadline' = PhaseLimit[phase]
  /\ UNCHANGED <<phase, vehicle_system_id, attempt, awaiting_ack,
                 command_accepted>>

AckInProgress(action, source_system) ==
  /\ AckMatches(action, source_system)
  /\ acknowledgement_deadline' = AcknowledgementTimeout
  /\ UNCHANGED <<phase, vehicle_system_id, attempt, awaiting_ack,
                 command_accepted, phase_deadline>>

AckRejected(action, source_system) ==
  /\ AckMatches(action, source_system)
  /\ Fail

AckIgnored(action, source_system) ==
  /\ ~AckMatches(action, source_system)
  /\ UNCHANGED vars

OnCommandAck(action, outcome, source_system) ==
  \/ outcome = "accepted" /\ AckAccepted(action, source_system)
  \/ outcome = "in_progress" /\ AckInProgress(action, source_system)
  \/ outcome = "rejected" /\ AckRejected(action, source_system)
  \/ AckIgnored(action, source_system)

(***************************************************************************)
(* The passage of one tick, as this controller's deadlines see it.         *)
(***************************************************************************)
Tick ==
  /\ acknowledgement_deadline' = Elapse(acknowledgement_deadline)
  /\ phase_deadline' = Elapse(phase_deadline)
  /\ UNCHANGED <<phase, vehicle_system_id, attempt, awaiting_ack,
                 command_accepted>>

(***************************************************************************)
(* The command frame that a step put on the link, as a set of at most one. *)
(***************************************************************************)
CommandsSent ==
  IF /\ awaiting_ack' /\ phase' \in CommandPhases
     /\ <<phase, attempt>>' # <<phase, attempt>>
    THEN {[action |-> ActionOf[phase'], system |-> vehicle_system_id']}
    ELSE {}

-----------------------------------------------------------------------------
(***************************************************************************)
(* The controller on its own: any snapshot, any acknowledgement from any   *)
(* system at any moment, and a restart once the sequence is over, which is *)
(* the only time the application asks for one.  The invariants below are   *)
(* proved of it; CompanionApplication checks them under a poll's inputs.   *)
(***************************************************************************)
UpdateStep ==
  \E vehicle \in Snapshots, telemetry_ready, failsafe_accepted, sent \in BOOLEAN :
    Update(vehicle, telemetry_ready, failsafe_accepted, sent)

AckStep ==
  \E action \in Actions, outcome \in Outcomes, source \in Systems :
    OnCommandAck(action, outcome, source)

RestartStep == Finished /\ Restart

Next == UpdateStep \/ AckStep \/ RestartStep \/ Tick

Spec == Init /\ [][Next]_vars

-----------------------------------------------------------------------------
Phases == {"waiting_for_vehicle", "waiting_for_readiness", "completed",
           "failed"} \cup CommandPhases

(***************************************************************************)
(* The type invariant.                                                     *)
(***************************************************************************)
TypeOK ==
  /\ phase \in Phases
  /\ vehicle_system_id \in Systems \cup {NoSystem}
  /\ attempt \in 0..MaximumActionAttempts
  /\ awaiting_ack \in BOOLEAN
  /\ command_accepted \in BOOLEAN
  /\ acknowledgement_deadline \in Timer(AcknowledgementTimeout)
  /\ phase_deadline \in Nat

(***************************************************************************)
(* on_command_ack credits an acknowledgement to whatever is awaited, so an *)
(* acknowledgement may be awaited only for a command of the current phase  *)
(* that was really sent, to a vehicle that was adopted, and that is not    *)
(* accepted already; and an accepted command is one this phase has sent.   *)
(***************************************************************************)
AwaitedIsOutstanding ==
  /\ awaiting_ack => /\ phase \in CommandPhases
                     /\ ~command_accepted
                     /\ attempt > 0
  /\ command_accepted => \/ phase \in CommandPhases /\ attempt > 0
                         \/ phase = "completed"
  /\ phase \notin {"waiting_for_vehicle", "failed"} =>
       vehicle_system_id # NoSystem
=============================================================================
