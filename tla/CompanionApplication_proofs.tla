---------------------- MODULE CompanionApplication_proofs ----------------------
(***************************************************************************)
(* The invariants of the two controllers, of the application that calls    *)
(* them: every step of CompanionApplication is, to each controller, a call *)
(* of its update or on_command_ack, a restart, a tick or nothing, and the  *)
(* invariants are proved inductive under all of these.                     *)
(***************************************************************************)
EXTENDS CompanionApplication, TLAPS

StartupProofs == INSTANCE FlightStartupController_proofs WITH
  phase <- startup_phase, vehicle_system_id <- startup_vehicle,
  attempt <- startup_attempt, awaiting_ack <- startup_awaiting_ack,
  command_accepted <- startup_accepted,
  acknowledgement_deadline <- startup_ack_deadline,
  phase_deadline <- startup_phase_deadline

AutonomyProofs == INSTANCE AutonomyRuntime_proofs WITH
  phase <- autonomy_phase, vehicle_system_id <- autonomy_vehicle,
  acknowledgement_deadline <- land_ack_deadline

(***************************************************************************)
(* The definitions of a controller are the same in both of its instances.  *)
(***************************************************************************)
LEMMA StartupInvariant ==
  StartupProofs!Invariant <=> Startup!TypeOK /\ Startup!AwaitedIsOutstanding
BY DEF StartupProofs!Invariant, StartupProofs!TypeOK, Startup!TypeOK,
       StartupProofs!Phases, Startup!Phases, StartupProofs!CommandPhases,
       Startup!CommandPhases, StartupProofs!Timer, Startup!Timer,
       StartupProofs!AwaitedIsOutstanding, Startup!AwaitedIsOutstanding

LEMMA StartupFail == StartupProofs!Fail <=> Startup!Fail
BY DEF StartupProofs!Fail, Startup!Fail

LEMMA StartupEnter ==
  ASSUME NEW next, NEW sent
  PROVE  StartupProofs!Enter(next, sent) <=> Startup!Enter(next, sent)
BY DEF StartupProofs!Enter, Startup!Enter, StartupProofs!Command,
       Startup!Command, StartupProofs!PhaseLimit, Startup!PhaseLimit

LEMMA StartupUpdate ==
  ASSUME NEW vehicle, NEW telemetry_ready, NEW failsafe_accepted, NEW sent
  PROVE  StartupProofs!Update(vehicle, telemetry_ready, failsafe_accepted, sent)
           <=> Startup!Update(vehicle, telemetry_ready, failsafe_accepted, sent)
BY StartupFail, StartupEnter
   DEF StartupProofs!Update, Startup!Update,
       StartupProofs!HeartbeatLost, Startup!HeartbeatLost,
       StartupProofs!FailsafeLost, Startup!FailsafeLost,
       StartupProofs!RejectVehicle, Startup!RejectVehicle,
       StartupProofs!AdoptVehicle, Startup!AdoptVehicle,
       StartupProofs!ReadinessTimedOut, Startup!ReadinessTimedOut,
       StartupProofs!BecomeReady, Startup!BecomeReady,
       StartupProofs!Advance, Startup!Advance,
       StartupProofs!Complete, Startup!Complete,
       StartupProofs!DisarmedInTakeoff, Startup!DisarmedInTakeoff,
       StartupProofs!PhaseTimedOut, Startup!PhaseTimedOut,
       StartupProofs!Retry, Startup!Retry,
       StartupProofs!AttemptsExhausted, Startup!AttemptsExhausted,
       StartupProofs!Wait, Startup!Wait,
       StartupProofs!Waiting, Startup!Waiting,
       StartupProofs!Finished, Startup!Finished,
       StartupProofs!vars, Startup!vars,
       StartupProofs!Ready, Startup!Ready,
       StartupProofs!Commanding, Startup!Commanding,
       StartupProofs!CommandPhases, Startup!CommandPhases,
       StartupProofs!Effective, Startup!Effective,
       StartupProofs!Confirmed, Startup!Confirmed,
       StartupProofs!AttemptDue, Startup!AttemptDue,
       StartupProofs!Command, Startup!Command,
       StartupProofs!Successor, Startup!Successor

LEMMA StartupAck ==
  ASSUME NEW action, NEW outcome, NEW source
  PROVE  StartupProofs!OnCommandAck(action, outcome, source)
           <=> Startup!OnCommandAck(action, outcome, source)
BY StartupFail
   DEF StartupProofs!OnCommandAck, Startup!OnCommandAck,
       StartupProofs!AckAccepted, Startup!AckAccepted,
       StartupProofs!AckInProgress, Startup!AckInProgress,
       StartupProofs!AckRejected, Startup!AckRejected,
       StartupProofs!AckIgnored, Startup!AckIgnored,
       StartupProofs!AckMatches, Startup!AckMatches,
       StartupProofs!Expects, Startup!Expects,
       StartupProofs!ActionOf, Startup!ActionOf,
       StartupProofs!CommandPhases, Startup!CommandPhases,
       StartupProofs!vars, Startup!vars

LEMMA StartupRest ==
  /\ StartupProofs!Init <=> Startup!Init
  /\ StartupProofs!Restart <=> Startup!Restart
  /\ StartupProofs!Tick <=> Startup!Tick
  /\ UNCHANGED StartupProofs!vars <=> UNCHANGED Startup!vars
BY DEF StartupProofs!Init, Startup!Init, StartupProofs!Restart,
       Startup!Restart, StartupProofs!Tick, Startup!Tick,
       StartupProofs!Elapse, Startup!Elapse, StartupProofs!vars, Startup!vars

LEMMA AutonomyInvariant ==
  AutonomyProofs!Invariant <=>
    /\ Autonomy!TypeOK
    /\ Autonomy!AwaitedLandIsLive
    /\ Autonomy!OneCountdownToLand
    /\ Autonomy!SupervisorIsBackstop
BY DEF AutonomyProofs!Invariant, AutonomyProofs!TypeOK, Autonomy!TypeOK,
       AutonomyProofs!Phases, Autonomy!Phases,
       AutonomyProofs!MotionSafetyStatuses, Autonomy!MotionSafetyStatuses,
       AutonomyProofs!OptionalTimer, Autonomy!OptionalTimer,
       AutonomyProofs!Timer, Autonomy!Timer,
       AutonomyProofs!Unset, Autonomy!Unset,
       AutonomyProofs!AwaitedLandIsLive, Autonomy!AwaitedLandIsLive,
       AutonomyProofs!OneCountdownToLand, Autonomy!OneCountdownToLand,
       AutonomyProofs!SupervisorIsBackstop, Autonomy!SupervisorIsBackstop

LEMMA AutonomyFail == AutonomyProofs!Fail <=> Autonomy!Fail
BY DEF AutonomyProofs!Fail, Autonomy!Fail

LEMMA AutonomyVars ==
  /\ AutonomyProofs!vars = Autonomy!vars
  /\ AutonomyProofs!land_vars = Autonomy!land_vars
  /\ AutonomyProofs!target_vars = Autonomy!target_vars
BY DEF AutonomyProofs!vars, Autonomy!vars,
       AutonomyProofs!land_vars, Autonomy!land_vars,
       AutonomyProofs!target_vars, Autonomy!target_vars

LEMMA AutonomyUpdate ==
  ASSUME NEW vehicle, NEW phase, NEW failsafe_accepted, NEW target,
         NEW target_sent, NEW land_sent
  PROVE  AutonomyProofs!Update(vehicle, phase, failsafe_accepted, target,
                               target_sent, land_sent)
           <=> Autonomy!Update(vehicle, phase, failsafe_accepted, target,
                               target_sent, land_sent)
BY DEF AutonomyProofs!Update, Autonomy!Update,
       AutonomyProofs!Finished, Autonomy!Finished,
       AutonomyProofs!Fail, Autonomy!Fail,
       AutonomyProofs!WaitForStartup, Autonomy!WaitForStartup,
       AutonomyProofs!StartupFailed, Autonomy!StartupFailed,
       AutonomyProofs!FailsafeMissing, Autonomy!FailsafeMissing,
       AutonomyProofs!LinkLost, Autonomy!LinkLost,
       AutonomyProofs!Landed, Autonomy!Landed,
       AutonomyProofs!DisarmedWhileActive, Autonomy!DisarmedWhileActive,
       AutonomyProofs!LandingTimedOut, Autonomy!LandingTimedOut,
       AutonomyProofs!TouchedDown, Autonomy!TouchedDown,
       AutonomyProofs!NoTarget, Autonomy!NoTarget,
       AutonomyProofs!Guide, Autonomy!Guide,
       AutonomyProofs!Flying, Autonomy!Flying,
       AutonomyProofs!Activating, Autonomy!Activating,
       AutonomyProofs!FlightPhase, Autonomy!FlightPhase,
       AutonomyProofs!MissingSince, Autonomy!MissingSince,
       AutonomyProofs!NextTarget, Autonomy!NextTarget,
       AutonomyProofs!Linked, Autonomy!Linked,
       AutonomyProofs!Deciding, Autonomy!Deciding,
       AutonomyProofs!Supervise, Autonomy!Supervise,
       AutonomyProofs!LandPending, Autonomy!LandPending,
       AutonomyProofs!NoLand, Autonomy!NoLand,
       AutonomyProofs!LandExhausted, Autonomy!LandExhausted,
       AutonomyProofs!SendLand, Autonomy!SendLand,
       AutonomyProofs!UpdateLandCommand, Autonomy!UpdateLandCommand,
       AutonomyProofs!WarmUpStarts, Autonomy!WarmUpStarts,
       AutonomyProofs!TargetDue, Autonomy!TargetDue,
       AutonomyProofs!LandDue, Autonomy!LandDue,
       AutonomyProofs!LastLandUnsent, Autonomy!LastLandUnsent,
       AutonomyProofs!Unset, Autonomy!Unset,
       AutonomyProofs!vars, Autonomy!vars,
       AutonomyProofs!land_vars, Autonomy!land_vars,
       AutonomyProofs!target_vars, Autonomy!target_vars

LEMMA AutonomyAck ==
  ASSUME NEW action, NEW outcome, NEW source
  PROVE  AutonomyProofs!OnCommandAck(action, outcome, source)
           <=> Autonomy!OnCommandAck(action, outcome, source)
BY AutonomyFail, AutonomyVars
   DEF AutonomyProofs!OnCommandAck, Autonomy!OnCommandAck,
       AutonomyProofs!AckAccepted, Autonomy!AckAccepted,
       AutonomyProofs!AckInProgress, Autonomy!AckInProgress,
       AutonomyProofs!AckRejected, Autonomy!AckRejected,
       AutonomyProofs!AckIgnored, Autonomy!AckIgnored,
       AutonomyProofs!AckMatches, Autonomy!AckMatches,
       AutonomyProofs!vars, Autonomy!vars,
       AutonomyProofs!land_vars, Autonomy!land_vars,
       AutonomyProofs!target_vars, Autonomy!target_vars

LEMMA AutonomyRest ==
  /\ AutonomyProofs!Init <=> Autonomy!Init
  /\ AutonomyProofs!Restart <=> Autonomy!Restart
  /\ AutonomyProofs!Tick <=> Autonomy!Tick
  /\ UNCHANGED AutonomyProofs!vars <=> UNCHANGED Autonomy!vars
BY DEF AutonomyProofs!Init, Autonomy!Init, AutonomyProofs!Restart,
       Autonomy!Restart, AutonomyProofs!Tick, Autonomy!Tick,
       AutonomyProofs!Elapse, Autonomy!Elapse,
       AutonomyProofs!Unset, Autonomy!Unset,
       AutonomyProofs!vars, Autonomy!vars,
       AutonomyProofs!land_vars, Autonomy!land_vars,
       AutonomyProofs!target_vars, Autonomy!target_vars

-----------------------------------------------------------------------------
(***************************************************************************)
(* What a step of the application is to each of the controllers.           *)
(***************************************************************************)
SomePoll ==
  \E vehicle \in Snapshots, target \in Autonomy!Targets,
     telemetry_ready, failsafe_accepted, command_sent, target_sent \in BOOLEAN :
    Poll(vehicle, telemetry_ready, failsafe_accepted, target,
         command_sent, target_sent)

LEMMA PollStepIsPoll == PollStep => SomePoll
<1>1. CASE PreflightPoll
  <2>1. PreflightSnapshots \subseteq Snapshots
    BY DEF PreflightSnapshots
  <2>2. "none" \in Autonomy!Targets
    BY DEF Autonomy!Targets
  <2>3. \E vehicle \in PreflightSnapshots,
           telemetry_ready, failsafe_accepted, command_sent,
           target_sent \in BOOLEAN :
          Poll(vehicle, telemetry_ready, failsafe_accepted, "none",
               command_sent, target_sent)
    BY <1>1, Zenon DEF PreflightPoll
  <2> QED
    BY <2>1, <2>2, <2>3 DEF SomePoll
<1>2. CASE FlightPoll
  <2>1. \A vehicle \in FlightSnapshots :
          vehicle \in Snapshots /\ vehicle.connected \in BOOLEAN
    BY DEF FlightSnapshots, Snapshots, Connected, Stale
  <2> QED
    BY <1>2, <2>1 DEF FlightPoll, SomePoll
<1> QED
  BY <1>1, <1>2 DEF PollStep

LEMMA StartupStep == [Next]_vars => StartupProofs!AnyStep
<1> SUFFICES ASSUME [Next]_vars PROVE StartupProofs!AnyStep
  OBVIOUS
<1>1. CASE PollStep
  <2>1. PICK vehicle \in Snapshots :
          \E telemetry_ready, failsafe_accepted, sent \in BOOLEAN :
            Startup!Update(vehicle, telemetry_ready, failsafe_accepted, sent)
    BY <1>1, PollStepIsPoll DEF SomePoll, Poll
  <2>2. vehicle \in StartupProofs!Snapshots
    BY DEF Snapshots, Connected, Stale, Altitudes, StartupProofs!Snapshots,
           StartupProofs!Connected, StartupProofs!Stale,
           StartupProofs!Altitudes
  <2> QED
    BY <2>1, <2>2, StartupUpdate DEF StartupProofs!AnyStep
<1>2. CASE AckStep
  BY <1>2, StartupAck DEF AckStep, ReceiveAck, StartupProofs!AnyStep
<1>3. CASE StartStep
  BY <1>3, StartupRest DEF StartStep, RequestStart, StartupProofs!AnyStep
<1>4. CASE Tick
  BY <1>4, StartupRest DEF Tick, StartupProofs!AnyStep
<1>5. CASE UNCHANGED vars
  BY <1>5, StartupRest DEF vars, StartupProofs!AnyStep
<1> QED
  BY <1>1, <1>2, <1>3, <1>4, <1>5 DEF Next

LEMMA AutonomyStep == [Next]_vars => AutonomyProofs!AnyStep
<1> SUFFICES ASSUME [Next]_vars PROVE AutonomyProofs!AnyStep
  OBVIOUS
<1>1. CASE PollStep
  <2>1. PICK vehicle \in Snapshots :
          \E target \in Autonomy!Targets,
             failsafe_accepted, sent, target_sent \in BOOLEAN :
            Autonomy!Update(vehicle, startup_phase', failsafe_accepted,
                            target, target_sent, sent)
    BY <1>1, PollStepIsPoll DEF SomePoll, Poll
  <2>2. vehicle \in AutonomyProofs!Snapshots
    BY DEF Snapshots, Connected, Stale, Altitudes, AutonomyProofs!Snapshots,
           AutonomyProofs!Connected, AutonomyProofs!Stale,
           AutonomyProofs!Altitudes
  <2> QED
    BY <2>1, <2>2, AutonomyUpdate DEF AutonomyProofs!AnyStep
<1>2. CASE AckStep
  BY <1>2, AutonomyAck DEF AckStep, ReceiveAck, AutonomyProofs!AnyStep
<1>3. CASE StartStep
  BY <1>3, AutonomyRest DEF StartStep, RequestStart, AutonomyProofs!AnyStep
<1>4. CASE Tick
  BY <1>4, AutonomyRest DEF Tick, AutonomyProofs!AnyStep
<1>5. CASE UNCHANGED vars
  BY <1>5, AutonomyRest DEF vars, AutonomyProofs!AnyStep
<1> QED
  BY <1>1, <1>2, <1>3, <1>4, <1>5 DEF Next

LEMMA ControllersInit ==
  Init => StartupProofs!Invariant /\ AutonomyProofs!Invariant
BY StartupRest, AutonomyRest, StartupProofs!InitInvariant,
   AutonomyProofs!InitInvariant, SystemsAssumption,
   StartupLimitsAssumption, RuntimeLimitsAssumption DEF Init

LEMMA ControllersStep ==
  StartupProofs!Invariant /\ AutonomyProofs!Invariant /\ [Next]_vars
    => StartupProofs!Invariant' /\ AutonomyProofs!Invariant'
BY StartupStep, AutonomyStep, StartupProofs!StepInvariant,
   AutonomyProofs!StepInvariant, SystemsAssumption,
   StartupLimitsAssumption, RuntimeLimitsAssumption

LEMMA ControllersCorrect ==
  Spec => [](StartupProofs!Invariant /\ AutonomyProofs!Invariant)
BY ControllersInit, ControllersStep, PTL DEF Spec

-----------------------------------------------------------------------------
(***************************************************************************)
(* An acknowledgement is credited only to a command that was sent in the   *)
(* current phase, to an adopted vehicle, and is not accepted yet           *)
(* (FlightStartupController::on_command_ack).                              *)
(***************************************************************************)
THEOREM AwaitedCorrect == Spec => []AwaitedIsOutstanding
<1>1. StartupProofs!Invariant => AwaitedIsOutstanding
  BY StartupInvariant DEF AwaitedIsOutstanding
<1> QED
  BY <1>1, ControllersCorrect, PTL

(***************************************************************************)
(* A late acknowledgement of LAND revives no flight that failed or         *)
(* completed, and restarts no landing (AutonomyRuntime::on_command_ack).   *)
(***************************************************************************)
THEOREM AwaitedLandCorrect == Spec => []AwaitedLandIsLive
<1>1. AutonomyProofs!Invariant => AwaitedLandIsLive
  BY AutonomyInvariant DEF AwaitedLandIsLive
<1> QED
  BY <1>1, ControllersCorrect, PTL

(***************************************************************************)
(* An active flight runs exactly one of its countdowns to LAND             *)
(* (AutonomyRuntime::update).                                              *)
(***************************************************************************)
THEOREM CountdownCorrect == Spec => []OneCountdownToLand
<1>1. AutonomyProofs!Invariant => OneCountdownToLand
  BY AutonomyInvariant DEF OneCountdownToLand
<1> QED
  BY <1>1, ControllersCorrect, PTL

(***************************************************************************)
(* The supervisor is never the first to notice a lost link or a disarmed   *)
(* vehicle (AutonomyRuntime::update, SafetySupervisor::supervise).         *)
(***************************************************************************)
THEOREM BackstopCorrect == Spec => []SupervisorIsBackstop
<1>1. AutonomyProofs!Invariant => SupervisorIsBackstop
  BY AutonomyInvariant DEF SupervisorIsBackstop
<1> QED
  BY <1>1, ControllersCorrect, PTL

-----------------------------------------------------------------------------
(***************************************************************************)
(* How the phase of each controller moves in an update and on an           *)
(* acknowledgement.                                                        *)
(***************************************************************************)
LEMMA StartupUpdatePhase ==
  ASSUME Startup!Finished,
         NEW vehicle, NEW telemetry_ready, NEW failsafe_accepted, NEW sent,
         Startup!Update(vehicle, telemetry_ready, failsafe_accepted, sent)
  PROVE  startup_phase' = startup_phase
BY DEF Startup!Finished, Startup!Update, Startup!CommandPhases,
       Startup!HeartbeatLost, Startup!FailsafeLost, Startup!RejectVehicle,
       Startup!AdoptVehicle, Startup!ReadinessTimedOut, Startup!BecomeReady,
       Startup!Advance, Startup!Complete, Startup!DisarmedInTakeoff,
       Startup!PhaseTimedOut, Startup!Retry, Startup!AttemptDue,
       Startup!AttemptsExhausted, Startup!Commanding, Startup!Wait,
       Startup!vars

LEMMA StartupAckPhase ==
  ASSUME NEW action, NEW outcome, NEW source,
         Startup!OnCommandAck(action, outcome, source)
  PROVE  \/ startup_phase' = startup_phase
         \/ ~Startup!Finished /\ startup_phase' = "failed"
BY DEF Startup!OnCommandAck, Startup!AckAccepted, Startup!AckInProgress,
       Startup!AckRejected, Startup!AckIgnored, Startup!AckMatches,
       Startup!Expects, Startup!CommandPhases, Startup!Finished,
       Startup!Fail, Startup!vars

LEMMA AutonomyUpdatePhase ==
  ASSUME Autonomy!TypeOK,
         NEW vehicle, NEW phase, NEW failsafe_accepted, NEW target,
         NEW target_sent, NEW land_sent,
         Autonomy!Update(vehicle, phase, failsafe_accepted, target,
                         target_sent, land_sent)
  PROVE  /\ autonomy_phase = "waiting_for_startup"
              /\ phase \notin {"completed", "failed"}
                => autonomy_phase' = "waiting_for_startup"
         /\ phase = "completed" => autonomy_phase' # "waiting_for_startup"
         /\ autonomy_phase = "waiting_for_startup" /\ phase = "failed"
              => autonomy_phase' = "failed"
         /\ autonomy_phase = "failed" => autonomy_phase' = "failed"
<1> USE DEF Autonomy!TypeOK, Autonomy!Phases
<1>1. CASE Autonomy!Finished /\ UNCHANGED Autonomy!vars
  BY <1>1 DEF Autonomy!Finished, Autonomy!vars
<1>2. CASE \/ Autonomy!WaitForStartup(phase)
           \/ Autonomy!StartupFailed(phase)
           \/ Autonomy!FailsafeMissing(phase, failsafe_accepted)
  BY <1>2 DEF Autonomy!WaitForStartup, Autonomy!StartupFailed,
              Autonomy!FailsafeMissing, Autonomy!Fail, Autonomy!vars
<1>3. CASE \/ Autonomy!LinkLost(vehicle, phase, failsafe_accepted)
           \/ Autonomy!Landed(vehicle, phase, failsafe_accepted)
           \/ Autonomy!DisarmedWhileActive(vehicle, phase, failsafe_accepted)
           \/ Autonomy!LandingTimedOut(vehicle, phase, failsafe_accepted)
           \/ Autonomy!TouchedDown(vehicle, phase, failsafe_accepted)
  BY <1>3 DEF Autonomy!LinkLost, Autonomy!Landed,
              Autonomy!DisarmedWhileActive, Autonomy!LandingTimedOut,
              Autonomy!TouchedDown, Autonomy!Linked, Autonomy!Flying,
              Autonomy!Activating, Autonomy!Fail
<1>4. CASE \/ Autonomy!NoTarget(vehicle, phase, failsafe_accepted, target,
                                land_sent)
           \/ Autonomy!Guide(vehicle, phase, failsafe_accepted, target,
                             target_sent, land_sent)
  <2>1. /\ \/ autonomy_phase \in {"active", "landing"}
           \/ autonomy_phase = "waiting_for_startup" /\ phase = "completed"
        /\ \/ Autonomy!NoLand
           \/ Autonomy!UpdateLandCommand(land_sent)
    BY <1>4 DEF Autonomy!NoTarget, Autonomy!Guide, Autonomy!Deciding,
                Autonomy!Linked, Autonomy!Flying, Autonomy!Activating
  <2>2. autonomy_phase' \in {"active", "landing", "failed"}
    BY <2>1 DEF Autonomy!NoLand, Autonomy!UpdateLandCommand,
                Autonomy!LandExhausted, Autonomy!SendLand,
                Autonomy!FlightPhase
  <2> QED
    BY <2>1, <2>2
<1> QED
  BY <1>1, <1>2, <1>3, <1>4 DEF Autonomy!Update

LEMMA AutonomyAckPhase ==
  ASSUME Autonomy!AwaitedLandIsLive, NEW action, NEW outcome, NEW source,
         Autonomy!OnCommandAck(action, outcome, source)
  PROVE  \/ autonomy_phase' = autonomy_phase
         \/ /\ autonomy_phase = "active"
            /\ autonomy_phase' \in {"landing", "failed"}
BY DEF Autonomy!AwaitedLandIsLive, Autonomy!OnCommandAck,
       Autonomy!AckAccepted, Autonomy!AckInProgress, Autonomy!AckRejected,
       Autonomy!AckIgnored, Autonomy!AckMatches, Autonomy!Fail, Autonomy!vars

-----------------------------------------------------------------------------
(***************************************************************************)
(* The two controllers keep step.  Both parts are needed at once: that the *)
(* runtime waits while startup runs makes it fail in the very poll in      *)
(* which startup does.                                                     *)
(***************************************************************************)
InStep == RuntimeFollowsStartup /\ FailureEndsBoth

LEMMA InStepPoll ==
  ASSUME InStep, Autonomy!TypeOK, SomePoll
  PROVE  InStep'
<1>1. PICK vehicle \in Snapshots, target \in Autonomy!Targets,
           telemetry_ready \in BOOLEAN, failsafe_accepted \in BOOLEAN,
           command_sent \in BOOLEAN, target_sent \in BOOLEAN :
        Poll(vehicle, telemetry_ready, failsafe_accepted, target,
             command_sent, target_sent)
  BY DEF SomePoll
<1>2. Startup!Finished => startup_phase' = startup_phase
  BY <1>1, StartupUpdatePhase DEF Poll
<1>3. /\ autonomy_phase = "waiting_for_startup"
           /\ startup_phase' \notin {"completed", "failed"}
             => autonomy_phase' = "waiting_for_startup"
      /\ startup_phase' = "completed"
           => autonomy_phase' # "waiting_for_startup"
      /\ autonomy_phase = "waiting_for_startup" /\ startup_phase' = "failed"
           => autonomy_phase' = "failed"
      /\ autonomy_phase = "failed" => autonomy_phase' = "failed"
  BY <1>1, AutonomyUpdatePhase DEF Poll
<1> QED
  BY <1>2, <1>3 DEF InStep, RuntimeFollowsStartup, FailureEndsBoth,
                    Startup!Finished

LEMMA InStepStep ==
  ASSUME InStep, Autonomy!TypeOK, Autonomy!AwaitedLandIsLive, [Next]_vars
  PROVE  InStep'
<1> USE DEF InStep, RuntimeFollowsStartup, FailureEndsBoth, Startup!Finished
<1>1. CASE PollStep
  BY <1>1, PollStepIsPoll, InStepPoll
<1>2. CASE AckStep
  <2>1. polling' = "reading"
    BY <1>2 DEF AckStep, ReceiveAck
  <2>2. \/ startup_phase' = startup_phase
        \/ ~Startup!Finished /\ startup_phase' = "failed"
    BY <1>2, StartupAckPhase DEF AckStep, ReceiveAck
  <2>3. \/ autonomy_phase' = autonomy_phase
        \/ /\ autonomy_phase = "active"
           /\ autonomy_phase' \in {"landing", "failed"}
    BY <1>2, AutonomyAckPhase DEF AckStep, ReceiveAck
  <2> QED
    BY <2>1, <2>2, <2>3
<1>3. CASE StartStep
  BY <1>3 DEF StartStep, RequestStart, Startup!Restart, Autonomy!Restart
<1>4. CASE Tick
  BY <1>4 DEF Tick, Startup!Tick, Autonomy!Tick
<1>5. CASE UNCHANGED vars
  BY <1>5 DEF vars, app_vars, Startup!vars, Autonomy!vars
<1> QED
  BY <1>1, <1>2, <1>3, <1>4, <1>5 DEF Next

LEMMA InStepCorrect == Spec => []InStep
<1>1. Init => InStep
  BY DEF Init, Startup!Init, Autonomy!Init, InStep, RuntimeFollowsStartup,
         FailureEndsBoth, Startup!Finished
<1>2. AutonomyProofs!Invariant =>
        Autonomy!TypeOK /\ Autonomy!AwaitedLandIsLive
  BY AutonomyInvariant
<1>3. InStep /\ AutonomyProofs!Invariant /\ [Next]_vars => InStep'
  BY <1>2, InStepStep
<1> QED
  BY <1>1, <1>3, ControllersCorrect, PTL DEF Spec

(***************************************************************************)
(* The runtime flies only over a completed startup and waits while startup *)
(* runs (AutonomyRuntime::update is given the snapshot of the startup      *)
(* controller that was updated first, CompanionApplication::poll).         *)
(***************************************************************************)
THEOREM RuntimeFollows == Spec => []RuntimeFollowsStartup
BY InStepCorrect, PTL DEF InStep

(***************************************************************************)
(* A flight that failed in startup has ended in both controllers by the    *)
(* end of the poll, so that request_autonomy_start can grant another.      *)
(***************************************************************************)
THEOREM FailureCorrect == Spec => []FailureEndsBoth
BY InStepCorrect, PTL DEF InStep
-----------------------------------------------------------------------------
(***************************************************************************)
(* A command frame goes out with an update of the controller, and then the *)
(* vehicle is connected and its failsafe policy accepted; it is one of the *)
(* four commands, addressed to a vehicle that was adopted.                 *)
(***************************************************************************)
LEMMA StartupSends ==
  ASSUME NEW vehicle, NEW telemetry_ready, NEW failsafe_accepted, NEW sent,
         Startup!Update(vehicle, telemetry_ready, failsafe_accepted, sent),
         Startup!CommandsSent # {}
  PROVE  failsafe_accepted
BY DEF Startup!Finished, Startup!Update, Startup!CommandPhases,
       Startup!HeartbeatLost, Startup!FailsafeLost, Startup!RejectVehicle,
       Startup!AdoptVehicle, Startup!ReadinessTimedOut, Startup!BecomeReady,
       Startup!Ready, Startup!Advance, Startup!Complete,
       Startup!DisarmedInTakeoff, Startup!PhaseTimedOut, Startup!Retry,
       Startup!AttemptDue, Startup!AttemptsExhausted, Startup!Commanding,
       Startup!Wait, Startup!vars, Startup!Fail, Startup!CommandsSent

LEMMA AutonomySends ==
  ASSUME NEW vehicle, NEW phase, NEW failsafe_accepted, NEW target,
         NEW target_sent, NEW land_sent,
         Autonomy!Update(vehicle, phase, failsafe_accepted, target,
                         target_sent, land_sent),
         Autonomy!CommandsSent # {}
  PROVE  failsafe_accepted
BY DEF Autonomy!Update, Autonomy!WaitForStartup, Autonomy!StartupFailed,
       Autonomy!FailsafeMissing, Autonomy!LinkLost, Autonomy!Landed,
       Autonomy!DisarmedWhileActive, Autonomy!LandingTimedOut,
       Autonomy!TouchedDown, Autonomy!NoTarget, Autonomy!Guide,
       Autonomy!Deciding, Autonomy!Linked, Autonomy!Fail, Autonomy!vars,
       Autonomy!land_vars, Autonomy!CommandsSent

LEMMA QuietSteps ==
  ASSUME Next, ~SomePoll
  PROVE  Startup!CommandsSent = {} /\ Autonomy!CommandsSent = {}
<1>1. CASE AckStep
  <2>1. PICK action, outcome, source :
          /\ Startup!OnCommandAck(action, outcome, source)
          /\ Autonomy!OnCommandAck(action, outcome, source)
    BY <1>1 DEF AckStep, ReceiveAck
  <2>2. Startup!CommandsSent = {}
    BY <2>1 DEF Startup!OnCommandAck, Startup!AckAccepted,
                Startup!AckInProgress, Startup!AckRejected, Startup!AckIgnored,
                Startup!Fail, Startup!vars, Startup!CommandsSent
  <2>3. Autonomy!CommandsSent = {}
    BY <2>1 DEF Autonomy!OnCommandAck, Autonomy!AckAccepted,
                Autonomy!AckInProgress, Autonomy!AckRejected,
                Autonomy!AckIgnored, Autonomy!Fail, Autonomy!vars,
                Autonomy!land_vars, Autonomy!CommandsSent
  <2> QED
    BY <2>2, <2>3
<1>2. CASE StartStep
  BY <1>2 DEF StartStep, RequestStart, Startup!Restart, Autonomy!Restart,
              Startup!CommandsSent, Autonomy!CommandsSent
<1>3. CASE Tick
  BY <1>3 DEF Tick, Startup!Tick, Autonomy!Tick, Startup!CommandsSent,
              Autonomy!CommandsSent
<1> QED
  BY <1>1, <1>2, <1>3, PollStepIsPoll DEF Next

(***************************************************************************)
(* New actions stop when the input is stale: a command frame, be it a      *)
(* first attempt or a retry, goes out only in a poll that found the        *)
(* vehicle connected and its failsafe policy accepted (poll, the checks at *)
(* the head of both update functions).                                     *)
(***************************************************************************)
THEOREM CommandsChecked == Spec => CommandsNeedAcceptedFailsafe
<1> DEFINE Sent == Startup!CommandsSent \cup Autonomy!CommandsSent
<1>1. ASSUME SomePoll, Sent # {} PROVE checked' # NoSystem
  <2>1. PICK vehicle \in Snapshots, target \in Autonomy!Targets,
             telemetry_ready \in BOOLEAN, failsafe_accepted \in BOOLEAN,
             command_sent \in BOOLEAN, target_sent \in BOOLEAN :
          Poll(vehicle, telemetry_ready, failsafe_accepted, target,
               command_sent, target_sent)
    BY <1>1 DEF SomePoll
  <2>2. failsafe_accepted
    BY <1>1, <2>1, StartupSends, AutonomySends DEF Poll
  <2>3. vehicle.connected /\ checked' = vehicle.system_id
    BY <2>1, <2>2 DEF Poll
  <2>4. vehicle.system_id \in Systems
    BY <2>3 DEF Snapshots, Connected, Stale
  <2> QED
    BY <2>3, <2>4, SystemsAssumption
<1>2. Next => (Sent # {} => checked' # NoSystem)
  BY <1>1, QuietSteps
<1>3. [Next]_vars => [Sent # {} => checked' # NoSystem]_vars
  BY <1>2
<1> QED
  BY <1>3, PTL DEF Spec, CommandsNeedAcceptedFailsafe

-----------------------------------------------------------------------------
LEMMA SentCommands ==
  ASSUME Startup!TypeOK', Startup!AwaitedIsOutstanding',
         Autonomy!TypeOK', Autonomy!AwaitedLandIsLive'
  PROVE  /\ Startup!CommandsSent \subseteq Commands
         /\ Autonomy!CommandsSent \subseteq Commands
<1>1. ASSUME startup_awaiting_ack', startup_phase' \in Startup!CommandPhases
      PROVE  /\ Startup!ActionOf[startup_phase'] \in Actions
             /\ startup_vehicle' \in Systems
  BY <1>1 DEF Startup!ActionOf, Startup!CommandPhases, Actions,
              Startup!TypeOK, Startup!AwaitedIsOutstanding
<1>2. ASSUME awaiting_land_ack'
      PROVE  "land" \in Actions /\ autonomy_vehicle' \in Systems
  BY <1>2 DEF Actions, Autonomy!TypeOK, Autonomy!AwaitedLandIsLive
<1> QED
  BY <1>1, <1>2 DEF Startup!CommandsSent, Autonomy!CommandsSent, Commands

(***************************************************************************)
(* The type invariant.  That commanded holds commands to adopted vehicles  *)
(* alone needs the invariants of the controllers.                          *)
(***************************************************************************)
THEOREM TypeCorrect == Spec => []TypeOK
<1> DEFINE Controllers == StartupProofs!Invariant /\ AutonomyProofs!Invariant
<1>1. /\ Controllers => Startup!TypeOK /\ Autonomy!TypeOK
      /\ Controllers' =>
           /\ Startup!TypeOK' /\ Startup!AwaitedIsOutstanding'
           /\ Autonomy!TypeOK' /\ Autonomy!AwaitedLandIsLive'
  BY StartupInvariant, AutonomyInvariant, PTL
<1>2. Init /\ Controllers => TypeOK
  BY <1>1 DEF Init, TypeOK, Autonomy!Targets
<1>3. ASSUME TypeOK, Controllers', [Next]_vars PROVE TypeOK'
  <2>1. Startup!TypeOK' /\ Autonomy!TypeOK'
    BY <1>1, <1>3
  <2>2. CASE PollStep
    <3>1. PICK vehicle \in Snapshots, target \in Autonomy!Targets,
               telemetry_ready \in BOOLEAN, failsafe_accepted \in BOOLEAN,
               command_sent \in BOOLEAN, target_sent \in BOOLEAN :
            Poll(vehicle, telemetry_ready, failsafe_accepted, target,
                 command_sent, target_sent)
      BY <2>2, PollStepIsPoll DEF SomePoll
    <3>2. commanded' \subseteq Commands
      BY <1>1, <1>3, <3>1, SentCommands DEF Poll, TypeOK
    <3>3. checked' \in Systems \cup {NoSystem}
      BY <3>1 DEF Poll, Snapshots, Connected, Stale
    <3> QED
      BY <2>1, <3>1, <3>2, <3>3 DEF Poll, TypeOK
  <2>3. CASE AckStep \/ StartStep \/ Tick \/ UNCHANGED vars
    <3>1. /\ polling' \in {"reading", "due", polling}
          /\ UNCHANGED <<landing_target, checked, commanded>>
      BY <2>3 DEF AckStep, ReceiveAck, StartStep, RequestStart, Tick, vars,
                  app_vars
    <3> QED
      BY <1>3, <2>1, <3>1 DEF TypeOK
  <2> QED
    BY <1>3, <2>2, <2>3 DEF Next
<1> HIDE DEF Controllers
<1>4. Spec => []Controllers
  BY ControllersCorrect DEF Controllers
<1> QED
  BY <1>2, <1>3, <1>4, PTL DEF Spec

-----------------------------------------------------------------------------
(***************************************************************************)
(* The refinement of FlightPlan.  How the phases move, read as pairs:      *)
(***************************************************************************)
StartupMove ==
  \/ startup_phase' = startup_phase
  \/ ~Startup!Finished /\ startup_phase' = "failed"
  \/ Preflight /\ startup_phase' \in {"waiting_for_readiness",
                                       "setting_guided"}
  \/ startup_phase = "setting_guided" /\ startup_phase' = "arming"
  \/ startup_phase = "arming" /\ startup_phase' = "taking_off"
  \/ startup_phase = "taking_off" /\ startup_phase' = "completed"

AutonomyMove ==
  \/ autonomy_phase' = autonomy_phase
  \/ ~Autonomy!Finished /\ autonomy_phase' = "failed"
  \/ autonomy_phase = "waiting_for_startup" /\ autonomy_phase' = "active"
  \/ autonomy_phase = "active" /\ autonomy_phase' = "landing"
  \/ autonomy_phase = "landing" /\ autonomy_phase' = "completed"

LEMMA StartupMoves ==
  ASSUME Startup!TypeOK,
         NEW vehicle, NEW telemetry_ready, NEW failsafe_accepted, NEW sent,
         Startup!Update(vehicle, telemetry_ready, failsafe_accepted, sent)
  PROVE  StartupMove
<1> USE DEF Startup!TypeOK, Startup!Phases, Startup!CommandPhases,
            Startup!Finished, StartupMove, Preflight
<1>1. CASE \/ Startup!HeartbeatLost(vehicle)
           \/ Startup!FailsafeLost(vehicle, failsafe_accepted)
           \/ Startup!RejectVehicle(vehicle)
           \/ Startup!ReadinessTimedOut(vehicle)
           \/ Startup!DisarmedInTakeoff(vehicle, failsafe_accepted)
           \/ Startup!PhaseTimedOut(vehicle, failsafe_accepted)
           \/ Startup!AttemptsExhausted(vehicle, failsafe_accepted)
  BY <1>1 DEF Startup!HeartbeatLost, Startup!FailsafeLost,
              Startup!RejectVehicle, Startup!ReadinessTimedOut,
              Startup!DisarmedInTakeoff, Startup!PhaseTimedOut,
              Startup!AttemptsExhausted, Startup!AttemptDue,
              Startup!Commanding, Startup!Fail
<1>2. CASE \/ Startup!AdoptVehicle(vehicle, telemetry_ready,
                                   failsafe_accepted, sent)
           \/ Startup!BecomeReady(vehicle, telemetry_ready,
                                  failsafe_accepted, sent)
  BY <1>2 DEF Startup!AdoptVehicle, Startup!BecomeReady, Startup!Enter,
              Startup!Command
<1>3. CASE Startup!Advance(vehicle, failsafe_accepted, sent)
  BY <1>3 DEF Startup!Advance, Startup!Commanding, Startup!Enter,
              Startup!Command, Startup!Successor
<1>4. CASE Startup!Complete(vehicle, failsafe_accepted)
  BY <1>4 DEF Startup!Complete
<1>5. CASE Startup!Retry(vehicle, failsafe_accepted, sent)
  BY <1>5 DEF Startup!Retry, Startup!AttemptDue, Startup!Commanding,
              Startup!Command
<1>6. CASE Startup!Wait(vehicle, telemetry_ready, failsafe_accepted)
  BY <1>6 DEF Startup!Wait, Startup!vars
<1> QED
  BY <1>1, <1>2, <1>3, <1>4, <1>5, <1>6 DEF Startup!Update

LEMMA AutonomyMoves ==
  ASSUME Autonomy!TypeOK,
         NEW vehicle, NEW phase, NEW failsafe_accepted, NEW target,
         NEW target_sent, NEW land_sent,
         Autonomy!Update(vehicle, phase, failsafe_accepted, target,
                         target_sent, land_sent)
  PROVE  AutonomyMove
<1> USE DEF Autonomy!TypeOK, Autonomy!Phases, Autonomy!Finished, AutonomyMove
<1>1. CASE Autonomy!Finished /\ UNCHANGED Autonomy!vars
  BY <1>1 DEF Autonomy!vars
<1>2. CASE \/ Autonomy!WaitForStartup(phase)
           \/ Autonomy!StartupFailed(phase)
           \/ Autonomy!FailsafeMissing(phase, failsafe_accepted)
  BY <1>2 DEF Autonomy!WaitForStartup, Autonomy!StartupFailed,
              Autonomy!FailsafeMissing, Autonomy!Fail, Autonomy!vars
<1>3. CASE \/ Autonomy!LinkLost(vehicle, phase, failsafe_accepted)
           \/ Autonomy!Landed(vehicle, phase, failsafe_accepted)
           \/ Autonomy!DisarmedWhileActive(vehicle, phase, failsafe_accepted)
           \/ Autonomy!LandingTimedOut(vehicle, phase, failsafe_accepted)
           \/ Autonomy!TouchedDown(vehicle, phase, failsafe_accepted)
  BY <1>3 DEF Autonomy!LinkLost, Autonomy!Landed,
              Autonomy!DisarmedWhileActive, Autonomy!LandingTimedOut,
              Autonomy!TouchedDown, Autonomy!Linked, Autonomy!Flying,
              Autonomy!Activating, Autonomy!Fail
<1>4. CASE \/ Autonomy!NoTarget(vehicle, phase, failsafe_accepted, target,
                                land_sent)
           \/ Autonomy!Guide(vehicle, phase, failsafe_accepted, target,
                             target_sent, land_sent)
  <2>1. /\ autonomy_phase \in {"waiting_for_startup", "active", "landing"}
        /\ \/ Autonomy!NoLand
           \/ /\ Autonomy!FlightPhase = "active"
              /\ Autonomy!UpdateLandCommand(land_sent)
    BY <1>4 DEF Autonomy!NoTarget, Autonomy!Guide, Autonomy!Deciding,
                Autonomy!Linked, Autonomy!Flying, Autonomy!Activating,
                Autonomy!LandDue
  <2> QED
    BY <2>1 DEF Autonomy!NoLand, Autonomy!UpdateLandCommand,
                Autonomy!LandExhausted, Autonomy!SendLand,
                Autonomy!FlightPhase
<1> QED
  BY <1>1, <1>2, <1>3, <1>4 DEF Autonomy!Update

(***************************************************************************)
(* The stage that a pair of phases stands for; the arms do not overlap for *)
(* the pairs that RuntimeFollowsStartup allows.                            *)
(***************************************************************************)
StageOf(startup, autonomy) ==
  CASE startup \in {"waiting_for_vehicle", "waiting_for_readiness"}
         -> "preparing"
    [] startup = "setting_guided" -> "guiding"
    [] startup = "arming" -> "arming"
    [] startup = "taking_off" -> "climbing"
    [] startup = "failed" \/ autonomy = "failed" -> "aborted"
    [] autonomy = "active" -> "flying"
    [] autonomy = "landing" -> "descending"
    [] autonomy = "completed" -> "landed"
    [] OTHER -> "climbing"

LEMMA StageIsStageOf ==
  /\ Stage = StageOf(startup_phase, autonomy_phase)
  /\ Stage' = StageOf(startup_phase', autonomy_phase')
BY DEF Stage, StageOf

LEMMA StageOfCases ==
  ASSUME NEW startup, NEW autonomy,
         startup \notin {"completed", "failed"}
           => autonomy = "waiting_for_startup",
         startup = "failed"
           => autonomy \in {"waiting_for_startup", "failed"}
  PROVE  /\ startup \in {"waiting_for_vehicle", "waiting_for_readiness"}
              => StageOf(startup, autonomy) = "preparing"
         /\ startup = "setting_guided"
              => StageOf(startup, autonomy) = "guiding"
         /\ startup = "arming" => StageOf(startup, autonomy) = "arming"
         /\ startup = "taking_off" => StageOf(startup, autonomy) = "climbing"
         /\ startup = "failed" => StageOf(startup, autonomy) = "aborted"
         /\ startup = "completed" =>
              /\ autonomy = "failed" => StageOf(startup, autonomy) = "aborted"
              /\ autonomy = "active" => StageOf(startup, autonomy) = "flying"
              /\ autonomy = "landing"
                   => StageOf(startup, autonomy) = "descending"
              /\ autonomy = "completed"
                   => StageOf(startup, autonomy) = "landed"
BY DEF StageOf

LEMMA StageStep ==
  ASSUME Startup!TypeOK, Autonomy!TypeOK, RuntimeFollowsStartup,
         RuntimeFollowsStartup', StartupMove, AutonomyMove
  PROVE  Plan!Progress \/ Plan!Abort \/ Plan!Renew \/ UNCHANGED Stage
<1> DEFINE before == StageOf(startup_phase, autonomy_phase)
           after == StageOf(startup_phase', autonomy_phase')
<1> USE DEF Startup!TypeOK, Startup!Phases, Startup!CommandPhases,
            Startup!Finished, Autonomy!TypeOK, Autonomy!Phases,
            Autonomy!Finished, RuntimeFollowsStartup, Preflight
<1>1. \/ before = after
      \/ before \notin {"landed", "aborted"} /\ after = "aborted"
      \/ before = "preparing" /\ after = "guiding"
      \/ before = "guiding" /\ after = "arming"
      \/ before = "arming" /\ after = "climbing"
      \/ before = "climbing" /\ after = "flying"
      \/ before = "flying" /\ after = "descending"
      \/ before = "descending" /\ after = "landed"
  <2>1. CASE startup_phase' = startup_phase
    BY <2>1, StageOfCases DEF AutonomyMove
  <2>2. CASE startup_phase' # startup_phase
    <3>1. autonomy_phase = "waiting_for_startup"
      BY <2>2 DEF StartupMove
    <3>2. autonomy_phase' \in {"waiting_for_startup", "active", "failed"}
      BY <3>1 DEF AutonomyMove
    <3> QED
      BY <2>2, <3>1, <3>2, StageOfCases DEF StartupMove
  <2> QED
    BY <2>1, <2>2
<1> QED
  BY <1>1, StageIsStageOf DEF Plan!Progress, Plan!Abort, Plan!FollowedBy,
                             Plan!Over

(***************************************************************************)
(* What is sent belongs to the stage the step ends in: an awaited command  *)
(* is of the current phase, and only one controller awaits any.            *)
(***************************************************************************)
LEMMA SendStep ==
  ASSUME Startup!TypeOK', Startup!AwaitedIsOutstanding',
         Autonomy!TypeOK', Autonomy!AwaitedLandIsLive',
         RuntimeFollowsStartup',
         commanded' = commanded \cup Startup!CommandsSent
                                \cup Autonomy!CommandsSent
  PROVE  Plan!Send
<1>1. CASE Startup!CommandsSent = {} /\ Autonomy!CommandsSent = {}
  BY <1>1 DEF Plan!Send
<1>2. CASE Startup!CommandsSent # {}
  <2>1. /\ startup_awaiting_ack'
        /\ startup_phase' \in Startup!CommandPhases
        /\ Startup!CommandsSent = {[action |-> Startup!ActionOf[startup_phase'],
                                    system |-> startup_vehicle']}
    BY <1>2 DEF Startup!CommandsSent
  <2>2. startup_vehicle' \in Systems
    BY <2>1 DEF Startup!TypeOK, Startup!AwaitedIsOutstanding,
                Startup!CommandPhases
  <2>3. autonomy_phase' = "waiting_for_startup"
    BY <2>1 DEF RuntimeFollowsStartup, Startup!Finished,
                Startup!CommandPhases
  <2>4. Autonomy!CommandsSent = {}
    BY <2>3 DEF Autonomy!CommandsSent, Autonomy!AwaitedLandIsLive
  <2>5. /\ Stage' \in DOMAIN Plan!CommandOf
        /\ Plan!CommandOf[Stage'] = Startup!ActionOf[startup_phase']
    BY <2>1, <2>3, StageIsStageOf, StageOfCases
       DEF Startup!CommandPhases, Startup!ActionOf, Plan!CommandOf
  <2> QED
    BY <2>1, <2>2, <2>4, <2>5 DEF Plan!Send
<1>3. CASE Startup!CommandsSent = {} /\ Autonomy!CommandsSent # {}
  <2>1. /\ awaiting_land_ack'
        /\ Autonomy!CommandsSent = {[action |-> "land",
                                     system |-> autonomy_vehicle']}
    BY <1>3 DEF Autonomy!CommandsSent
  <2>2. autonomy_phase' = "active" /\ autonomy_vehicle' \in Systems
    BY <2>1 DEF Autonomy!TypeOK, Autonomy!AwaitedLandIsLive
  <2>3. startup_phase' = "completed"
    BY <2>2 DEF RuntimeFollowsStartup, Startup!Finished
  <2>4. Stage' = "flying"
    BY <2>2, <2>3, StageIsStageOf, StageOfCases
  <2> QED
    BY <1>3, <2>1, <2>2, <2>4 DEF Plan!Send, Plan!CommandOf
<1> QED
  BY <1>1, <1>2, <1>3

LEMMA PlanStep ==
  ASSUME Startup!TypeOK, Startup!TypeOK', Startup!AwaitedIsOutstanding',
         Autonomy!TypeOK, Autonomy!AwaitedLandIsLive,
         Autonomy!TypeOK', Autonomy!AwaitedLandIsLive',
         RuntimeFollowsStartup, RuntimeFollowsStartup', [Next]_vars
  PROVE  [Plan!Next]_<<Stage, commanded>>
<1>1. CASE PollStep
  <2>1. PICK vehicle \in Snapshots, target \in Autonomy!Targets,
             telemetry_ready \in BOOLEAN, failsafe_accepted \in BOOLEAN,
             command_sent \in BOOLEAN, target_sent \in BOOLEAN :
          Poll(vehicle, telemetry_ready, failsafe_accepted, target,
               command_sent, target_sent)
    BY <1>1, PollStepIsPoll DEF SomePoll
  <2>2. StartupMove /\ AutonomyMove
    BY <2>1, StartupMoves, AutonomyMoves DEF Poll
  <2>3. Plan!Send
    BY <2>1, SendStep DEF Poll
  <2> QED
    BY <2>2, <2>3, StageStep DEF Plan!Next
<1>2. CASE AckStep
  <2>1. PICK action, outcome, source :
          /\ Startup!OnCommandAck(action, outcome, source)
          /\ Autonomy!OnCommandAck(action, outcome, source)
          /\ UNCHANGED commanded
    BY <1>2 DEF AckStep, ReceiveAck
  <2>2. StartupMove
    BY <2>1, StartupAckPhase DEF StartupMove
  <2>3. AutonomyMove
    BY <2>1, AutonomyAckPhase DEF AutonomyMove, Autonomy!Finished
  <2> QED
    BY <2>1, <2>2, <2>3, StageStep DEF Plan!Next, Plan!Send
<1>3. CASE StartStep
  <2>1. /\ Startup!Finished /\ Autonomy!Finished
        /\ startup_phase' = "waiting_for_vehicle"
        /\ autonomy_phase' = "waiting_for_startup"
        /\ UNCHANGED commanded
    BY <1>3 DEF StartStep, RequestStart, Startup!Restart, Autonomy!Restart,
                app_vars
  <2>2. Stage \in {"landed", "aborted"}
    BY <2>1, StageIsStageOf, StageOfCases
       DEF Startup!Finished, Autonomy!Finished, RuntimeFollowsStartup
  <2>3. Stage' = "preparing"
    BY <2>1, StageIsStageOf, StageOfCases
  <2> QED
    BY <2>1, <2>2, <2>3 DEF Plan!Next, Plan!Renew, Plan!Over, Plan!Send
<1>4. CASE Tick \/ UNCHANGED vars
  <2>1. UNCHANGED <<startup_phase, autonomy_phase, commanded>>
    BY <1>4 DEF Tick, Startup!Tick, Autonomy!Tick, vars, app_vars,
                Startup!vars, Autonomy!vars
  <2> QED
    BY <2>1, StageIsStageOf
<1> QED
  BY <1>1, <1>2, <1>3, <1>4 DEF Next

(***************************************************************************)
(* The application implements FlightPlan: whatever the vehicle, the link   *)
(* and the camera do, the stages of a flight come in order, an aborted or  *)
(* finished flight stays so until the operator starts another, and each    *)
(* command is sent in the stage it belongs to (poll, the two update and    *)
(* on_command_ack functions, request_autonomy_start).                      *)
(***************************************************************************)
THEOREM PlanImplemented == Spec => ImplementsFlightPlan
<1> DEFINE Inv == /\ Startup!TypeOK /\ Startup!AwaitedIsOutstanding
                  /\ Autonomy!TypeOK /\ Autonomy!AwaitedLandIsLive
                  /\ RuntimeFollowsStartup
<1>1. Spec => []Inv
  <2>1. StartupProofs!Invariant /\ AutonomyProofs!Invariant /\ InStep => Inv
    BY StartupInvariant, AutonomyInvariant DEF InStep
  <2> QED
    BY <2>1, ControllersCorrect, InStepCorrect, PTL
<1>2. Init => Plan!Init
  BY StageIsStageOf, StageOfCases
     DEF Init, Startup!Init, Autonomy!Init, Plan!Init
<1>3. Inv /\ Inv' /\ [Next]_vars => [Plan!Next]_<<Stage, commanded>>
  BY PlanStep
<1> HIDE DEF Inv
<1> QED
  BY <1>1, <1>2, <1>3, PTL DEF Spec, ImplementsFlightPlan, Plan!Spec
=============================================================================
