------------------------ MODULE AutonomyRuntime_proofs ------------------------
(***************************************************************************)
(* The type invariant and the safety invariants of AutonomyRuntime, for    *)
(* every set of systems and every positive limit.                          *)
(***************************************************************************)
EXTENDS AutonomyRuntime, TLAPS

LEMMA Limits ==
  /\ MaximumLandAttempts \in Nat /\ MaximumLandAttempts > 0
  /\ LandAckTimeout \in Nat
  /\ LandingTargetInterval \in Nat
  /\ LandingTargetWarmup \in Nat
  /\ TargetLossLandAfter \in Nat
  /\ LandingTimeout \in Nat
BY RuntimeLimitsAssumption

(***************************************************************************)
(* The timers: one that runs stays in its range, one that is unset stays   *)
(* unset, and one that is set stays set.                                   *)
(***************************************************************************)
LEMMA ElapseTimer ==
  ASSUME NEW limit \in Nat, NEW timer \in Timer(limit)
  PROVE  Elapse(timer) \in Timer(limit)
BY DEF Timer, Elapse

LEMMA ElapseOptionalTimer ==
  ASSUME NEW limit \in Nat, NEW timer \in OptionalTimer(limit)
  PROVE  /\ Elapse(timer) \in OptionalTimer(limit)
         /\ Elapse(timer) = Unset <=> timer = Unset
BY DEF OptionalTimer, Timer, Elapse, Unset

LEMMA ConnectedHasSystem ==
  ASSUME NEW vehicle \in Snapshots, vehicle.connected
  PROVE  vehicle.system_id \in Systems
BY DEF Snapshots, Connected, Stale

LEMMA SnapshotSystem ==
  ASSUME NEW vehicle \in Snapshots
  PROVE  vehicle.system_id \in Systems \cup {NoSystem}
BY DEF Snapshots, Connected, Stale

-----------------------------------------------------------------------------
(***************************************************************************)
(* The invariant in parts: the timers, the attempts and the rest.          *)
(***************************************************************************)
TimersOK ==
  /\ land_command_after \in OptionalTimer(LandingTargetWarmup)
  /\ target_missing_since \in OptionalTimer(TargetLossLandAfter)
  /\ next_landing_target \in Timer(LandingTargetInterval)
  /\ acknowledgement_deadline \in Timer(LandAckTimeout)
  /\ landing_deadline \in Timer(LandingTimeout)

AttemptOK == land_attempt \in 0..MaximumLandAttempts

ValuesOK ==
  /\ phase \in Phases
  /\ motion_safety_status \in MotionSafetyStatuses
  /\ vehicle_system_id \in Systems \cup {NoSystem}
  /\ awaiting_land_ack \in BOOLEAN
  /\ vision_landing_target_active \in BOOLEAN

LEMMA TypeParts ==
  /\ TypeOK <=> TimersOK /\ AttemptOK /\ ValuesOK
  /\ TypeOK' <=> TimersOK' /\ AttemptOK' /\ ValuesOK'
BY DEF TypeOK, TimersOK, AttemptOK, ValuesOK

LEMMA SuperviseType ==
  ASSUME NEW vehicle, NEW landing_target
  PROVE  Supervise(vehicle, landing_target) \in MotionSafetyStatuses
BY DEF Supervise, MotionSafetyStatuses

(***************************************************************************)
(* The types of what an update that flies starts from.                     *)
(***************************************************************************)
LEMMA WorkingValues ==
  ASSUME TimersOK
  PROVE  /\ MissingSince \in OptionalTimer(TargetLossLandAfter)
         /\ NextTarget \in Timer(LandingTargetInterval)
BY Limits DEF TimersOK, MissingSince, NextTarget, OptionalTimer, Timer

LEMMA FlightPhaseType == FlightPhase \in {"active", "landing"}
BY DEF FlightPhase

LEMMA LandCommandTimers ==
  ASSUME TimersOK, AttemptOK, NEW land_sent \in BOOLEAN,
         UpdateLandCommand(land_sent) \/ NoLand
  PROVE  /\ acknowledgement_deadline' \in Timer(LandAckTimeout)
         /\ AttemptOK'
<1>1. CASE NoLand
  BY <1>1 DEF NoLand, land_vars, TimersOK, AttemptOK
<1>2. CASE LandExhausted
  BY <1>2 DEF LandExhausted, TimersOK, AttemptOK
<1>3. CASE SendLand(land_sent)
  BY <1>3, Limits DEF SendLand, TimersOK, AttemptOK, Timer
<1> QED
  BY <1>1, <1>2, <1>3 DEF UpdateLandCommand

LEMMA LandCommandValues ==
  ASSUME ValuesOK, NEW land_sent \in BOOLEAN,
         UpdateLandCommand(land_sent) \/ NoLand
  PROVE  /\ phase' \in Phases
         /\ awaiting_land_ack' \in BOOLEAN
<1>1. CASE NoLand
  BY <1>1, FlightPhaseType DEF NoLand, land_vars, ValuesOK, Phases
<1>2. CASE LandExhausted
  BY <1>2 DEF LandExhausted, Phases
<1>3. CASE SendLand(land_sent)
  BY <1>3 DEF SendLand, Phases
<1> QED
  BY <1>1, <1>2, <1>3 DEF UpdateLandCommand

LEMMA FailValues ==
  ASSUME Fail
  PROVE  /\ phase' \in Phases
         /\ awaiting_land_ack' \in BOOLEAN
         /\ vision_landing_target_active' \in BOOLEAN
BY DEF Fail, Phases

(***************************************************************************)
(* The updates that end in a decision.                                     *)
(***************************************************************************)
LEMMA NoTargetType ==
  ASSUME TypeOK, NEW vehicle \in Snapshots, NEW startup_phase,
         NEW failsafe_accepted \in BOOLEAN, NEW landing_target,
         NEW land_sent \in BOOLEAN,
         NoTarget(vehicle, startup_phase, failsafe_accepted, landing_target,
                  land_sent)
  PROVE  TypeOK'
<1>1. TimersOK /\ AttemptOK /\ ValuesOK
  BY TypeParts
<1>2. UpdateLandCommand(land_sent) \/ NoLand
  BY DEF NoTarget
<1>3. TimersOK'
  <2>1. MissingSince \in OptionalTimer(TargetLossLandAfter)
    BY <1>1, WorkingValues
  <2>2. target_missing_since' \in OptionalTimer(TargetLossLandAfter)
    BY <2>1, Limits DEF NoTarget, OptionalTimer, Timer
  <2>3. /\ land_command_after' \in OptionalTimer(LandingTargetWarmup)
        /\ next_landing_target' \in Timer(LandingTargetInterval)
    BY Limits DEF NoTarget, OptionalTimer, Timer
  <2>4. landing_deadline' \in Timer(LandingTimeout)
    BY <1>1 DEF NoTarget, Deciding, TimersOK
  <2> QED
    BY <1>1, <1>2, <2>2, <2>3, <2>4, LandCommandTimers DEF TimersOK
<1>4. ValuesOK'
  <2>1. motion_safety_status' \in MotionSafetyStatuses
    BY SuperviseType DEF NoTarget, Deciding
  <2>2. vehicle_system_id' \in Systems \cup {NoSystem}
    BY SnapshotSystem DEF NoTarget, Deciding, Linked
  <2>3. vision_landing_target_active' \in BOOLEAN
    BY DEF NoTarget
  <2> QED
    BY <1>1, <1>2, <2>1, <2>2, <2>3, LandCommandValues DEF ValuesOK
<1> QED
  BY <1>1, <1>2, <1>3, <1>4, LandCommandTimers, TypeParts

LEMMA GuideType ==
  ASSUME TypeOK, NEW vehicle \in Snapshots, NEW startup_phase,
         NEW failsafe_accepted \in BOOLEAN, NEW landing_target,
         NEW target_sent \in BOOLEAN, NEW land_sent \in BOOLEAN,
         Guide(vehicle, startup_phase, failsafe_accepted, landing_target,
               target_sent, land_sent)
  PROVE  TypeOK'
<1>1. TimersOK /\ AttemptOK /\ ValuesOK
  BY TypeParts
<1>2. UpdateLandCommand(land_sent) \/ NoLand
  BY DEF Guide
<1>3. TimersOK'
  <2>1. NextTarget \in Timer(LandingTargetInterval)
    BY <1>1, WorkingValues
  <2>2. next_landing_target' \in Timer(LandingTargetInterval)
    BY <2>1, Limits DEF Guide, Timer
  <2>3. /\ land_command_after' \in OptionalTimer(LandingTargetWarmup)
        /\ target_missing_since' \in OptionalTimer(TargetLossLandAfter)
    BY <1>1, Limits DEF Guide, TimersOK, OptionalTimer, Timer
  <2>4. landing_deadline' \in Timer(LandingTimeout)
    BY <1>1 DEF Guide, Deciding, TimersOK
  <2> QED
    BY <1>1, <1>2, <2>2, <2>3, <2>4, LandCommandTimers DEF TimersOK
<1>4. ValuesOK'
  <2>1. motion_safety_status' \in MotionSafetyStatuses
    BY SuperviseType DEF Guide, Deciding
  <2>2. vehicle_system_id' \in Systems \cup {NoSystem}
    BY SnapshotSystem DEF Guide, Deciding, Linked
  <2>3. vision_landing_target_active' \in BOOLEAN
    BY DEF Guide
  <2> QED
    BY <1>1, <1>2, <2>1, <2>2, <2>3, LandCommandValues DEF ValuesOK
<1> QED
  BY <1>1, <1>2, <1>3, <1>4, LandCommandTimers, TypeParts

LEMMA UpdateType ==
  ASSUME TypeOK, NEW vehicle \in Snapshots, NEW startup_phase,
         NEW failsafe_accepted \in BOOLEAN, NEW landing_target,
         NEW target_sent \in BOOLEAN, NEW land_sent \in BOOLEAN,
         Update(vehicle, startup_phase, failsafe_accepted, landing_target,
                target_sent, land_sent)
  PROVE  TypeOK'
<1>1. TimersOK /\ AttemptOK /\ ValuesOK
  BY TypeParts
<1>2. vehicle.system_id \in Systems \cup {NoSystem}
  BY SnapshotSystem
<1>3. CASE UNCHANGED vars
  BY <1>3 DEF TypeOK, vars, land_vars, target_vars
<1>4. CASE StartupFailed(startup_phase)
           \/ FailsafeMissing(startup_phase, failsafe_accepted)
  <2>1. TimersOK' /\ AttemptOK'
    BY <1>1, <1>4 DEF StartupFailed, FailsafeMissing, target_vars, TimersOK,
                      AttemptOK
  <2>2. ValuesOK'
    BY <1>1, <1>4, FailValues DEF StartupFailed, FailsafeMissing, ValuesOK
  <2> QED
    BY <2>1, <2>2, TypeParts
<1>5. CASE LinkLost(vehicle, startup_phase, failsafe_accepted)
  <2>1. TimersOK' /\ AttemptOK'
    BY <1>1, <1>5, WorkingValues DEF LinkLost, TimersOK, AttemptOK
  <2>2. ValuesOK'
    BY <1>1, <1>5, FailValues DEF LinkLost, ValuesOK
  <2> QED
    BY <2>1, <2>2, TypeParts
<1>6. CASE Landed(vehicle, startup_phase, failsafe_accepted)
  <2>1. TimersOK' /\ AttemptOK'
    BY <1>1, <1>6 DEF Landed, land_vars, target_vars, TimersOK, AttemptOK
  <2>2. ValuesOK'
    BY <1>1, <1>2, <1>6 DEF Landed, Linked, land_vars, ValuesOK, Phases
  <2> QED
    BY <2>1, <2>2, TypeParts
<1>7. CASE DisarmedWhileActive(vehicle, startup_phase, failsafe_accepted)
  <2>1. TimersOK' /\ AttemptOK'
    BY <1>1, <1>7, WorkingValues DEF DisarmedWhileActive, TimersOK, AttemptOK
  <2>2. ValuesOK'
    BY <1>1, <1>2, <1>7, FailValues DEF DisarmedWhileActive, Linked, ValuesOK
  <2> QED
    BY <2>1, <2>2, TypeParts
<1>8. CASE LandingTimedOut(vehicle, startup_phase, failsafe_accepted)
  <2>1. TimersOK' /\ AttemptOK'
    BY <1>1, <1>8 DEF LandingTimedOut, target_vars, TimersOK, AttemptOK
  <2>2. ValuesOK'
    BY <1>1, <1>2, <1>8, FailValues DEF LandingTimedOut, Linked, ValuesOK
  <2> QED
    BY <2>1, <2>2, TypeParts
<1>9. CASE TouchedDown(vehicle, startup_phase, failsafe_accepted)
  <2>1. TimersOK' /\ AttemptOK'
    BY <1>1, <1>9 DEF TouchedDown, land_vars, target_vars, TimersOK, AttemptOK
  <2>2. ValuesOK'
    BY <1>1, <1>2, <1>9 DEF TouchedDown, Linked, land_vars, ValuesOK
  <2> QED
    BY <2>1, <2>2, TypeParts
<1>10. CASE NoTarget(vehicle, startup_phase, failsafe_accepted,
                     landing_target, land_sent)
  BY <1>10, NoTargetType
<1>11. CASE Guide(vehicle, startup_phase, failsafe_accepted, landing_target,
                  target_sent, land_sent)
  BY <1>11, GuideType
<1> QED
  BY <1>3, <1>4, <1>5, <1>6, <1>7, <1>8, <1>9, <1>10, <1>11
     DEF Update, WaitForStartup

LEMMA AckType ==
  ASSUME TypeOK, NEW action, NEW outcome, NEW source,
         OnCommandAck(action, outcome, source)
  PROVE  TypeOK'
<1>1. TimersOK /\ AttemptOK /\ ValuesOK
  BY TypeParts
<1>2. TimersOK' /\ AttemptOK'
  BY <1>1, Limits
     DEF OnCommandAck, AckAccepted, AckInProgress, AckRejected, AckIgnored,
         vars, land_vars, target_vars, TimersOK, AttemptOK, Timer
<1>3. ValuesOK'
  BY <1>1, FailValues
     DEF OnCommandAck, AckAccepted, AckInProgress, AckRejected, AckIgnored,
         vars, land_vars, ValuesOK, Phases
<1> QED
  BY <1>2, <1>3, TypeParts

LEMMA TickType ==
  ASSUME TypeOK, Tick
  PROVE  TypeOK'
<1>1. TimersOK /\ AttemptOK /\ ValuesOK
  BY TypeParts
<1>2. TimersOK'
  BY <1>1, Limits, ElapseTimer, ElapseOptionalTimer DEF Tick, TimersOK
<1>3. AttemptOK' /\ ValuesOK'
  BY <1>1 DEF Tick, AttemptOK, ValuesOK
<1> QED
  BY <1>2, <1>3, TypeParts

LEMMA FreshType ==
  /\ Init => TypeOK
  /\ Restart => TypeOK'
<1>1. Init => TimersOK /\ AttemptOK
  BY Limits DEF Init, TimersOK, AttemptOK, OptionalTimer, Timer
<1>2. Init => ValuesOK
  BY DEF Init, ValuesOK, Phases, MotionSafetyStatuses
<1>3. Restart => TimersOK' /\ AttemptOK'
  BY Limits DEF Restart, TimersOK, AttemptOK, OptionalTimer, Timer
<1>4. Restart => ValuesOK'
  BY DEF Restart, ValuesOK, Phases, MotionSafetyStatuses
<1> QED
  BY <1>1, <1>2, <1>3, <1>4, TypeParts

-----------------------------------------------------------------------------
(***************************************************************************)
(* AwaitedLandIsLive is inductive relative to the types.                   *)
(***************************************************************************)
LEMMA FailAwaits ==
  ASSUME Fail
  PROVE  AwaitedLandIsLive'
BY DEF Fail, AwaitedLandIsLive

LEMMA LandCommandAwaits ==
  ASSUME TypeOK, AwaitedLandIsLive, NEW land_sent \in BOOLEAN,
         UpdateLandCommand(land_sent) \/ NoLand,
         vehicle_system_id' # NoSystem
  PROVE  AwaitedLandIsLive'
<1>1. CASE NoLand
  BY <1>1 DEF NoLand, land_vars, FlightPhase, AwaitedLandIsLive
<1>2. CASE LandExhausted
  BY <1>2 DEF LandExhausted, AwaitedLandIsLive
<1>3. CASE SendLand(land_sent)
  <2>1. land_attempt' > 0
    BY <1>3, Limits DEF SendLand, TypeOK
  <2>2. awaiting_land_ack' => phase' = "active"
    BY <1>3 DEF SendLand
  <2> QED
    BY <2>1, <2>2 DEF AwaitedLandIsLive
<1> QED
  BY <1>1, <1>2, <1>3 DEF UpdateLandCommand

LEMMA UpdateAwaits ==
  ASSUME TypeOK, AwaitedLandIsLive, NEW vehicle \in Snapshots,
         NEW startup_phase, NEW failsafe_accepted \in BOOLEAN,
         NEW landing_target, NEW target_sent \in BOOLEAN,
         NEW land_sent \in BOOLEAN,
         Update(vehicle, startup_phase, failsafe_accepted, landing_target,
                target_sent, land_sent)
  PROVE  AwaitedLandIsLive'
<1>1. CASE Fail
  BY <1>1, FailAwaits
<1>2. CASE UNCHANGED vars
  BY <1>2 DEF vars, land_vars, AwaitedLandIsLive
<1>3. CASE Landed(vehicle, startup_phase, failsafe_accepted)
  BY <1>3 DEF Landed, land_vars, AwaitedLandIsLive
<1>4. CASE TouchedDown(vehicle, startup_phase, failsafe_accepted)
  BY <1>4 DEF TouchedDown, land_vars, AwaitedLandIsLive
<1>5. ASSUME Linked(vehicle, startup_phase, failsafe_accepted)
      PROVE  vehicle_system_id' # NoSystem
  BY <1>5, ConnectedHasSystem, SystemsAssumption DEF Linked
<1>6. CASE NoTarget(vehicle, startup_phase, failsafe_accepted,
                    landing_target, land_sent)
  BY <1>5, <1>6, LandCommandAwaits DEF NoTarget, Deciding
<1>7. CASE Guide(vehicle, startup_phase, failsafe_accepted, landing_target,
                 target_sent, land_sent)
  BY <1>5, <1>7, LandCommandAwaits DEF Guide, Deciding
<1> QED
  BY <1>1, <1>2, <1>3, <1>4, <1>6, <1>7
     DEF Update, WaitForStartup, StartupFailed, FailsafeMissing, LinkLost,
         DisarmedWhileActive, LandingTimedOut

LEMMA AckAwaits ==
  ASSUME AwaitedLandIsLive, NEW action, NEW outcome, NEW source,
         OnCommandAck(action, outcome, source)
  PROVE  AwaitedLandIsLive'
BY DEF OnCommandAck, AckAccepted, AckInProgress, AckRejected, AckIgnored,
       Fail, vars, land_vars, AwaitedLandIsLive

-----------------------------------------------------------------------------
(***************************************************************************)
(* OneCountdownToLand is inductive relative to the types: a timer that is  *)
(* set does not become unset by running out.                               *)
(***************************************************************************)
LEMMA LimitIsSet ==
  ASSUME NEW limit \in Nat
  PROVE  limit # Unset
BY DEF Unset

LEMMA NoTargetCountdown ==
  ASSUME NEW vehicle, NEW startup_phase, NEW failsafe_accepted,
         NEW landing_target, NEW land_sent,
         NoTarget(vehicle, startup_phase, failsafe_accepted, landing_target,
                  land_sent)
  PROVE  OneCountdownToLand'
<1>1. land_command_after' = Unset
  BY DEF NoTarget
<1>2. target_missing_since' # Unset
  BY Limits, LimitIsSet DEF NoTarget
<1> QED
  BY <1>1, <1>2 DEF OneCountdownToLand

LEMMA GuideCountdown ==
  ASSUME NEW vehicle, NEW startup_phase, NEW failsafe_accepted,
         NEW landing_target, NEW target_sent, NEW land_sent,
         Guide(vehicle, startup_phase, failsafe_accepted, landing_target,
               target_sent, land_sent)
  PROVE  OneCountdownToLand'
<1>1. target_missing_since' = Unset
  BY DEF Guide
<1>2. ASSUME phase' = "active" PROVE land_command_after' # Unset
  <2>1. FlightPhase = "active"
    BY <1>2 DEF Guide, LandDue, NoLand
  <2>2. CASE land_command_after = Unset
    BY <2>1, <2>2, Limits, LimitIsSet DEF Guide, WarmUpStarts
  <2>3. CASE land_command_after # Unset
    BY <2>3 DEF Guide, WarmUpStarts
  <2> QED
    BY <2>2, <2>3
<1> QED
  BY <1>1, <1>2 DEF OneCountdownToLand

LEMMA UpdateCountdown ==
  ASSUME OneCountdownToLand, NEW vehicle, NEW startup_phase,
         NEW failsafe_accepted, NEW landing_target, NEW target_sent,
         NEW land_sent,
         Update(vehicle, startup_phase, failsafe_accepted, landing_target,
                target_sent, land_sent)
  PROVE  OneCountdownToLand'
<1>1. CASE Fail
  BY <1>1 DEF Fail, OneCountdownToLand
<1>2. CASE UNCHANGED vars
  BY <1>2 DEF vars, target_vars, OneCountdownToLand
<1>3. CASE Landed(vehicle, startup_phase, failsafe_accepted)
  BY <1>3 DEF Landed, OneCountdownToLand
<1>4. CASE TouchedDown(vehicle, startup_phase, failsafe_accepted)
  BY <1>4 DEF TouchedDown, OneCountdownToLand
<1>5. CASE NoTarget(vehicle, startup_phase, failsafe_accepted,
                    landing_target, land_sent)
  BY <1>5, NoTargetCountdown
<1>6. CASE Guide(vehicle, startup_phase, failsafe_accepted, landing_target,
                 target_sent, land_sent)
  BY <1>6, GuideCountdown
<1> QED
  BY <1>1, <1>2, <1>3, <1>4, <1>5, <1>6
     DEF Update, WaitForStartup, StartupFailed, FailsafeMissing, LinkLost,
         DisarmedWhileActive, LandingTimedOut

LEMMA AckCountdown ==
  ASSUME OneCountdownToLand, NEW action, NEW outcome, NEW source,
         OnCommandAck(action, outcome, source)
  PROVE  OneCountdownToLand'
BY DEF OnCommandAck, AckAccepted, AckInProgress, AckRejected, AckIgnored,
       Fail, vars, target_vars, OneCountdownToLand

LEMMA TickCountdown ==
  ASSUME TypeOK, OneCountdownToLand, Tick
  PROVE  OneCountdownToLand'
<1>1. land_command_after' = Unset <=> land_command_after = Unset
  BY Limits, ElapseOptionalTimer DEF Tick, TypeOK
<1>2. target_missing_since' = Unset <=> target_missing_since = Unset
  BY Limits, ElapseOptionalTimer DEF Tick, TypeOK
<1> QED
  BY <1>1, <1>2 DEF Tick, OneCountdownToLand

-----------------------------------------------------------------------------
(***************************************************************************)
(* What reaches the supervisor is a connected and armed vehicle.           *)
(***************************************************************************)
LEMMA DecidingStatus ==
  ASSUME NEW vehicle, NEW startup_phase, NEW failsafe_accepted,
         NEW landing_target,
         Deciding(vehicle, startup_phase, failsafe_accepted, landing_target)
  PROVE  SupervisorIsBackstop'
<1>1. vehicle.connected /\ vehicle.armed
  BY DEF Deciding, Linked
<1>2. motion_safety_status' \in {"no_intent", "invalid_target", "allowed"}
  BY <1>1 DEF Deciding, Supervise
<1> QED
  BY <1>2 DEF SupervisorIsBackstop

LEMMA UpdateBackstop ==
  ASSUME SupervisorIsBackstop, NEW vehicle, NEW startup_phase,
         NEW failsafe_accepted, NEW landing_target, NEW target_sent,
         NEW land_sent,
         Update(vehicle, startup_phase, failsafe_accepted, landing_target,
                target_sent, land_sent)
  PROVE  SupervisorIsBackstop'
<1>1. CASE UNCHANGED motion_safety_status
  BY <1>1 DEF SupervisorIsBackstop
<1>2. CASE Deciding(vehicle, startup_phase, failsafe_accepted, landing_target)
  BY <1>2, DecidingStatus
<1> QED
  BY <1>1, <1>2
     DEF Update, WaitForStartup, StartupFailed, FailsafeMissing, LinkLost,
         Landed, DisarmedWhileActive, LandingTimedOut, TouchedDown, NoTarget,
         Guide, vars

-----------------------------------------------------------------------------
(***************************************************************************)
(* The inductive invariant, and any step of the runtime, whoever calls it: *)
(* what CompanionApplication_proofs needs of this module.                  *)
(***************************************************************************)
Invariant ==
  /\ TypeOK
  /\ AwaitedLandIsLive
  /\ OneCountdownToLand
  /\ SupervisorIsBackstop

AnyStep ==
  \/ \E startup_phase, landing_target :
     \E vehicle \in Snapshots,
        failsafe_accepted, target_sent, land_sent \in BOOLEAN :
       Update(vehicle, startup_phase, failsafe_accepted, landing_target,
              target_sent, land_sent)
  \/ \E action, outcome, source : OnCommandAck(action, outcome, source)
  \/ Restart
  \/ Tick
  \/ UNCHANGED vars

LEMMA InitInvariant == Init => Invariant
BY FreshType
   DEF Invariant, Init, AwaitedLandIsLive, OneCountdownToLand,
       SupervisorIsBackstop

LEMMA StepInvariant == Invariant /\ AnyStep => Invariant'
<1> SUFFICES ASSUME TypeOK, AwaitedLandIsLive, OneCountdownToLand,
                    SupervisorIsBackstop, AnyStep
             PROVE  /\ TypeOK' /\ AwaitedLandIsLive'
                    /\ OneCountdownToLand' /\ SupervisorIsBackstop'
  BY DEF Invariant
<1>1. ASSUME NEW vehicle \in Snapshots, NEW startup_phase, NEW landing_target,
             NEW failsafe_accepted \in BOOLEAN, NEW target_sent \in BOOLEAN,
             NEW land_sent \in BOOLEAN,
             Update(vehicle, startup_phase, failsafe_accepted, landing_target,
                    target_sent, land_sent)
      PROVE  /\ TypeOK' /\ AwaitedLandIsLive'
             /\ OneCountdownToLand' /\ SupervisorIsBackstop'
  BY <1>1, UpdateType, UpdateAwaits, UpdateCountdown, UpdateBackstop
<1>2. ASSUME NEW action, NEW outcome, NEW source,
             OnCommandAck(action, outcome, source)
      PROVE  /\ TypeOK' /\ AwaitedLandIsLive'
             /\ OneCountdownToLand' /\ SupervisorIsBackstop'
  <2>1. SupervisorIsBackstop'
    BY <1>2 DEF OnCommandAck, AckAccepted, AckInProgress, AckRejected,
                AckIgnored, Fail, vars, SupervisorIsBackstop
  <2> QED
    BY <1>2, <2>1, AckType, AckAwaits, AckCountdown
<1>3. CASE Restart
  BY <1>3, FreshType
     DEF Restart, AwaitedLandIsLive, OneCountdownToLand, SupervisorIsBackstop
<1>4. CASE Tick
  BY <1>4, TickType, TickCountdown
     DEF Tick, AwaitedLandIsLive, SupervisorIsBackstop
<1>5. CASE UNCHANGED vars
  BY <1>5 DEF TypeOK, AwaitedLandIsLive, OneCountdownToLand,
              SupervisorIsBackstop, vars, land_vars, target_vars
<1> QED
  BY <1>1, <1>2, <1>3, <1>4, <1>5 DEF AnyStep

(***************************************************************************)
(* The runtime on its own, under any input: LAND is not attempted more     *)
(* than MaximumLandAttempts times (update_land_command, on_action_sent); a *)
(* late acknowledgement revives no flight that failed or completed and     *)
(* restarts no landing (on_command_ack); an active flight runs one of its  *)
(* countdowns to LAND, and the supervisor's checks of the link and of the  *)
(* armed flag never are what stops a motion (update).                      *)
(***************************************************************************)
THEOREM RuntimeCorrect == Spec => []Invariant
<1>1. [Next]_vars => AnyStep
  BY DEF Next, UpdateStep, AckStep, RestartStep, AnyStep
<1> QED
  BY <1>1, InitInvariant, StepInvariant, PTL DEF Spec
=============================================================================
