-------------------- MODULE FlightStartupController_proofs --------------------
(***************************************************************************)
(* The type invariant and AwaitedIsOutstanding of FlightStartupController, *)
(* for every set of systems and every positive limit.                      *)
(***************************************************************************)
EXTENDS FlightStartupController, TLAPS

LEMMA Limits ==
  /\ MaximumActionAttempts \in Nat /\ MaximumActionAttempts > 0
  /\ AcknowledgementTimeout \in Nat
  /\ ReadinessTimeout \in Nat
  /\ ModeChangeTimeout \in Nat
  /\ ArmingTimeout \in Nat
  /\ TakeoffTimeout \in Nat
BY StartupLimitsAssumption

(***************************************************************************)
(* The timers: a running timer elapses towards 0, and stays in its range.  *)
(***************************************************************************)
LEMMA ElapseInRange ==
  ASSUME NEW limit \in Nat, NEW timer \in Timer(limit)
  PROVE  Elapse(timer) \in Timer(limit)
BY DEF Timer, Elapse

LEMMA ElapseIsNat ==
  ASSUME NEW timer \in Nat
  PROVE  Elapse(timer) \in Nat
BY DEF Elapse

(***************************************************************************)
(* The vehicles of a poll: one that is connected has a system id.          *)
(***************************************************************************)
LEMMA ConnectedHasSystem ==
  ASSUME NEW vehicle \in Snapshots, vehicle.connected
  PROVE  vehicle.system_id \in Systems
BY DEF Snapshots, Connected, Stale

(***************************************************************************)
(* What the parts of an update do to the types.                            *)
(***************************************************************************)
LEMMA FailType ==
  ASSUME TypeOK, Fail
  PROVE  TypeOK'
BY DEF TypeOK, Fail, Phases

LEMMA RestartType ==
  ASSUME Restart
  PROVE  TypeOK'
<1>1. /\ attempt' \in 0..MaximumActionAttempts
      /\ acknowledgement_deadline' \in Timer(AcknowledgementTimeout)
  BY Limits DEF Restart, Timer
<1> QED
  BY <1>1 DEF TypeOK, Restart, Phases

LEMMA CommandType ==
  ASSUME NEW in \in CommandPhases, NEW n \in 1..MaximumActionAttempts,
         NEW sent \in BOOLEAN, Command(in, n, sent)
  PROVE  /\ phase' \in Phases
         /\ attempt' \in 0..MaximumActionAttempts
         /\ awaiting_ack' \in BOOLEAN
         /\ command_accepted' \in BOOLEAN
         /\ acknowledgement_deadline' \in Timer(AcknowledgementTimeout)
<1>1. /\ attempt' \in 0..MaximumActionAttempts
      /\ acknowledgement_deadline' \in Timer(AcknowledgementTimeout)
  BY Limits DEF Command, Timer
<1> QED
  BY <1>1 DEF Command, Phases

LEMMA EnterType ==
  ASSUME NEW next \in CommandPhases, NEW sent \in BOOLEAN, Enter(next, sent)
  PROVE  /\ phase' \in Phases
         /\ attempt' \in 0..MaximumActionAttempts
         /\ awaiting_ack' \in BOOLEAN
         /\ command_accepted' \in BOOLEAN
         /\ acknowledgement_deadline' \in Timer(AcknowledgementTimeout)
         /\ phase_deadline' \in Nat
<1>1. Command(next, 1, sent)
  BY DEF Enter
<1>2. 1 \in 1..MaximumActionAttempts
  BY Limits
<1>3. phase_deadline' \in Nat
  BY Limits DEF Enter, PhaseLimit, CommandPhases
<1> QED
  BY <1>1, <1>2, <1>3, CommandType

LEMMA UpdateType ==
  ASSUME TypeOK,
         NEW vehicle \in Snapshots,
         NEW telemetry_ready \in BOOLEAN,
         NEW failsafe_accepted \in BOOLEAN,
         NEW sent \in BOOLEAN,
         Update(vehicle, telemetry_ready, failsafe_accepted, sent)
  PROVE  TypeOK'
<1>1. CASE HeartbeatLost(vehicle)
  BY <1>1, FailType DEF HeartbeatLost
<1>2. CASE FailsafeLost(vehicle, failsafe_accepted)
  BY <1>2, FailType DEF FailsafeLost
<1>3. CASE RejectVehicle(vehicle)
  BY <1>3, FailType DEF RejectVehicle
<1>4. CASE AdoptVehicle(vehicle, telemetry_ready, failsafe_accepted, sent)
  <2>1. vehicle_system_id' \in Systems
    BY <1>4, ConnectedHasSystem DEF AdoptVehicle
  <2>2. CASE Enter("setting_guided", sent)
    BY <2>1, <2>2, EnterType DEF TypeOK, CommandPhases
  <2>3. CASE /\ phase' = "waiting_for_readiness"
             /\ attempt' = 0
             /\ awaiting_ack' = FALSE
             /\ command_accepted' = FALSE
             /\ phase_deadline' = ReadinessTimeout
             /\ UNCHANGED acknowledgement_deadline
    <3>1. attempt' \in 0..MaximumActionAttempts /\ phase_deadline' \in Nat
      BY <2>3, Limits
    <3> QED
      BY <2>1, <2>3, <3>1 DEF TypeOK, Phases
  <2> QED
    BY <1>4, <2>2, <2>3 DEF AdoptVehicle
<1>5. CASE ReadinessTimedOut(vehicle)
  BY <1>5, FailType DEF ReadinessTimedOut
<1>6. CASE BecomeReady(vehicle, telemetry_ready, failsafe_accepted, sent)
  BY <1>6, EnterType DEF BecomeReady, TypeOK, CommandPhases
<1>7. CASE Advance(vehicle, failsafe_accepted, sent)
  <2>1. Successor[phase] \in CommandPhases
    BY <1>7 DEF Advance, Commanding, Successor, CommandPhases
  <2> QED
    BY <1>7, <2>1, EnterType DEF Advance, TypeOK
<1>8. CASE Complete(vehicle, failsafe_accepted)
  <2>1. attempt' \in 0..MaximumActionAttempts
    BY <1>8, Limits DEF Complete
  <2> QED
    BY <1>8, <2>1 DEF Complete, TypeOK, Phases
<1>9. CASE DisarmedInTakeoff(vehicle, failsafe_accepted)
  BY <1>9, FailType DEF DisarmedInTakeoff
<1>10. CASE PhaseTimedOut(vehicle, failsafe_accepted)
  BY <1>10, FailType DEF PhaseTimedOut
<1>11. CASE Retry(vehicle, failsafe_accepted, sent)
  <2>1. phase \in CommandPhases
    BY <1>11 DEF Retry, AttemptDue, Commanding
  <2>2. attempt + 1 \in 1..MaximumActionAttempts
    BY <1>11, Limits DEF Retry, TypeOK
  <2>3. Command(phase, attempt + 1, sent)
    BY <1>11 DEF Retry
  <2> QED
    BY <1>11, <2>1, <2>2, <2>3, CommandType DEF Retry, TypeOK
<1>12. CASE AttemptsExhausted(vehicle, failsafe_accepted)
  BY <1>12, FailType DEF AttemptsExhausted
<1>13. CASE Wait(vehicle, telemetry_ready, failsafe_accepted)
  BY <1>13 DEF Wait, TypeOK, vars
<1> QED
  BY <1>1, <1>2, <1>3, <1>4, <1>5, <1>6, <1>7, <1>8, <1>9, <1>10, <1>11,
     <1>12, <1>13 DEF Update

LEMMA AckType ==
  ASSUME TypeOK, NEW action, NEW outcome, NEW source,
         OnCommandAck(action, outcome, source)
  PROVE  TypeOK'
<1>1. CASE AckAccepted(action, source)
  BY <1>1 DEF AckAccepted, TypeOK
<1>2. CASE AckInProgress(action, source)
  <2>1. acknowledgement_deadline' \in Timer(AcknowledgementTimeout)
    BY <1>2, Limits DEF AckInProgress, Timer
  <2> QED
    BY <1>2, <2>1 DEF AckInProgress, TypeOK
<1>3. CASE AckRejected(action, source)
  BY <1>3, FailType DEF AckRejected
<1>4. CASE AckIgnored(action, source)
  BY <1>4 DEF AckIgnored, TypeOK, vars
<1> QED
  BY <1>1, <1>2, <1>3, <1>4 DEF OnCommandAck

LEMMA TickType ==
  ASSUME TypeOK, Tick
  PROVE  TypeOK'
<1>1. acknowledgement_deadline' \in Timer(AcknowledgementTimeout)
  BY ElapseInRange, Limits DEF TypeOK, Tick
<1>2. phase_deadline' \in Nat
  BY ElapseIsNat DEF TypeOK, Tick
<1> QED
  BY <1>1, <1>2 DEF TypeOK, Tick

-----------------------------------------------------------------------------
(***************************************************************************)
(* AwaitedIsOutstanding is inductive relative to the types.                *)
(***************************************************************************)
LEMMA FailAwaits ==
  ASSUME Fail
  PROVE  AwaitedIsOutstanding'
BY DEF Fail, AwaitedIsOutstanding

LEMMA CommandAwaits ==
  ASSUME NEW in \in CommandPhases, NEW n \in 1..MaximumActionAttempts,
         NEW sent \in BOOLEAN, Command(in, n, sent),
         vehicle_system_id' # NoSystem
  PROVE  AwaitedIsOutstanding'
<1>1. attempt' > 0
  BY DEF Command
<1>2. awaiting_ack' => phase' \in CommandPhases
  BY DEF Command
<1> QED
  BY <1>1, <1>2 DEF Command, AwaitedIsOutstanding

LEMMA EnterAwaits ==
  ASSUME NEW next \in CommandPhases, NEW sent \in BOOLEAN, Enter(next, sent),
         vehicle_system_id' # NoSystem
  PROVE  AwaitedIsOutstanding'
<1>1. 1 \in 1..MaximumActionAttempts
  BY Limits
<1> QED
  BY <1>1, CommandAwaits DEF Enter

LEMMA UpdateAwaits ==
  ASSUME TypeOK, AwaitedIsOutstanding,
         NEW vehicle \in Snapshots,
         NEW telemetry_ready \in BOOLEAN,
         NEW failsafe_accepted \in BOOLEAN,
         NEW sent \in BOOLEAN,
         Update(vehicle, telemetry_ready, failsafe_accepted, sent)
  PROVE  AwaitedIsOutstanding'
<1>1. CASE Fail
  BY <1>1, FailAwaits
<1>2. CASE AdoptVehicle(vehicle, telemetry_ready, failsafe_accepted, sent)
  <2>1. vehicle_system_id' # NoSystem
    BY <1>2, ConnectedHasSystem, SystemsAssumption DEF AdoptVehicle
  <2>2. CASE Enter("setting_guided", sent)
    BY <2>1, <2>2, EnterAwaits DEF CommandPhases
  <2>3. CASE phase' = "waiting_for_readiness" /\ ~awaiting_ack'
               /\ ~command_accepted'
    BY <2>1, <2>3 DEF AwaitedIsOutstanding
  <2> QED
    BY <1>2, <2>2, <2>3 DEF AdoptVehicle
<1>3. CASE BecomeReady(vehicle, telemetry_ready, failsafe_accepted, sent)
  <2>1. vehicle_system_id' # NoSystem
    BY <1>3 DEF BecomeReady, AwaitedIsOutstanding
  <2> QED
    BY <1>3, <2>1, EnterAwaits DEF BecomeReady, CommandPhases
<1>4. CASE Advance(vehicle, failsafe_accepted, sent)
  <2>1. Successor[phase] \in CommandPhases
    BY <1>4 DEF Advance, Commanding, Successor, CommandPhases
  <2>2. vehicle_system_id' # NoSystem
    BY <1>4 DEF Advance, Commanding, CommandPhases, AwaitedIsOutstanding
  <2> QED
    BY <1>4, <2>1, <2>2, EnterAwaits DEF Advance
<1>5. CASE Complete(vehicle, failsafe_accepted)
  BY <1>5 DEF Complete, Commanding, CommandPhases, AwaitedIsOutstanding
<1>6. CASE Retry(vehicle, failsafe_accepted, sent)
  <2>1. phase \in CommandPhases
    BY <1>6 DEF Retry, AttemptDue, Commanding
  <2>2. attempt + 1 \in 1..MaximumActionAttempts
    BY <1>6, Limits DEF Retry, TypeOK
  <2>3. vehicle_system_id' # NoSystem
    BY <1>6, <2>1 DEF Retry, CommandPhases, AwaitedIsOutstanding
  <2> QED
    BY <1>6, <2>1, <2>2, <2>3, CommandAwaits DEF Retry
<1>7. CASE UNCHANGED vars
  BY <1>7 DEF vars, AwaitedIsOutstanding
<1> QED
  BY <1>1, <1>2, <1>3, <1>4, <1>5, <1>6, <1>7
     DEF Update, HeartbeatLost, FailsafeLost, RejectVehicle,
         ReadinessTimedOut, DisarmedInTakeoff, PhaseTimedOut,
         AttemptsExhausted, Wait

LEMMA AckAwaits ==
  ASSUME AwaitedIsOutstanding, NEW action, NEW outcome, NEW source,
         OnCommandAck(action, outcome, source)
  PROVE  AwaitedIsOutstanding'
<1>1. CASE AckAccepted(action, source)
  BY <1>1 DEF AckAccepted, AckMatches, AwaitedIsOutstanding
<1>2. CASE AckInProgress(action, source)
  BY <1>2 DEF AckInProgress, AwaitedIsOutstanding
<1>3. CASE AckRejected(action, source)
  BY <1>3, FailAwaits DEF AckRejected
<1>4. CASE AckIgnored(action, source)
  BY <1>4 DEF AckIgnored, AwaitedIsOutstanding, vars
<1> QED
  BY <1>1, <1>2, <1>3, <1>4 DEF OnCommandAck

-----------------------------------------------------------------------------
(***************************************************************************)
(* The inductive invariant, and any step of the controller, whoever calls  *)
(* it: what CompanionApplication_proofs needs of this module.              *)
(***************************************************************************)
Invariant == TypeOK /\ AwaitedIsOutstanding

AnyStep ==
  \/ \E vehicle \in Snapshots, telemetry_ready, failsafe_accepted, sent \in BOOLEAN :
       Update(vehicle, telemetry_ready, failsafe_accepted, sent)
  \/ \E action, outcome, source : OnCommandAck(action, outcome, source)
  \/ Restart
  \/ Tick
  \/ UNCHANGED vars

LEMMA InitInvariant == Init => Invariant
<1> SUFFICES ASSUME Init PROVE Invariant
  OBVIOUS
<1>1. /\ attempt \in 0..MaximumActionAttempts
      /\ acknowledgement_deadline \in Timer(AcknowledgementTimeout)
  BY Limits DEF Init, Timer
<1>2. TypeOK
  BY <1>1 DEF Init, TypeOK, Phases
<1>3. AwaitedIsOutstanding
  BY DEF Init, AwaitedIsOutstanding
<1> QED
  BY <1>2, <1>3 DEF Invariant

LEMMA StepInvariant == Invariant /\ AnyStep => Invariant'
<1> SUFFICES ASSUME TypeOK, AwaitedIsOutstanding, AnyStep
             PROVE  TypeOK' /\ AwaitedIsOutstanding'
  BY DEF Invariant
<1>1. CASE \E vehicle \in Snapshots,
              telemetry_ready, failsafe_accepted, sent \in BOOLEAN :
             Update(vehicle, telemetry_ready, failsafe_accepted, sent)
  BY <1>1, UpdateType, UpdateAwaits
<1>2. CASE \E action, outcome, source : OnCommandAck(action, outcome, source)
  BY <1>2, AckType, AckAwaits
<1>3. CASE Restart
  BY <1>3, RestartType DEF Restart, AwaitedIsOutstanding
<1>4. CASE Tick
  BY <1>4, TickType DEF Tick, AwaitedIsOutstanding
<1>5. CASE UNCHANGED vars
  BY <1>5 DEF TypeOK, AwaitedIsOutstanding, vars
<1> QED
  BY <1>1, <1>2, <1>3, <1>4, <1>5 DEF AnyStep

(***************************************************************************)
(* The controller on its own, under any input: no command is attempted     *)
(* more than MaximumActionAttempts times (update_command, on_action_sent), *)
(* and an acknowledgement is credited only to a command of the current     *)
(* phase that was sent, and is not accepted yet, to an adopted vehicle.    *)
(***************************************************************************)
THEOREM StartupCorrect == Spec => []Invariant
<1>1. [Next]_vars => AnyStep
  BY DEF Next, UpdateStep, AckStep, RestartStep, AnyStep
<1> QED
  BY <1>1, InitInvariant, StepInvariant, PTL DEF Spec
=============================================================================
