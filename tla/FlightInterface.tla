--------------------------- MODULE FlightInterface ---------------------------
(***************************************************************************)
(* What the two flight controllers, FlightStartupController and            *)
(* AutonomyRuntime, are told by CompanionApplication: the vehicle          *)
(* snapshot, the flight commands and their acknowledgement outcomes.       *)
(*                                                                         *)
(* Time is kept as the time REMAINING until a deadline: the code's         *)
(* `deadline = now + limit` sets a timer to its limit, its                 *)
(* `now >= deadline` asks whether the timer is 0, and Elapse is one tick   *)
(* of the clock.  A time point that the code keeps in a std::optional is   *)
(* Unset while it has no value.                                            *)
(***************************************************************************)
EXTENDS Integers

CONSTANTS Systems,   \* MAVLink system ids heard on the link
          NoSystem   \* std::nullopt in place of a system id

ASSUME SystemsAssumption == NoSystem \notin Systems

(***************************************************************************)
(* The limits of FlightStartupController, then those of AutonomyRuntime.   *)
(***************************************************************************)
CONSTANTS
  MaximumActionAttempts,   \* kMaximumActionAttempts, 3
  AcknowledgementTimeout,  \* kAcknowledgementTimeout, 2 s
  ReadinessTimeout,        \* kReadinessTimeout, 90 s
  ModeChangeTimeout,       \* kModeChangeTimeout, 10 s
  ArmingTimeout,           \* kArmingTimeout, 10 s
  TakeoffTimeout           \* kTakeoffTimeout, 45 s

CONSTANTS
  MaximumLandAttempts,     \* kMaximumLandAttempts, 3
  LandAckTimeout,          \* kAcknowledgementTimeout, 2 s
  LandingTargetInterval,   \* kLandingTargetInterval, 200 ms
  LandingTargetWarmup,     \* kLandingTargetWarmup, 1 s
  TargetLossLandAfter,     \* target_loss_land_after, 5 s
  LandingTimeout           \* kLandingTimeout, 90 s

ASSUME StartupLimitsAssumption ==
  /\ MaximumActionAttempts \in Nat \ {0}
  /\ AcknowledgementTimeout \in Nat \ {0}
  /\ ReadinessTimeout \in Nat \ {0}
  /\ ModeChangeTimeout \in Nat \ {0}
  /\ ArmingTimeout \in Nat \ {0}
  /\ TakeoffTimeout \in Nat \ {0}

ASSUME RuntimeLimitsAssumption ==
  /\ MaximumLandAttempts \in Nat \ {0}
  /\ LandAckTimeout \in Nat \ {0}
  /\ LandingTargetInterval \in Nat \ {0}
  /\ LandingTargetWarmup \in Nat \ {0}
  /\ TargetLossLandAfter \in Nat \ {0}
  /\ LandingTimeout \in Nat \ {0}

(***************************************************************************)
(* Relative altitude, as far as a decision depends on it: not reported, at *)
(* most 0.20 m (touchdown), in between, or within 0.35 m of the takeoff    *)
(* target.  The two thresholds are disjoint for the 8 m default target.    *)
(***************************************************************************)
Altitudes == {"unknown", "ground", "low", "target"}

(***************************************************************************)
(* A VehicleSnapshot.  multicopter stands for "ArduPilot, and of a type    *)
(* is_multicopter lists"; guided for flight_mode being GUIDED.             *)
(* VehicleState::snapshot returns before the readiness fields and the      *)
(* altitude when the heartbeat is stale, keeping the identity, the mode    *)
(* and the armed flag it last heard, which are all unset before the first. *)
(***************************************************************************)
Connected ==
  [connected: {TRUE}, system_id: Systems, multicopter: BOOLEAN,
   armable: BOOLEAN, armed: BOOLEAN, guided: BOOLEAN, altitude: Altitudes]

Stale ==
  [connected: {FALSE}, system_id: Systems \cup {NoSystem},
   multicopter: BOOLEAN, armable: {FALSE}, armed: BOOLEAN, guided: BOOLEAN,
   altitude: {"unknown"}]

Snapshots == Connected \cup Stale

Actions == {"set_guided_mode", "arm", "takeoff", "land"}

Outcomes == {"accepted", "in_progress", "rejected"}

Unset == -1

Timer(limit) == 0..limit

OptionalTimer(limit) == Timer(limit) \cup {Unset}

Elapse(timer) == IF timer > 0 THEN timer - 1 ELSE timer
=============================================================================
