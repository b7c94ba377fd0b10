------------------------ MODULE CompanionLinkFailsafe ------------------------
(***************************************************************************)
(* application/CompanionLinkFailsafe: reads the four ArduPilot parameters  *)
(* that say what the vehicle does when the companion's heartbeat stops,    *)
(* and accepts the vehicle for autonomous flight only if it would land.    *)
(*                                                                         *)
(* A parameter value is an integer number of tenths.  A double that is not *)
(* finite is rejected exactly where a negative one is, and -1 stands for   *)
(* both.                                                                   *)
(***************************************************************************)
EXTENDS Integers

CONSTANTS Systems,     \* system ids of the flight controllers on the link
          MaxOptions   \* largest FS_OPTIONS bitmask, 2^32 - 1

ASSUME FailsafeAssumption ==
  /\ Systems \subseteq 1..255
  /\ MaxOptions \in Nat

NoSystem == 0

ParameterNames == <<"FS_GCS_ENABLE", "FS_GCS_TIMEOUT", "FS_OPTIONS",
                    "SYSID_MYGCS">>

Parameters == {"FS_GCS_ENABLE", "FS_GCS_TIMEOUT", "FS_OPTIONS", "SYSID_MYGCS"}

VARIABLES
  phase,                 \* CompanionLinkFailsafePhase
  heartbeat_system_id,   \* the vehicle whose parameters are being read
  received,              \* the parameters that have a raw value
  raw                    \* the raw values, 0 where there is none

vars == <<phase, heartbeat_system_id, received, raw>>

NoValues == [parameter \in Parameters |-> 0]

-----------------------------------------------------------------------------
(***************************************************************************)
(* exact_integer, and the conditions of validate in their order.           *)
(***************************************************************************)
ExactInteger(value, maximum) ==
  /\ value >= 0
  /\ value <= 10 * maximum
  /\ value % 10 = 0

Bit(value, n) == ((value \div 10) \div 2^n) % 2

AlwaysLands(values) ==
  ExactInteger(values["FS_GCS_ENABLE"], 255) /\ values["FS_GCS_ENABLE"] = 50

TimeoutInRange(values) ==
  20 <= values["FS_GCS_TIMEOUT"] /\ values["FS_GCS_TIMEOUT"] <= 100

NeverContinues(values) ==
  /\ ExactInteger(values["FS_OPTIONS"], MaxOptions)
  /\ Bit(values["FS_OPTIONS"], 1) = 0
  /\ Bit(values["FS_OPTIONS"], 4) = 0

WatchesHeartbeat(values, system) ==
  /\ ExactInteger(values["SYSID_MYGCS"], 255)
  /\ values["SYSID_MYGCS"] # 0
  /\ values["SYSID_MYGCS"] = 10 * system

Acceptable(values, system) ==
  /\ AlwaysLands(values)
  /\ TimeoutInRange(values)
  /\ NeverContinues(values)
  /\ WatchesHeartbeat(values, system)

Validate(have, values, system) ==
  IF have # Parameters THEN "reading_parameters"
  ELSE IF Acceptable(values, system) THEN "accepted" ELSE "rejected"

-----------------------------------------------------------------------------
Init ==
  /\ phase = "waiting_for_vehicle"
  /\ heartbeat_system_id = NoSystem
  /\ received = {}
  /\ raw = NoValues

(***************************************************************************)
(* Mutant: a reset drops the values and keeps the verdict.                 *)
(***************************************************************************)
ResetValues(system) ==
  /\ phase' = IF phase = "waiting_for_vehicle"
                THEN "reading_parameters" ELSE phase
  /\ heartbeat_system_id' = system
  /\ received' = {}
  /\ raw' = NoValues

Reset(system) ==
  /\ phase' = IF system = NoSystem
                THEN "waiting_for_vehicle" ELSE "reading_parameters"
  /\ heartbeat_system_id' = system
  /\ received' = {}
  /\ raw' = NoValues

(***************************************************************************)
(* observe_vehicle: a lost or a different vehicle starts the reading over. *)
(***************************************************************************)
Heard(connected, system) == IF connected THEN system ELSE NoSystem

(***************************************************************************)
(* Mutant: only a lost vehicle resets, not a different one.                *)
(***************************************************************************)
ObserveAnyVehicle(connected, system) ==
  \/ /\ (heartbeat_system_id = NoSystem) = connected
     /\ Reset(Heard(connected, system))
  \/ /\ (heartbeat_system_id = NoSystem) # connected
     /\ UNCHANGED vars

ObserveVehicle(connected, system) ==
  \/ /\ heartbeat_system_id # Heard(connected, system)
     /\ Reset(Heard(connected, system))
  \/ /\ heartbeat_system_id = Heard(connected, system)
     /\ UNCHANGED vars

(***************************************************************************)
(* Mutant: the source of a parameter is not looked at.                     *)
(***************************************************************************)
OnParameterOfAny(source_system, from_autopilot, parameter, value) ==
  \/ /\ heartbeat_system_id # NoSystem
     /\ received' = received \cup {parameter}
     /\ raw' = [raw EXCEPT ![parameter] = value]
     /\ phase' = Validate(received', raw', heartbeat_system_id)
     /\ UNCHANGED heartbeat_system_id
  \/ heartbeat_system_id = NoSystem /\ UNCHANGED vars

(***************************************************************************)
(* on_parameter, for one of the four; the others are not looked at.        *)
(***************************************************************************)
OnParameter(source_system, from_autopilot, parameter, value) ==
  \/ /\ heartbeat_system_id # NoSystem
     /\ source_system = heartbeat_system_id
     /\ from_autopilot
     /\ received' = received \cup {parameter}
     /\ raw' = [raw EXCEPT ![parameter] = value]
     /\ phase' = Validate(received', raw', heartbeat_system_id)
     /\ UNCHANGED heartbeat_system_id
  \/ /\ \/ heartbeat_system_id = NoSystem
        \/ source_system # heartbeat_system_id
        \/ ~from_autopilot
     /\ UNCHANGED vars

-----------------------------------------------------------------------------
(***************************************************************************)
(* The type invariant.                                                     *)
(***************************************************************************)
TypeOK ==
  /\ phase \in {"waiting_for_vehicle", "reading_parameters", "accepted",
                "rejected"}
  /\ heartbeat_system_id \in Systems \cup {NoSystem}
  /\ received \subseteq Parameters
  /\ raw \in [Parameters -> Int]

(***************************************************************************)
(* The verdict always fits the values it was formed from: no call leaves a *)
(* verdict standing whose values were replaced, dropped or never complete. *)
(***************************************************************************)
VerdictFitsValues ==
  /\ phase = "accepted" => /\ received = Parameters
                           /\ Acceptable(raw, heartbeat_system_id)
  /\ phase = "waiting_for_vehicle" <=> heartbeat_system_id = NoSystem
  /\ phase = "rejected" => received = Parameters
=============================================================================
