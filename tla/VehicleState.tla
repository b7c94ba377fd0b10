----------------------------- MODULE VehicleState -----------------------------
(***************************************************************************)
(* VehicleState: the last values a flight controller reported, how long    *)
(* each of them stays fresh, and what a snapshot concludes from them.      *)
(*                                                                         *)
(* A time last_x_ is kept as the ticks x stays fresh, 0 for stale or never *)
(* observed.  A warning is kept as the ticks until it is erased, 0 for not *)
(* listed: every reader takes a snapshot, which erases the expired ones    *)
(* first.  A value that is stale for good, which no snapshot shows again   *)
(* before it is replaced, is dropped; those of the battery may return.     *)
(* Sensor bit masks are sets of sensors.                                   *)
(***************************************************************************)
EXTENDS Integers

CONSTANTS
  Controllers,              \* pairs of a system and a component id
  FlightModes,
  Readings,                 \* gps, global and local position, attitude
  ReadingValues,            \* their values: fix types, and positions alike
  Sensors,
  Texts, BatteryTexts,      \* warnings, and those that name the battery
  HeartbeatTimeout, ReadingTimeout, BatteryTimeout, SystemStatusTimeout,
  WarningTimeout, BlockingWarningTimeout,
  MinimumBatteryPercent

ASSUME VehicleStateAssumption ==
  /\ "gps" \in Readings /\ ReadingValues \subseteq Nat
  /\ "battery" \in Sensors
  /\ BatteryTexts \subseteq Texts
  /\ {HeartbeatTimeout, BatteryTimeout, SystemStatusTimeout, WarningTimeout,
      BlockingWarningTimeout, MinimumBatteryPercent} \subseteq Nat \ {0}
  /\ ReadingTimeout \in [Readings -> Nat \ {0}]
  /\ BlockingWarningTimeout <= WarningTimeout

VARIABLES
  heartbeat,              \* freshness of the last heartbeat
  controller,             \* who sent it, <<>> before the first
  flight_mode, armed,     \* what it said
  autopilot_metadata,     \* NoMetadata or a firmware version
  readings,               \* per reading its value and freshness
  battery,                \* last known voltage and percentage, freshness
  battery_arming_voltage,
  sensors,                \* enabled, healthy, freshness
  warnings

heard_vars == <<heartbeat, controller, flight_mode, armed, autopilot_metadata>>

health_vars ==
  <<readings, battery, battery_arming_voltage, sensors, warnings>>

state_vars == <<heard_vars, health_vars>>

NoController == <<>>

NoMetadata == 0

NoValue == -1

NoReading == [value |-> NoValue, fresh |-> 0]

NoSensors == [enabled |-> {}, healthy |-> {}, fresh |-> 0]

StateInit ==
  /\ heartbeat = 0 /\ controller = NoController
  /\ flight_mode = NoValue /\ armed = FALSE
  /\ autopilot_metadata = NoMetadata
  /\ readings = [reading \in Readings |-> NoReading]
  /\ battery = [voltage |-> NoValue, remaining |-> NoValue, fresh |-> 0]
  /\ battery_arming_voltage = NoValue
  /\ sensors = NoSensors
  /\ warnings = [text \in Texts |-> 0]

(***************************************************************************)
(* The handlers.  Mutants of OnHeartbeat: a reconnection, or another       *)
(* controller, keeps the metadata.                                         *)
(***************************************************************************)
Reconnecting == controller # NoController /\ heartbeat = 0

ControllerChanged(sender) == controller \notin {NoController, sender}

OnHeartbeatKept(sender, mode, is_armed) ==
  /\ autopilot_metadata' =
       IF ControllerChanged(sender) THEN NoMetadata ELSE autopilot_metadata
  /\ heartbeat' = HeartbeatTimeout
  /\ controller' = sender
  /\ flight_mode' = mode
  /\ armed' = is_armed
  /\ UNCHANGED health_vars

OnHeartbeat(sender, mode, is_armed) ==
  /\ autopilot_metadata' =
       IF Reconnecting \/ ControllerChanged(sender)
       THEN NoMetadata ELSE autopilot_metadata
  /\ heartbeat' = HeartbeatTimeout
  /\ controller' = sender
  /\ flight_mode' = mode
  /\ armed' = is_armed
  /\ UNCHANGED health_vars

OnAutopilotMetadata(metadata) ==
  /\ autopilot_metadata' = metadata
  /\ UNCHANGED <<heartbeat, controller, flight_mode, armed, health_vars>>

OnReading(reading, value) ==
  /\ readings' = [readings EXCEPT
       ![reading] = [value |-> value, fresh |-> ReadingTimeout[reading]]]
  /\ UNCHANGED <<heard_vars, battery, battery_arming_voltage, sensors, warnings>>

(***************************************************************************)
(* Values a message leaves out are kept from an earlier one.  Mutant: they *)
(* are forgotten.                                                          *)
(***************************************************************************)
UpdatedBatteryForgets(voltage, remaining) ==
  [voltage |-> voltage, remaining |-> remaining, fresh |-> BatteryTimeout]

UpdatedBattery(voltage, remaining) ==
  [voltage |-> IF voltage # NoValue THEN voltage ELSE battery.voltage,
   remaining |-> IF remaining # NoValue THEN remaining ELSE battery.remaining,
   fresh |-> BatteryTimeout]

OnBattery(voltage, remaining) ==
  /\ battery' = UpdatedBattery(voltage, remaining)
  /\ UNCHANGED <<heard_vars, readings, battery_arming_voltage, sensors, warnings>>

OnBatteryArmingVoltage(voltage) ==
  /\ battery_arming_voltage' = IF voltage > 0 THEN voltage ELSE 0
  /\ UNCHANGED <<heard_vars, readings, battery, sensors, warnings>>

OnSystemStatus(enabled, healthy, voltage, current, remaining) ==
  /\ sensors' = [enabled |-> enabled, healthy |-> healthy,
                 fresh |-> SystemStatusTimeout]
  /\ battery' =
       IF {voltage, current, remaining} = {NoValue} THEN battery
       ELSE UpdatedBattery(voltage, remaining)
  /\ UNCHANGED <<heard_vars, readings, battery_arming_voltage, warnings>>

(***************************************************************************)
(* A text counts if it is not empty and is a warning, or worse, or names a *)
(* failed check before arming.                                             *)
(***************************************************************************)
OnStatusText(severe, prearm, text) ==
  /\ warnings' = IF text \in Texts /\ (severe \/ prearm)
       THEN [warnings EXCEPT ![text] = WarningTimeout] ELSE warnings
  /\ UNCHANGED <<heard_vars, readings, battery, battery_arming_voltage, sensors>>

(***************************************************************************)
(* What a snapshot concludes.                                              *)
(***************************************************************************)
Connected == heartbeat > 0

GpsReady == readings["gps"].fresh > 0 /\ readings["gps"].value >= 3

SystemHealthOk == sensors.fresh > 0 /\ sensors.enabled \subseteq sensors.healthy

BatterySensorHealthy ==
  sensors.fresh > 0 /\ "battery" \in sensors.enabled \cap sensors.healthy

HasBatteryWarning == \E text \in BatteryTexts : warnings[text] > 0

VoltageMeetsArmingThreshold ==
  /\ battery.voltage # NoValue /\ battery_arming_voltage # NoValue
  /\ \/ battery_arming_voltage = 0
     \/ battery.voltage >= battery_arming_voltage

BatteryReady ==
  /\ battery.fresh > 0
  /\ VoltageMeetsArmingThreshold
  /\ BatterySensorHealthy
  /\ ~HasBatteryWarning
  /\ battery.remaining = NoValue \/ battery.remaining >= MinimumBatteryPercent

HasRecentWarning ==
  \E text \in Texts : warnings[text] > WarningTimeout - BlockingWarningTimeout

Armable ==
  /\ Connected
  /\ GpsReady
  /\ BatteryReady
  /\ SystemHealthOk
  /\ ~HasRecentWarning

(***************************************************************************)
(* The arming threshold a snapshot shows: none while the battery is stale. *)
(***************************************************************************)
ReportedArmingVoltage ==
  IF Connected /\ battery.fresh > 0 THEN battery_arming_voltage ELSE NoValue

(***************************************************************************)
(* One tick of the clock.                                                  *)
(***************************************************************************)
Elapse(timer) == IF timer > 0 THEN timer - 1 ELSE 0

StateTick ==
  /\ heartbeat' = Elapse(heartbeat)
  /\ readings' = [reading \in Readings |->
       IF readings[reading].fresh <= 1 THEN NoReading
       ELSE [readings[reading] EXCEPT !.fresh = @ - 1]]
  /\ battery' = [battery EXCEPT !.fresh = Elapse(@)]
  /\ sensors' = IF sensors.fresh <= 1 THEN NoSensors
                 ELSE [sensors EXCEPT !.fresh = @ - 1]
  /\ warnings' = [text \in Texts |-> Elapse(warnings[text])]
  /\ UNCHANGED <<controller, flight_mode, armed, autopilot_metadata,
                 battery_arming_voltage>>

-----------------------------------------------------------------------------
(***************************************************************************)
(* The types of the state; voltages and percentages are any naturals.      *)
(***************************************************************************)
StateTypeOK ==
  /\ heartbeat \in 0..HeartbeatTimeout
  /\ controller \in Controllers \cup {NoController}
  /\ flight_mode \in FlightModes \cup {NoValue}
  /\ armed \in BOOLEAN
  /\ autopilot_metadata \in Nat
  /\ DOMAIN readings = Readings
  /\ \A reading \in Readings :
       /\ readings[reading].value \in ReadingValues \cup {NoValue}
       /\ readings[reading].fresh \in 0..ReadingTimeout[reading]
  /\ battery \in [voltage: Nat \cup {NoValue}, remaining: Nat \cup {NoValue},
                  fresh: 0..BatteryTimeout]
  /\ battery_arming_voltage \in Nat \cup {NoValue}
  /\ sensors \in [enabled: SUBSET Sensors, healthy: SUBSET Sensors,
                  fresh: 0..SystemStatusTimeout]
  /\ warnings \in [Texts -> 0..WarningTimeout]
=============================================================================
