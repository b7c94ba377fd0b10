---------------------------- MODULE MavlinkDecoder ----------------------------
(***************************************************************************)
(* MavlinkDecoder::handle_message: which messages reach VehicleState, and  *)
(* how their fields become optional values.  A message is a record with    *)
(* the fields its type uses.  Command acknowledgements and the parameters  *)
(* of the failsafe go to other components (TelemetryLink, CompanionLink).  *)
(***************************************************************************)
EXTENDS VehicleState, SequencesExt

CONSTANT UnknownCell      \* UINT16_MAX millivolts: this cell does not exist

InvalidAutopilot == "MAV_AUTOPILOT_INVALID"

(***************************************************************************)
(* The voltage of a battery is the sum of the cells it has.                *)
(***************************************************************************)
BatteryVoltage(cells) ==
  LET known == SelectSeq(cells, LAMBDA cell : cell > 0 /\ cell # UnknownCell)
  IN IF known = <<>> THEN NoValue
     ELSE FoldLeft(LAMBDA total, cell : total + cell, 0, known)

(***************************************************************************)
(* Currents and percentages are unknown below zero, the voltage of the     *)
(* system status at zero.                                                  *)
(***************************************************************************)
NotNegative(value) == IF value < 0 THEN NoValue ELSE value

Positive(value) == IF value > 0 THEN value ELSE NoValue

(***************************************************************************)
(* A heartbeat that is not of an autopilot is not the vehicle's.           *)
(***************************************************************************)
HandleHeartbeat(message) ==
  IF message.autopilot = InvalidAutopilot THEN UNCHANGED state_vars
  ELSE OnHeartbeat(message.sender, message.mode, message.armed)

HandleReading(message) == OnReading(message.reading, message.value)

HandleBatteryStatus(message) ==
  OnBattery(BatteryVoltage(message.cells), NotNegative(message.remaining))

HandleSysStatus(message) ==
  OnSystemStatus(message.enabled, message.healthy, Positive(message.voltage),
                 NotNegative(message.current), NotNegative(message.remaining))

(***************************************************************************)
(* A camera or a gimbal may describe itself, but not as the autopilot.     *)
(***************************************************************************)
HandleAutopilotVersion(message) ==
  IF ~message.autopilot1 THEN UNCHANGED state_vars
  ELSE OnAutopilotMetadata(message.version)

HandleParamValue(message) ==
  IF message.id = "BATT_ARM_VOLT" THEN OnBatteryArmingVoltage(message.value)
  ELSE UNCHANGED state_vars

HandleStatusText(message) ==
  OnStatusText(message.severe, message.prearm, message.text)

HandleMessage(message) ==
  CASE message.type = "HEARTBEAT" -> HandleHeartbeat(message)
    [] message.type = "READING" -> HandleReading(message)
    [] message.type = "BATTERY_STATUS" -> HandleBatteryStatus(message)
    [] message.type = "SYS_STATUS" -> HandleSysStatus(message)
    [] message.type = "AUTOPILOT_VERSION" -> HandleAutopilotVersion(message)
    [] message.type = "PARAM_VALUE" -> HandleParamValue(message)
    [] message.type = "STATUSTEXT" -> HandleStatusText(message)
    [] OTHER -> UNCHANGED state_vars
=============================================================================
