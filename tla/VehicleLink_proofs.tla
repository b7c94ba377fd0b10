-------------------------- MODULE VehicleLink_proofs --------------------------
(***************************************************************************)
(* Whose firmware a snapshot shows, that what a vehicle complained of      *)
(* keeps it from being armable, and that the event log tells every change  *)
(* once: for any environments, any number of vehicles and any limits.      *)
(***************************************************************************)
EXTENDS VehicleLink, TLAPS

(***************************************************************************)
(* Of all messages two kinds touch what the vehicle said of itself.        *)
(***************************************************************************)
LEMMA HandlersThatHear ==
  ASSUME NEW message, HandleMessage(message)
  PROVE  \/ message.type = "HEARTBEAT" /\ HandleHeartbeat(message)
         \/ message.type = "AUTOPILOT_VERSION" /\ HandleAutopilotVersion(message)
         \/ UNCHANGED heard_vars
<1>1. CASE message.type = "HEARTBEAT"
  BY <1>1 DEF HandleMessage
<1>2. CASE message.type = "AUTOPILOT_VERSION"
  BY <1>2 DEF HandleMessage
<1>3. CASE message.type = "READING"
  BY <1>3 DEF HandleMessage, HandleReading, OnReading
<1>4. CASE message.type = "BATTERY_STATUS"
  BY <1>4 DEF HandleMessage, HandleBatteryStatus, OnBattery
<1>5. CASE message.type = "SYS_STATUS"
  BY <1>5 DEF HandleMessage, HandleSysStatus, OnSystemStatus
<1>6. CASE message.type = "PARAM_VALUE"
  BY <1>6 DEF HandleMessage, HandleParamValue, OnBatteryArmingVoltage, state_vars
<1>7. CASE message.type = "STATUSTEXT"
  BY <1>7 DEF HandleMessage, HandleStatusText, OnStatusText
<1>8. CASE message.type \notin {"HEARTBEAT", "AUTOPILOT_VERSION", "READING",
             "BATTERY_STATUS", "SYS_STATUS", "PARAM_VALUE", "STATUSTEXT"}
  BY <1>8 DEF HandleMessage, state_vars
<1> QED
  BY <1>1, <1>2, <1>3, <1>4, <1>5, <1>6, <1>7, <1>8

(***************************************************************************)
(* The inductive invariant.  An answer on its way is one of the vehicle    *)
(* shown, because a request is answered only by the vehicle it is for and  *)
(* the answers of one that is unplugged are lost; a vehicle that takes the *)
(* place of another is not yet shown.                                      *)
(***************************************************************************)
LineOK ==
  /\ environment \in Environments
  /\ plugged \in environment.vehicles \cup {NoVehicle}
  /\ heartbeat \in 0..HeartbeatTimeout
  /\ replies \subseteq {"AUTOPILOT_VERSION", "PARAM_VALUE"}

AnswersAreOfShown ==
  replies # {} => plugged # NoVehicle /\ controller = plugged.controller

ShownHasController ==
  /\ Connected => controller # NoController
  /\ controller = NoController => autopilot_metadata = NoMetadata

Invariant ==
  /\ LineOK
  /\ AnswersAreOfShown
  /\ ShownHasController
  /\ MetadataIsOfThisVehicle

LEMMA Limits == HeartbeatTimeout \in Nat /\ HeartbeatTimeout > 0
BY VehicleStateAssumption

LEMMA VehiclesHaveControllers ==
  ASSUME environment \in Environments, NEW vehicle \in environment.vehicles
  PROVE  vehicle.controller # NoController /\ vehicle # NoVehicle
BY EnvironmentsAssumption DEF NoVehicle

LEMMA InitInvariant == Init => Invariant
BY Limits DEF Init, StateInit, Invariant, LineOK, AnswersAreOfShown,
  ShownHasController, MetadataIsOfThisVehicle, Connected, NoMetadata

(***************************************************************************)
(* What a message may say of the vehicle: nothing, the heartbeat of the    *)
(* one that is plugged in, or its answer about the version.                *)
(***************************************************************************)
LEMMA MessagesAreOfPlugged ==
  ASSUME Invariant, NEW message \in Incoming, HandleMessage(message)
  PROVE  \/ UNCHANGED heard_vars
         \/ /\ plugged # NoVehicle
            /\ \E mode, is_armed :
                 OnHeartbeat(plugged.controller, mode, is_armed)
         \/ /\ replies # {}
            /\ OnAutopilotMetadata(plugged.version)
<1>1. CASE message = NoMessage
  BY <1>1, HandlersThatHear DEF NoMessage
<1>2. CASE plugged # NoVehicle /\ message \in Heartbeats
  <2>1. /\ message.type = "HEARTBEAT" /\ message.sender = plugged.controller
        /\ message.autopilot # InvalidAutopilot
    BY <1>2 DEF Heartbeats, InvalidAutopilot
  <2> QED
    BY <1>2, <2>1, HandlersThatHear DEF HandleHeartbeat
<1>3. CASE message \in Reports \cup environment.others
  <2>1. /\ message.type = "HEARTBEAT" => message.autopilot = InvalidAutopilot
        /\ message.type = "AUTOPILOT_VERSION" => ~message.autopilot1
    BY <1>3, EnvironmentsAssumption DEF Invariant, LineOK, Reports
  <2> QED
    BY <2>1, HandlersThatHear
    DEF HandleHeartbeat, HandleAutopilotVersion, state_vars
<1>4. CASE \E type \in replies : message = Answer(type)
  <2> PICK type \in replies : message = Answer(type)
    BY <1>4
  <2>1. CASE type = "AUTOPILOT_VERSION"
    <3>1. /\ message.type = "AUTOPILOT_VERSION"
          /\ message.autopilot1 /\ message.version = plugged.version
      BY <2>1 DEF Answer
    <3> QED
      BY <3>1, HandlersThatHear DEF HandleAutopilotVersion
  <2>2. CASE type = "PARAM_VALUE"
    <3>1. message.type = "PARAM_VALUE"
      BY <2>2 DEF Answer
    <3> QED
      BY <3>1, HandlersThatHear
  <2> QED
    BY <2>1, <2>2 DEF Invariant, LineOK
<1> QED
  BY <1>1, <1>2, <1>3, <1>4 DEF Incoming

LEMMA HeardInvariant ==
  ASSUME Invariant, NEW message \in Incoming, HandleMessage(message),
         UNCHANGED <<environment, plugged>>
  PROVE  /\ heartbeat' \in 0..HeartbeatTimeout
         /\ ShownHasController'
         /\ MetadataIsOfThisVehicle'
         /\ replies # {} => controller' = plugged.controller
<1>1. CASE UNCHANGED heard_vars
  BY <1>1 DEF heard_vars, Invariant, LineOK, ShownHasController,
    MetadataIsOfThisVehicle, AnswersAreOfShown, Connected
<1>2. CASE /\ plugged # NoVehicle
           /\ \E mode, is_armed :
                OnHeartbeat(plugged.controller, mode, is_armed)
  <2>1. plugged \in environment.vehicles /\ plugged.controller # NoController
    BY <1>2, VehiclesHaveControllers DEF Invariant, LineOK
  <2>2. /\ heartbeat' = HeartbeatTimeout /\ controller' = plugged.controller
        /\ autopilot_metadata' # NoMetadata =>
             /\ autopilot_metadata' = autopilot_metadata
             /\ controller = NoController \/ heartbeat # 0
             /\ controller \in {NoController, plugged.controller}
    BY <1>2 DEF OnHeartbeat, Reconnecting, ControllerChanged
  <2>3. MetadataIsOfThisVehicle'
    <3> SUFFICES ASSUME autopilot_metadata' # NoMetadata
                 PROVE  \E vehicle \in environment.vehicles :
                          /\ vehicle.controller = controller'
                          /\ vehicle.version = autopilot_metadata'
                          /\ plugged = vehicle
      BY <2>2 DEF MetadataIsOfThisVehicle
    <3>1. controller # NoController
      BY <2>2 DEF Invariant, ShownHasController
    <3>2. Connected /\ controller = plugged.controller
      BY <2>2, <3>1 DEF Invariant, LineOK, Connected
    <3> QED
      BY <2>2, <3>2 DEF Invariant, MetadataIsOfThisVehicle
  <2> QED
    BY <2>1, <2>2, <2>3, Limits DEF ShownHasController
<1>3. CASE replies # {} /\ OnAutopilotMetadata(plugged.version)
  <2>1. plugged \in environment.vehicles /\ plugged.controller # NoController
    BY <1>3, VehiclesHaveControllers DEF Invariant, LineOK, AnswersAreOfShown
  <2>2. controller' = plugged.controller /\ autopilot_metadata' = plugged.version
    BY <1>3 DEF OnAutopilotMetadata, Invariant, AnswersAreOfShown
  <2>3. heartbeat' = heartbeat
    BY <1>3 DEF OnAutopilotMetadata
  <2> QED
    BY <2>1, <2>2, <2>3
    DEF Invariant, LineOK, ShownHasController, MetadataIsOfThisVehicle, Connected
<1> QED
  BY <1>1, <1>2, <1>3, MessagesAreOfPlugged

LEMMA PollInvariant ==
  ASSUME Invariant, NEW message \in Incoming, NEW telemetry_ready \in BOOLEAN,
         NEW answered, Poll(message, telemetry_ready, answered)
  PROVE  Invariant'
<1>1. /\ HandleMessage(message)
      /\ environment' = environment /\ plugged' = plugged
      /\ replies' = (replies \ {message.type}) \cup answered
      /\ telemetry_ready => Connected'
      /\ answered \subseteq Requested(telemetry_ready)
      /\ answered = {} \/ plugged.controller = controller'
  BY DEF Poll, Request
<1>2. /\ heartbeat' \in 0..HeartbeatTimeout
      /\ ShownHasController' /\ MetadataIsOfThisVehicle'
      /\ replies # {} => controller' = plugged.controller
  BY <1>1, HeardInvariant
<1>3. /\ answered \subseteq {"AUTOPILOT_VERSION", "PARAM_VALUE"}
      /\ answered # {} => telemetry_ready
  BY <1>1 DEF Requested, VersionDue, ArmingVoltageDue
<1>4. LineOK'
  BY <1>1, <1>2, <1>3 DEF Invariant, LineOK
<1>5. CASE answered # {}
  <2>1. controller' # NoController /\ plugged.controller = controller'
    BY <1>1, <1>2, <1>3, <1>5 DEF ShownHasController
  <2>2. plugged # NoVehicle
    BY <2>1 DEF NoVehicle
  <2> QED
    BY <1>1, <1>2, <1>4, <2>1, <2>2 DEF Invariant, AnswersAreOfShown
<1>6. CASE answered = {}
  BY <1>1, <1>2, <1>4, <1>6 DEF Invariant, AnswersAreOfShown
<1> QED
  BY <1>5, <1>6

LEMMA PlugInvariant ==
  ASSUME Invariant, NEW vehicle \in environment.vehicles, Plug(vehicle)
  PROVE  Invariant'
<1>1. /\ plugged = NoVehicle /\ plugged' = vehicle
      /\ vehicle.controller = controller => heartbeat = 0
      /\ UNCHANGED <<heard_vars, environment, replies>>
  BY DEF Plug, state_vars
<1>2. replies = {}
  BY <1>1 DEF Invariant, AnswersAreOfShown
<1>3. MetadataIsOfThisVehicle'
  BY <1>1 DEF Invariant, MetadataIsOfThisVehicle, Connected, heard_vars
<1> QED
  BY <1>1, <1>2, <1>3
  DEF Invariant, LineOK, AnswersAreOfShown, ShownHasController, Connected,
      heard_vars

LEMMA UnplugInvariant ==
  ASSUME Invariant, Unplug
  PROVE  Invariant'
<1>1. /\ plugged' = NoVehicle /\ replies' = {}
      /\ UNCHANGED <<heard_vars, environment>>
  BY DEF Unplug, state_vars
<1>2. MetadataIsOfThisVehicle'
  BY <1>1
  DEF Invariant, MetadataIsOfThisVehicle, ShownHasController, Connected,
      heard_vars, NoVehicle
<1> QED
  BY <1>1, <1>2
  DEF Invariant, LineOK, AnswersAreOfShown, ShownHasController, Connected,
      heard_vars

LEMMA TickInvariant ==
  ASSUME Invariant, Tick
  PROVE  Invariant'
<1>1. /\ heartbeat' = Elapse(heartbeat)
      /\ UNCHANGED <<controller, autopilot_metadata, plugged, replies,
                     environment>>
  BY DEF Tick, StateTick, line_vars
<1>2. heartbeat' \in 0..HeartbeatTimeout /\ (heartbeat' > 0 => heartbeat > 0)
  BY <1>1, Limits DEF Invariant, LineOK, Elapse
<1> QED
  BY <1>1, <1>2
  DEF Invariant, LineOK, AnswersAreOfShown, ShownHasController, Connected,
      MetadataIsOfThisVehicle

LEMMA QuietInvariant ==
  ASSUME Invariant, UNCHANGED <<heard_vars, environment, plugged, replies>>
  PROVE  Invariant'
BY DEF Invariant, LineOK, AnswersAreOfShown, ShownHasController, Connected,
  MetadataIsOfThisVehicle, heard_vars

LEMMA StepInvariant == Invariant /\ [Next]_vars => Invariant'
<1> SUFFICES ASSUME Invariant, [Next]_vars PROVE Invariant'
  OBVIOUS
<1>1. CASE PollStep
  BY <1>1, PollInvariant DEF PollStep
<1>2. CASE \E vehicle \in environment.vehicles : Plug(vehicle)
  BY <1>2, PlugInvariant
<1>3. CASE Unplug
  BY <1>3, UnplugInvariant
<1>4. CASE Settle
  BY <1>4, QuietInvariant DEF Settle, state_vars
<1>5. CASE Worsen
  BY <1>5, QuietInvariant DEF Worsen, state_vars
<1>6. CASE Tick
  BY <1>6, TickInvariant
<1>7. CASE UNCHANGED vars
  BY <1>7, QuietInvariant DEF vars, state_vars, line_vars
<1> QED
  BY <1>1, <1>2, <1>3, <1>4, <1>5, <1>6, <1>7 DEF Next

(***************************************************************************)
(* MetadataIsOfThisVehicle: over reconnections and exchanges of vehicles,  *)
(* late answers and talkative neighbours, the firmware shown is that of    *)
(* the flight controller whose heartbeats are shown.                       *)
(***************************************************************************)
THEOREM MetadataCorrect == Spec => []MetadataIsOfThisVehicle
<1>1. Invariant => MetadataIsOfThisVehicle
  BY DEF Invariant
<1> QED
  BY <1>1, InitInvariant, StepInvariant, PTL DEF Spec

-----------------------------------------------------------------------------
(***************************************************************************)
(* Readiness.  First which handler a message reaches, and that its fields  *)
(* are what the handlers take them for.                                    *)
(***************************************************************************)
LEMMA Handlers ==
  ASSUME NEW message, HandleMessage(message)
  PROVE  \/ message.type = "HEARTBEAT" /\ HandleHeartbeat(message)
         \/ message.type = "READING" /\ HandleReading(message)
         \/ message.type = "BATTERY_STATUS" /\ HandleBatteryStatus(message)
         \/ message.type = "SYS_STATUS" /\ HandleSysStatus(message)
         \/ message.type = "AUTOPILOT_VERSION" /\ HandleAutopilotVersion(message)
         \/ message.type = "PARAM_VALUE" /\ HandleParamValue(message)
         \/ message.type = "STATUSTEXT" /\ HandleStatusText(message)
         \/ /\ message.type \notin {"READING", "BATTERY_STATUS", "SYS_STATUS",
                                    "PARAM_VALUE", "STATUSTEXT"}
            /\ UNCHANGED state_vars
<1>1. CASE message.type = "HEARTBEAT"
  BY <1>1 DEF HandleMessage
<1>2. CASE message.type = "AUTOPILOT_VERSION"
  BY <1>2 DEF HandleMessage
<1>3. CASE message.type = "READING"
  BY <1>3 DEF HandleMessage
<1>4. CASE message.type = "BATTERY_STATUS"
  BY <1>4 DEF HandleMessage
<1>5. CASE message.type = "SYS_STATUS"
  BY <1>5 DEF HandleMessage
<1>6. CASE message.type = "PARAM_VALUE"
  BY <1>6 DEF HandleMessage
<1>7. CASE message.type = "STATUSTEXT"
  BY <1>7 DEF HandleMessage
<1>8. CASE message.type \notin {"HEARTBEAT", "AUTOPILOT_VERSION", "READING",
             "BATTERY_STATUS", "SYS_STATUS", "PARAM_VALUE", "STATUSTEXT"}
  BY <1>8 DEF HandleMessage
<1> QED
  BY <1>1, <1>2, <1>3, <1>4, <1>5, <1>6, <1>7, <1>8

Sound(message) ==
  /\ WellFormed(message)
  /\ message.type = "HEARTBEAT" /\ message.autopilot # InvalidAutopilot =>
       /\ message.sender \in Controllers
       /\ message.mode \in FlightModes /\ message.armed \in BOOLEAN
  /\ message.type = "AUTOPILOT_VERSION" /\ message.autopilot1 =>
       message.version \in Nat
  /\ message.type = "PARAM_VALUE" /\ message.id = "BATT_ARM_VOLT" =>
       \E vehicle \in environment.vehicles : message.value = vehicle.arming

LEMMA IncomingIsSound ==
  ASSUME environment \in Environments,
         plugged \in environment.vehicles \cup {NoVehicle},
         replies \subseteq {"AUTOPILOT_VERSION", "PARAM_VALUE"},
         NEW message \in Incoming
  PROVE  Sound(message)
<1>1. CASE message = NoMessage
  BY <1>1 DEF NoMessage, Sound, WellFormed
<1>2. CASE plugged # NoVehicle /\ message \in Heartbeats
  <2> PICK status \in environment.statuses :
        message = [type |-> "HEARTBEAT", sender |-> plugged.controller,
                   autopilot |-> "MAV_AUTOPILOT_ARDUPILOTMEGA",
                   mode |-> status.mode, armed |-> status.armed]
    BY <1>2 DEF Heartbeats
  <2>1. /\ message.type = "HEARTBEAT" /\ message.sender = plugged.controller
        /\ message.mode = status.mode /\ message.armed = status.armed
    OBVIOUS
  <2>2. /\ plugged.controller \in Controllers
        /\ status.mode \in FlightModes /\ status.armed \in BOOLEAN
    BY <1>2, EnvironmentsAssumption
  <2> QED
    BY <2>1, <2>2 DEF Sound, WellFormed
<1>3. CASE message \in Reports \cup environment.others
  BY <1>3, EnvironmentsAssumption DEF Reports, Sound
<1>4. CASE plugged # NoVehicle /\ \E type \in replies : message = Answer(type)
  <2>1. plugged \in environment.vehicles /\ plugged.version \in Nat
    BY <1>4, EnvironmentsAssumption
  <2> PICK type \in replies : message = Answer(type)
    BY <1>4
  <2>2. CASE type = "AUTOPILOT_VERSION"
    <3>1. message.type = "AUTOPILOT_VERSION" /\ message.version = plugged.version
      BY <2>2 DEF Answer
    <3> QED
      BY <2>1, <3>1 DEF Sound, WellFormed
  <2>3. CASE type = "PARAM_VALUE"
    <3>1. message.type = "PARAM_VALUE" /\ message.value = plugged.arming
      BY <2>3 DEF Answer
    <3> QED
      BY <2>1, <3>1 DEF Sound, WellFormed
  <2> QED
    BY <2>2, <2>3
<1> QED
  BY <1>1, <1>2, <1>3, <1>4 DEF Incoming

(***************************************************************************)
(* The types.  A reading is a record of these two fields, which the type   *)
(* invariant need not say.                                                 *)
(***************************************************************************)

Typed ==
  /\ environment \in Environments
  /\ VehicleTypeOK
  /\ readings \in [Readings -> [value: ReadingValues \cup {NoValue}, fresh: Nat]]

LEMMA StateLimits ==
  /\ "gps" \in Readings /\ ReadingValues \subseteq Nat
  /\ BatteryTimeout \in Nat /\ BatteryTimeout > 0
  /\ SystemStatusTimeout \in Nat /\ SystemStatusTimeout > 0
  /\ WarningTimeout \in Nat /\ WarningTimeout > 0
  /\ BlockingWarningTimeout \in Nat /\ BlockingWarningTimeout > 0
  /\ BlockingWarningTimeout <= WarningTimeout
  /\ MinimumBatteryPercent \in Nat
  /\ \A reading \in Readings :
       ReadingTimeout[reading] \in Nat /\ ReadingTimeout[reading] > 0
BY VehicleStateAssumption

LEMMA HeardTyped ==
  ASSUME StateTypeOK, NEW message, Sound(message), HandleMessage(message)
  PROVE  /\ heartbeat' \in 0..HeartbeatTimeout
         /\ controller' \in Controllers \cup {NoController}
         /\ flight_mode' \in FlightModes \cup {NoValue}
         /\ armed' \in BOOLEAN
         /\ autopilot_metadata' \in Nat
<1>1. CASE UNCHANGED heard_vars
  BY <1>1 DEF heard_vars, StateTypeOK
<1>2. CASE message.type = "HEARTBEAT" /\ HandleHeartbeat(message)
  <2>1. CASE message.autopilot = InvalidAutopilot
    BY <1>1, <1>2, <2>1 DEF HandleHeartbeat, state_vars
  <2>2. CASE message.autopilot # InvalidAutopilot
    <3>1. OnHeartbeat(message.sender, message.mode, message.armed)
      BY <1>2, <2>2 DEF HandleHeartbeat
    <3>2. autopilot_metadata' \in Nat
      BY <3>1 DEF OnHeartbeat, StateTypeOK, NoMetadata
    <3>3. armed' \in BOOLEAN
      BY <1>2, <2>2, <3>1 DEF OnHeartbeat, Sound
    <3> QED
      BY <1>2, <2>2, <3>1, <3>2, <3>3, Limits DEF OnHeartbeat, Sound
  <2> QED
    BY <2>1, <2>2
<1>3. CASE message.type = "AUTOPILOT_VERSION" /\ HandleAutopilotVersion(message)
  <2>1. CASE ~message.autopilot1
    BY <1>1, <1>3, <2>1 DEF HandleAutopilotVersion, state_vars
  <2>2. CASE message.autopilot1
    BY <1>3, <2>2 DEF HandleAutopilotVersion, OnAutopilotMetadata, Sound, StateTypeOK
  <2> QED
    BY <2>1, <2>2
<1> QED
  BY <1>1, <1>2, <1>3, HandlersThatHear

LEMMA ReadingTyped ==
  ASSUME NEW message, Sound(message), HandleReading(message),
         message.type = "READING",
         readings \in [Readings -> [value: ReadingValues \cup {NoValue}, fresh: Nat]],
         StateTypeOK
  PROVE  /\ readings' \in [Readings -> [value: ReadingValues \cup {NoValue},
                                        fresh: Nat]]
         /\ \A reading \in Readings :
              readings'[reading].fresh \in 0..ReadingTimeout[reading]
<1> DEFINE reading == message.reading
           entry == [value |-> message.value, fresh |-> ReadingTimeout[reading]]
<1>1. /\ reading \in Readings /\ message.value \in ReadingValues
      /\ ReadingTimeout[reading] \in Nat
  BY StateLimits DEF Sound, WellFormed
<1>2. readings' = [readings EXCEPT ![reading] = entry]
  BY DEF HandleReading, OnReading
<1>3. entry \in [value: ReadingValues \cup {NoValue}, fresh: Nat]
  BY <1>1
<1>4. readings' \in [Readings -> [value: ReadingValues \cup {NoValue}, fresh: Nat]]
  BY <1>2, <1>3
<1>5. ASSUME NEW other \in Readings
      PROVE  readings'[other].fresh \in 0..ReadingTimeout[other]
  <2>1. CASE other = reading
    BY <1>1, <1>2, <2>1
  <2>2. CASE other # reading
    <3>1. readings'[other] = readings[other]
      BY <1>1, <1>2, <2>2
    <3> QED
      BY <3>1 DEF StateTypeOK
  <2> QED
    BY <2>1, <2>2
<1> QED
  BY <1>4, <1>5

BatteryRecord ==
  [voltage: Nat \cup {NoValue}, remaining: Nat \cup {NoValue},
   fresh: 0..BatteryTimeout]

LEMMA UpdatedBatteryTyped ==
  ASSUME battery \in BatteryRecord,
         NEW voltage \in Nat \cup {NoValue}, NEW remaining \in Nat \cup {NoValue}
  PROVE  UpdatedBattery(voltage, remaining) \in BatteryRecord
BY StateLimits DEF BatteryRecord, UpdatedBattery

LEMMA OptionalValues ==
  ASSUME NEW value \in Int
  PROVE  /\ Positive(value) \in Nat \cup {NoValue}
         /\ NotNegative(value) \in Nat \cup {NoValue}
BY DEF Positive, NotNegative, NoValue

LEMMA StatusTyped ==
  ASSUME NEW message, Sound(message), HandleSysStatus(message),
         message.type = "SYS_STATUS", StateTypeOK
  PROVE  /\ battery' \in BatteryRecord
         /\ sensors' \in [enabled: SUBSET Sensors, healthy: SUBSET Sensors,
                          fresh: 0..SystemStatusTimeout]
<1>1. /\ message.enabled \in SUBSET Sensors /\ message.healthy \in SUBSET Sensors
      /\ message.voltage \in Int /\ message.remaining \in Int
  BY DEF Sound, WellFormed
<1>2. UpdatedBattery(Positive(message.voltage), NotNegative(message.remaining))
        \in BatteryRecord
  BY <1>1, OptionalValues, UpdatedBatteryTyped DEF StateTypeOK, BatteryRecord
<1>3. battery' \in BatteryRecord
  BY <1>2 DEF HandleSysStatus, OnSystemStatus, StateTypeOK, BatteryRecord
<1>4. sensors' = [enabled |-> message.enabled, healthy |-> message.healthy,
                  fresh |-> SystemStatusTimeout]
  BY DEF HandleSysStatus, OnSystemStatus
<1> QED
  BY <1>1, <1>3, <1>4, StateLimits

HealthOK ==
  /\ readings \in [Readings -> [value: ReadingValues \cup {NoValue}, fresh: Nat]]
  /\ \A reading \in Readings :
       readings[reading].fresh \in 0..ReadingTimeout[reading]
  /\ battery \in BatteryRecord
  /\ battery_arming_voltage \in Nat \cup {NoValue}
  /\ sensors \in [enabled: SUBSET Sensors, healthy: SUBSET Sensors,
                  fresh: 0..SystemStatusTimeout]
  /\ warnings \in [Texts -> 0..WarningTimeout]

LEMMA HealthTyped ==
  ASSUME Typed, NEW message, Sound(message), HandleMessage(message)
  PROVE  HealthOK'
<1>1. StateTypeOK /\ HealthOK
  BY DEF Typed, VehicleTypeOK, StateTypeOK, BatteryRecord, HealthOK
<1>2. CASE UNCHANGED health_vars
  BY <1>1, <1>2 DEF health_vars, HealthOK
<1>3. CASE message.type = "HEARTBEAT" /\ HandleHeartbeat(message)
  BY <1>2, <1>3 DEF HandleHeartbeat, OnHeartbeat, state_vars
<1>4. CASE message.type = "AUTOPILOT_VERSION" /\ HandleAutopilotVersion(message)
  BY <1>2, <1>4 DEF HandleAutopilotVersion, OnAutopilotMetadata, state_vars
<1>5. CASE message.type = "READING" /\ HandleReading(message)
  <2>1. UNCHANGED <<battery, battery_arming_voltage, sensors, warnings>>
    BY <1>5 DEF HandleReading, OnReading
  <2> QED
    BY <1>1, <1>5, <2>1, ReadingTyped DEF HealthOK
<1>6. CASE message.type = "BATTERY_STATUS" /\ HandleBatteryStatus(message)
  <2>1. /\ battery' = UpdatedBattery(BatteryVoltage(message.cells),
                                     NotNegative(message.remaining))
        /\ UNCHANGED <<readings, battery_arming_voltage, sensors, warnings>>
    BY <1>6 DEF HandleBatteryStatus, OnBattery
  <2>2. /\ BatteryVoltage(message.cells) \in Nat \cup {NoValue}
        /\ message.remaining \in Int
    BY <1>6 DEF Sound, WellFormed
  <2>3. battery' \in BatteryRecord
    BY <1>1, <2>1, <2>2, OptionalValues, UpdatedBatteryTyped DEF HealthOK
  <2> QED
    BY <1>1, <2>1, <2>3 DEF HealthOK
<1>7. CASE message.type = "SYS_STATUS" /\ HandleSysStatus(message)
  <2>1. UNCHANGED <<readings, battery_arming_voltage, warnings>>
    BY <1>7 DEF HandleSysStatus, OnSystemStatus
  <2> QED
    BY <1>1, <1>7, <2>1, StatusTyped DEF HealthOK
<1>8. CASE message.type = "PARAM_VALUE" /\ HandleParamValue(message)
  <2>1. CASE message.id # "BATT_ARM_VOLT"
    BY <1>2, <1>8, <2>1 DEF HandleParamValue, state_vars
  <2>2. CASE message.id = "BATT_ARM_VOLT"
    <3>1. message.value \in Nat
      BY <1>8, <2>2, EnvironmentsAssumption DEF Sound, Typed
    <3>2. battery_arming_voltage' \in Nat
      BY <1>8, <2>2, <3>1 DEF HandleParamValue, OnBatteryArmingVoltage
    <3>3. UNCHANGED <<readings, battery, sensors, warnings>>
      BY <1>8, <2>2 DEF HandleParamValue, OnBatteryArmingVoltage
    <3> QED
      BY <1>1, <3>2, <3>3 DEF HealthOK
  <2> QED
    BY <2>1, <2>2
<1>9. CASE message.type = "STATUSTEXT" /\ HandleStatusText(message)
  <2>1. UNCHANGED <<readings, battery, battery_arming_voltage, sensors>>
    BY <1>9 DEF HandleStatusText, OnStatusText
  <2>2. warnings' \in [Texts -> 0..WarningTimeout]
    BY <1>1, <1>9, StateLimits DEF HandleStatusText, OnStatusText, HealthOK
  <2> QED
    BY <1>1, <2>1, <2>2 DEF HealthOK
<1> QED
  BY <1>2, <1>3, <1>4, <1>5, <1>6, <1>7, <1>8, <1>9, Handlers DEF state_vars

(***************************************************************************)
(* A tick keeps the types: what is stale for good is dropped whole.        *)
(***************************************************************************)
LEMMA TickTyped ==
  ASSUME Typed, StateTick
  PROVE  HealthOK' /\ heartbeat' \in 0..HeartbeatTimeout
<1>1. HealthOK /\ heartbeat \in 0..HeartbeatTimeout
  BY DEF Typed, VehicleTypeOK, StateTypeOK, BatteryRecord, HealthOK
<1>2. ASSUME NEW reading \in Readings
      PROVE  /\ readings'[reading] \in [value: ReadingValues \cup {NoValue},
                                        fresh: Nat]
             /\ readings'[reading].fresh \in 0..ReadingTimeout[reading]
  <2> DEFINE old == readings[reading]
  <2>1. /\ old \in [value: ReadingValues \cup {NoValue}, fresh: Nat]
        /\ old.fresh \in 0..ReadingTimeout[reading]
        /\ ReadingTimeout[reading] \in Nat
    BY <1>1, StateLimits DEF HealthOK
  <2>2. readings'[reading] = IF old.fresh <= 1 THEN NoReading
                             ELSE [old EXCEPT !.fresh = old.fresh - 1]
    BY DEF StateTick
  <2>3. CASE old.fresh <= 1
    BY <2>1, <2>2, <2>3 DEF NoReading
  <2>4. CASE ~(old.fresh <= 1)
    <3>1. readings'[reading] = [value |-> old.value, fresh |-> old.fresh - 1]
      BY <2>1, <2>2, <2>4
    <3> QED
      BY <2>1, <2>4, <3>1
  <2> QED
    BY <2>3, <2>4
<1>3. readings' \in [Readings -> [value: ReadingValues \cup {NoValue}, fresh: Nat]]
  BY <1>2 DEF StateTick
<1>4. battery' \in BatteryRecord
  <2>1. battery' = [voltage |-> battery.voltage, remaining |-> battery.remaining,
                    fresh |-> Elapse(battery.fresh)]
    BY <1>1 DEF HealthOK, BatteryRecord, StateTick
  <2>2. Elapse(battery.fresh) \in 0..BatteryTimeout
    BY <1>1, StateLimits DEF HealthOK, BatteryRecord, Elapse
  <2> QED
    BY <1>1, <2>1, <2>2 DEF HealthOK, BatteryRecord
<1>5. sensors' \in [enabled: SUBSET Sensors, healthy: SUBSET Sensors,
                    fresh: 0..SystemStatusTimeout]
  <2>1. CASE sensors.fresh <= 1
    BY <2>1, StateLimits DEF StateTick, NoSensors
  <2>2. CASE ~(sensors.fresh <= 1)
    <3>1. sensors' = [enabled |-> sensors.enabled, healthy |-> sensors.healthy,
                      fresh |-> sensors.fresh - 1]
      BY <1>1, <2>2 DEF StateTick, HealthOK
    <3> QED
      BY <1>1, <2>2, <3>1, StateLimits DEF HealthOK
  <2> QED
    BY <2>1, <2>2
<1>6. warnings' \in [Texts -> 0..WarningTimeout]
  BY <1>1, StateLimits DEF HealthOK, StateTick, Elapse
<1>7. battery_arming_voltage' = battery_arming_voltage
  BY DEF StateTick
<1>8. heartbeat' \in 0..HeartbeatTimeout
  BY <1>1, Limits DEF StateTick, Elapse
<1> QED
  BY <1>1, <1>2, <1>3, <1>4, <1>5, <1>6, <1>7, <1>8 DEF HealthOK

LEMMA ScheduleLimits ==
  /\ VersionRetry \in Nat /\ VersionRetry > 0
  /\ BatteryRetry \in Nat /\ BatteryRetry > 0
BY VehicleLinkAssumption

TimersOK ==
  /\ next_autopilot_version_request \in 0..VersionRetry
  /\ next_battery_parameter_request \in 0..BatteryRetry
  /\ alarm \in 0..BlockingWarningTimeout

LEMMA InitTyped == Init => Typed
<1> SUFFICES ASSUME Init PROVE Typed
  OBVIOUS
<1>1. HealthOK
  BY StateLimits
  DEF Init, StateInit, HealthOK, BatteryRecord, NoReading, NoSensors, NoValue
<1>2. armed \in BOOLEAN
  BY DEF Init, StateInit
<1>3. StateTypeOK
  BY <1>1, <1>2, Limits
  DEF Init, StateInit, NoMetadata, HealthOK, BatteryRecord, StateTypeOK
<1>4. /\ steady \in BOOLEAN /\ vehicle_was_connected \in BOOLEAN
      /\ autopilot_metadata_was_available \in BOOLEAN
  BY DEF Init
<1>5. TimersOK
  BY StateLimits, ScheduleLimits DEF Init, TimersOK
<1>6. VehicleTypeOK
  BY <1>3, <1>4, <1>5 DEF Init, VehicleTypeOK, TimersOK
<1> QED
  BY <1>1, <1>6 DEF Init, Typed, HealthOK

LEMMA PollTyped ==
  ASSUME Typed, NEW message \in Incoming, NEW telemetry_ready \in BOOLEAN,
         NEW answered, Poll(message, telemetry_ready, answered)
  PROVE  Typed'
<1>1. /\ HandleMessage(message) /\ ObserveVehicle /\ Remember(message)
      /\ Request(telemetry_ready, answered)
      /\ replies' = (replies \ {message.type}) \cup answered
      /\ UNCHANGED <<environment, plugged, steady>>
  BY DEF Poll
<1>2. Sound(message)
  BY IncomingIsSound DEF Typed, VehicleTypeOK
<1>3. HealthOK'
  BY <1>1, <1>2, HealthTyped
<1>4. /\ heartbeat' \in 0..HeartbeatTimeout
      /\ controller' \in Controllers \cup {NoController}
      /\ flight_mode' \in FlightModes \cup {NoValue}
      /\ autopilot_metadata' \in Nat
  BY <1>1, <1>2, HeardTyped DEF Typed, VehicleTypeOK
<1>5. armed' \in BOOLEAN
  BY <1>1, <1>2, HeardTyped DEF Typed, VehicleTypeOK
<1>6. StateTypeOK'
  BY <1>3, <1>4, <1>5 DEF HealthOK, BatteryRecord, StateTypeOK
<1>7. replies' \subseteq {"AUTOPILOT_VERSION", "PARAM_VALUE"}
  BY <1>1 DEF Typed, VehicleTypeOK, Request, Requested
<1>8. TimersOK'
  <2>1. TimersOK
    BY DEF Typed, VehicleTypeOK, TimersOK
  <2>2. /\ next_autopilot_version_request' \in
             {VersionRetry, next_autopilot_version_request}
        /\ next_battery_parameter_request' \in
             {BatteryRetry, next_battery_parameter_request}
        /\ alarm' \in {BlockingWarningTimeout, alarm}
    BY <1>1 DEF Request, Remember
  <2> QED
    BY <2>1, <2>2, StateLimits, ScheduleLimits DEF TimersOK
<1>9. /\ vehicle_was_connected' \in BOOLEAN
      /\ autopilot_metadata_was_available' \in BOOLEAN
  BY <1>1 DEF ObserveVehicle, Connected
<1>10. previous_flight_mode' \in FlightModes \cup {NoValue}
  BY <1>1, <1>4 DEF ObserveVehicle
<1>11. previous_armed' \in {{}, {TRUE}, {FALSE}}
  BY <1>1, <1>5 DEF ObserveVehicle
<1>12. steady' \in BOOLEAN
  BY <1>1 DEF Typed, VehicleTypeOK
<1>13. plugged' \in environment'.vehicles \cup {NoVehicle}
  BY <1>1 DEF Typed, VehicleTypeOK
<1>14. VehicleTypeOK'
  BY <1>6, <1>7, <1>8, <1>9, <1>10, <1>11, <1>12, <1>13
  DEF VehicleTypeOK, TimersOK
<1> QED
  BY <1>1, <1>3, <1>14 DEF Typed, HealthOK

LEMMA ClockTyped ==
  ASSUME Typed, Tick
  PROVE  Typed'
<1>1. /\ StateTick
      /\ alarm' = Elapse(alarm)
      /\ next_autopilot_version_request' = Elapse(next_autopilot_version_request)
      /\ next_battery_parameter_request' = Elapse(next_battery_parameter_request)
      /\ UNCHANGED <<observer_vars, line_vars, environment>>
  BY DEF Tick
<1>2. UNCHANGED <<controller, flight_mode, armed, autopilot_metadata>>
  BY <1>1 DEF StateTick
<1>3. StateTypeOK'
  <2>1. HealthOK' /\ heartbeat' \in 0..HeartbeatTimeout
    BY <1>1, TickTyped
  <2>2. armed' \in BOOLEAN
    BY <1>2 DEF Typed, VehicleTypeOK, StateTypeOK
  <2>3. /\ controller' \in Controllers \cup {NoController}
        /\ flight_mode' \in FlightModes \cup {NoValue}
        /\ autopilot_metadata' \in Nat
    BY <1>2 DEF Typed, VehicleTypeOK, StateTypeOK
  <2> QED
    BY <2>1, <2>2, <2>3 DEF HealthOK, BatteryRecord, StateTypeOK
<1>4. TimersOK'
  <2>1. TimersOK
    BY DEF Typed, VehicleTypeOK, TimersOK
  <2>2. ASSUME NEW limit \in Nat, NEW timer \in 0..limit
        PROVE  Elapse(timer) \in 0..limit
    BY DEF Elapse
  <2> QED
    BY <1>1, <2>1, <2>2, StateLimits, ScheduleLimits DEF TimersOK
<1>5. VehicleTypeOK'
  BY <1>1, <1>3, <1>4 DEF Typed, VehicleTypeOK, TimersOK, observer_vars, line_vars
<1> QED
  BY <1>1, <1>5, TickTyped DEF Typed, HealthOK

(***************************************************************************)
(* Steps that leave the vehicle's state alone.                             *)
(***************************************************************************)
LEMMA LineTyped ==
  ASSUME Typed,
         UNCHANGED <<state_vars, schedule_vars, observer_vars, alarm, environment>>,
         plugged' \in environment.vehicles \cup {NoVehicle},
         steady' \in BOOLEAN,
         replies' \subseteq replies
  PROVE  Typed'
<1>1. StateTypeOK'
  BY DEF Typed, VehicleTypeOK, StateTypeOK, state_vars, heard_vars, health_vars
<1>2. VehicleTypeOK'
  BY <1>1 DEF Typed, VehicleTypeOK, schedule_vars, observer_vars
<1> QED
  BY <1>2 DEF Typed, state_vars, health_vars

LEMMA StepTyped == Typed /\ [Next]_vars => Typed'
<1> SUFFICES ASSUME Typed, [Next]_vars PROVE Typed'
  OBVIOUS
<1>1. plugged \in environment.vehicles \cup {NoVehicle} /\ steady \in BOOLEAN
  BY DEF Typed, VehicleTypeOK
<1>2. CASE PollStep
  BY <1>2, PollTyped DEF PollStep
<1>3. CASE \E vehicle \in environment.vehicles : Plug(vehicle)
  BY <1>1, <1>3, LineTyped DEF Plug, history_vars
<1>4. CASE Unplug
  BY <1>4, LineTyped DEF Unplug, history_vars
<1>5. CASE Settle
  BY <1>1, <1>5, LineTyped DEF Settle, history_vars
<1>6. CASE Worsen
  BY <1>1, <1>6, LineTyped DEF Worsen, history_vars
<1>7. CASE Tick
  BY <1>7, ClockTyped
<1>8. CASE UNCHANGED vars
  BY <1>1, <1>8, LineTyped DEF vars, line_vars, history_vars
<1> QED
  BY <1>2, <1>3, <1>4, <1>5, <1>6, <1>7, <1>8 DEF Next

-----------------------------------------------------------------------------
(***************************************************************************)
(* Where each complaint shows: the part of the state that keeps the        *)
(* vehicle from being armable as long as nothing later answers the         *)
(* complaint.  Vehicles that take each other's place share an arming       *)
(* voltage: VehicleState keeps that of the one before.                     *)
(***************************************************************************)
SameArmingVoltage ==
  \A one \in Environments : \A vehicle, other \in one.vehicles :
    vehicle.arming = other.arming

GpsShown == "gps" \in problems => ~GpsReady

VoltageShown ==
  "voltage" \in problems =>
    /\ battery.voltage # NoValue
    /\ \A vehicle \in environment.vehicles : battery.voltage < vehicle.arming

RemainingShown ==
  "remaining" \in problems =>
    battery.remaining # NoValue /\ battery.remaining < MinimumBatteryPercent

SensorsShown ==
  "sensors" \in problems => ~(SystemHealthOk /\ BatterySensorHealthy)

ThresholdIsOfVehicle ==
  battery_arming_voltage # NoValue =>
    \E vehicle \in environment.vehicles : battery_arming_voltage = vehicle.arming

AlarmShown ==
  alarm > 0 =>
    \E text \in Texts :
      warnings[text] >= alarm + (WarningTimeout - BlockingWarningTimeout)

Shown ==
  /\ problems \subseteq {"gps", "voltage", "remaining", "sensors"}
  /\ GpsShown /\ VoltageShown /\ RemainingShown /\ SensorsShown
  /\ ThresholdIsOfVehicle
  /\ AlarmShown

LEMMA ShownProblemsBlock ==
  ASSUME Typed, Shown
  PROVE  ProblemsBlockArming
<1> SUFFICES ASSUME Armable PROVE problems = {} /\ alarm = 0
  BY DEF ProblemsBlockArming
<1>1. "gps" \notin problems
  BY DEF Armable, Shown, GpsShown
<1>2. "sensors" \notin problems
  BY DEF Armable, BatteryReady, Shown, SensorsShown
<1>3. HealthOK
  BY DEF Typed, VehicleTypeOK, StateTypeOK, BatteryRecord, HealthOK
<1>4. "voltage" \notin problems
  <2> SUFFICES ASSUME "voltage" \in problems PROVE FALSE
    OBVIOUS
  <2>1. /\ battery.voltage # NoValue /\ battery_arming_voltage # NoValue
        /\ battery_arming_voltage = 0 \/ battery.voltage >= battery_arming_voltage
    BY DEF Armable, BatteryReady, VoltageMeetsArmingThreshold
  <2>2. PICK vehicle \in environment.vehicles :
          battery_arming_voltage = vehicle.arming
    BY <2>1 DEF Shown, ThresholdIsOfVehicle
  <2>3. battery.voltage < battery_arming_voltage
    BY <2>2 DEF Shown, VoltageShown
  <2>4. battery.voltage \in Nat /\ battery_arming_voltage \in Nat
    BY <1>3, <2>1 DEF HealthOK, BatteryRecord
  <2> QED
    BY <2>1, <2>3, <2>4
<1>5. "remaining" \notin problems
  <2> SUFFICES ASSUME "remaining" \in problems PROVE FALSE
    OBVIOUS
  <2>1. battery.remaining # NoValue /\ battery.remaining < MinimumBatteryPercent
    BY DEF Shown, RemainingShown
  <2>2. battery.remaining >= MinimumBatteryPercent
    BY <2>1 DEF Armable, BatteryReady
  <2>3. battery.remaining \in Nat
    BY <1>3, <2>1 DEF HealthOK, BatteryRecord
  <2> QED
    BY <2>1, <2>2, <2>3, StateLimits
<1>6. alarm = 0
  <2> SUFFICES ASSUME alarm # 0 PROVE FALSE
    OBVIOUS
  <2>1. alarm \in Nat /\ alarm > 0
    BY StateLimits DEF Typed, VehicleTypeOK
  <2>2. PICK text \in Texts :
          warnings[text] >= alarm + (WarningTimeout - BlockingWarningTimeout)
    BY <2>1 DEF Shown, AlarmShown
  <2>3. warnings[text] > WarningTimeout - BlockingWarningTimeout
    BY <1>3, <2>1, <2>2, StateLimits DEF HealthOK
  <2> QED
    BY <2>3 DEF Armable, HasRecentWarning
<1> QED
  BY <1>1, <1>2, <1>4, <1>5, <1>6 DEF Shown

(***************************************************************************)
(* What a message complains of.                                            *)
(***************************************************************************)
LEMMA PowerComplaints ==
  ASSUME NEW voltage, NEW remaining
  PROVE  LET power == BatteryComplaints(voltage, remaining) IN
         /\ power.judged \subseteq {"voltage", "remaining"}
         /\ power.bad \subseteq power.judged
         /\ "voltage" \in power.judged <=> voltage # NoValue
         /\ "remaining" \in power.judged <=> remaining # NoValue
         /\ "voltage" \in power.bad => voltage < plugged.arming
         /\ "remaining" \in power.bad => remaining < MinimumBatteryPercent
BY DEF BatteryComplaints, Judged, Known, Low

LEMMA ReadingComplaints ==
  ASSUME NEW message, message.type = "READING"
  PROVE  /\ Complaints(message).judged = {message.reading}
         /\ Complaints(message).bad \subseteq {"gps"}
         /\ "gps" \in Complaints(message).bad =>
              message.reading = "gps" /\ message.value < 3
BY DEF Complaints

LEMMA BatteryStatusComplaints ==
  ASSUME NEW message, message.type = "BATTERY_STATUS"
  PROVE  Complaints(message) =
           BatteryComplaints(BatteryVoltage(message.cells),
                             NotNegative(message.remaining))
BY DEF Complaints

LEMMA SysStatusComplaints ==
  ASSUME NEW message, message.type = "SYS_STATUS"
  PROVE  LET power == BatteryComplaints(Positive(message.voltage),
                                        NotNegative(message.remaining))
             said == Complaints(message) IN
         /\ said.judged = power.judged \cup {"sensors"}
         /\ said.bad \subseteq power.bad \cup {"sensors"}
         /\ power.bad \subseteq said.bad
         /\ "sensors" \in said.bad \ power.bad =>
              ~({"battery"} \cup message.enabled
                  \subseteq message.healthy \cap message.enabled)
BY DEF Complaints

LEMMA NoComplaints ==
  ASSUME NEW message, message.type \notin {"READING", "BATTERY_STATUS", "SYS_STATUS"}
  PROVE  Complaints(message).judged = {} /\ Complaints(message).bad = {}
BY DEF Complaints

LEMMA SomebodySends ==
  ASSUME Typed, NEW message \in Incoming,
         message.type \in {"BATTERY_STATUS", "SYS_STATUS"}
  PROVE  plugged \in environment.vehicles
BY DEF Incoming, NoMessage, Typed, VehicleTypeOK

-----------------------------------------------------------------------------
(***************************************************************************)
(* Each of them is kept by a message.                                      *)
(***************************************************************************)
Heard(message) ==
  /\ message \in Incoming /\ Sound(message)
  /\ HandleMessage(message) /\ Remember(message)
  /\ UNCHANGED <<environment, plugged>>

LEMMA GpsStaysShown ==
  ASSUME Typed, Shown, NEW message, Heard(message)
  PROVE  GpsShown'
<1>1. "gps" \in Readings
  BY StateLimits
<1>2. /\ HandleMessage(message)
      /\ problems' = (problems \ Complaints(message).judged)
                       \cup Complaints(message).bad
  BY DEF Heard, Remember
<1>3. CASE message.type = "READING"
  <2>1. /\ message.reading \in Readings /\ message.value \in Nat
        /\ readings' = [readings EXCEPT ![message.reading] =
             [value |-> message.value, fresh |-> ReadingTimeout[message.reading]]]
    BY <1>2, <1>3, Handlers, StateLimits
    DEF Heard, Sound, WellFormed, HandleReading, OnReading
  <2>2. CASE message.reading = "gps"
    <3>1. readings'["gps"].value = message.value
      BY <1>1, <2>1, <2>2 DEF Typed
    <3>2. "gps" \in problems' => message.value < 3
      BY <1>2, <1>3, <2>2, ReadingComplaints
    <3> QED
      BY <2>1, <3>1, <3>2 DEF GpsShown, GpsReady
  <2>3. CASE message.reading # "gps"
    <3>1. readings'["gps"] = readings["gps"]
      BY <1>1, <2>1, <2>3 DEF Typed
    <3>2. "gps" \in problems' => "gps" \in problems
      BY <1>2, <1>3, <2>3, ReadingComplaints
    <3> QED
      BY <3>1, <3>2 DEF Shown, GpsShown, GpsReady
  <2> QED
    BY <2>2, <2>3
<1>4. CASE message.type # "READING"
  <2>1. readings' = readings
    <3>1. CASE UNCHANGED state_vars
      BY <3>1 DEF state_vars, health_vars
    <3> QED
      BY <1>2, <1>4, <3>1, Handlers
      DEF HandleHeartbeat, OnHeartbeat, health_vars, HandleBatteryStatus, OnBattery,
          HandleSysStatus, OnSystemStatus, HandleAutopilotVersion,
          OnAutopilotMetadata, HandleParamValue, OnBatteryArmingVoltage,
          HandleStatusText, OnStatusText
  <2>2. "gps" \in problems' => "gps" \in problems
    BY <1>2, <1>4, BatteryStatusComplaints, SysStatusComplaints, NoComplaints,
       PowerComplaints
  <2> QED
    BY <2>1, <2>2 DEF Shown, GpsShown, GpsReady
<1> QED
  BY <1>3, <1>4

(***************************************************************************)
(* A battery that is told a voltage, or not told one.                      *)
(***************************************************************************)
LEMMA PowerStaysShown ==
  ASSUME SameArmingVoltage, Typed, Shown,
         NEW voltage \in Nat \cup {NoValue}, NEW remaining \in Nat \cup {NoValue},
         battery' = UpdatedBattery(voltage, remaining),
         environment' = environment, plugged \in environment.vehicles,
         "voltage" \in problems' =>
           \/ voltage = NoValue /\ "voltage" \in problems
           \/ voltage # NoValue /\ voltage < plugged.arming,
         "remaining" \in problems' =>
           \/ remaining = NoValue /\ "remaining" \in problems
           \/ remaining # NoValue /\ remaining < MinimumBatteryPercent
  PROVE  VoltageShown' /\ RemainingShown'
<1>1. /\ battery'.voltage = IF voltage # NoValue THEN voltage ELSE battery.voltage
      /\ battery'.remaining = IF remaining # NoValue THEN remaining
                                                     ELSE battery.remaining
  BY DEF UpdatedBattery
<1>2. VoltageShown'
  <2> SUFFICES ASSUME "voltage" \in problems'
               PROVE  /\ battery'.voltage # NoValue
                      /\ \A vehicle \in environment.vehicles :
                           battery'.voltage < vehicle.arming
    BY DEF VoltageShown
  <2>1. CASE voltage = NoValue
    BY <1>1, <2>1 DEF Shown, VoltageShown
  <2>2. CASE voltage # NoValue
    <3>1. battery'.voltage = voltage /\ voltage < plugged.arming
      BY <1>1, <2>2
    <3>2. \A vehicle \in environment.vehicles : vehicle.arming = plugged.arming
      BY DEF SameArmingVoltage, Typed
    <3> QED
      BY <2>2, <3>1, <3>2
  <2> QED
    BY <2>1, <2>2
<1>3. RemainingShown'
  BY <1>1 DEF Shown, RemainingShown
<1> QED
  BY <1>2, <1>3

LEMMA BatteryStaysShown ==
  ASSUME SameArmingVoltage, Typed, Shown, NEW message, Heard(message)
  PROVE  VoltageShown' /\ RemainingShown'
<1>1. /\ HandleMessage(message)
      /\ message \in Incoming /\ environment' = environment
      /\ problems' = (problems \ Complaints(message).judged)
                       \cup Complaints(message).bad
  BY DEF Heard, Remember
<1>2. ASSUME battery' = battery,
             "voltage" \in problems' => "voltage" \in problems,
             "remaining" \in problems' => "remaining" \in problems
      PROVE  VoltageShown' /\ RemainingShown'
  BY <1>1, <1>2 DEF Shown, VoltageShown, RemainingShown
<1>3. CASE message.type = "BATTERY_STATUS"
  <2> DEFINE voltage == BatteryVoltage(message.cells)
             remaining == NotNegative(message.remaining)
  <2>1. voltage \in Nat \cup {NoValue} /\ remaining \in Nat \cup {NoValue}
    BY <1>3, OptionalValues DEF Heard, Sound, WellFormed
  <2>2. battery' = UpdatedBattery(voltage, remaining)
    BY <1>1, <1>3, Handlers DEF HandleBatteryStatus, OnBattery
  <2>3. plugged \in environment.vehicles
    BY <1>1, <1>3, SomebodySends
  <2>4. Complaints(message) = BatteryComplaints(voltage, remaining)
    BY <1>3, BatteryStatusComplaints
  <2> HIDE DEF voltage, remaining
  <2>5. "voltage" \in problems' =>
          \/ voltage = NoValue /\ "voltage" \in problems
          \/ voltage # NoValue /\ voltage < plugged.arming
    BY <1>1, <2>4, PowerComplaints
  <2>6. "remaining" \in problems' =>
          \/ remaining = NoValue /\ "remaining" \in problems
          \/ remaining # NoValue /\ remaining < MinimumBatteryPercent
    BY <1>1, <2>4, PowerComplaints
  <2> QED
    BY <1>1, <2>1, <2>2, <2>3, <2>5, <2>6, PowerStaysShown
<1>4. CASE message.type = "SYS_STATUS"
  <2> DEFINE voltage == Positive(message.voltage)
             remaining == NotNegative(message.remaining)
             power == BatteryComplaints(voltage, remaining)
  <2>1. voltage \in Nat \cup {NoValue} /\ remaining \in Nat \cup {NoValue}
    BY <1>4, OptionalValues DEF Heard, Sound, WellFormed
  <2>2. \/ battery' = UpdatedBattery(voltage, remaining)
        \/ battery' = battery /\ voltage = NoValue /\ remaining = NoValue
    BY <1>1, <1>4, Handlers DEF HandleSysStatus, OnSystemStatus
  <2>3. plugged \in environment.vehicles
    BY <1>1, <1>4, SomebodySends
  <2>4. /\ Complaints(message).judged = power.judged \cup {"sensors"}
        /\ Complaints(message).bad \subseteq power.bad \cup {"sensors"}
    BY <1>4, SysStatusComplaints
  <2> HIDE DEF voltage, remaining
  <2>5. "voltage" \in problems' =>
          \/ voltage = NoValue /\ "voltage" \in problems
          \/ voltage # NoValue /\ voltage < plugged.arming
    BY <1>1, <2>4, PowerComplaints
  <2>6. "remaining" \in problems' =>
          \/ remaining = NoValue /\ "remaining" \in problems
          \/ remaining # NoValue /\ remaining < MinimumBatteryPercent
    BY <1>1, <2>4, PowerComplaints
  <2>7. CASE battery' = UpdatedBattery(voltage, remaining)
    BY <1>1, <2>1, <2>3, <2>5, <2>6, <2>7, PowerStaysShown
  <2>8. CASE battery' = battery /\ voltage = NoValue /\ remaining = NoValue
    BY <1>2, <2>5, <2>6, <2>8
  <2> QED
    BY <2>2, <2>7, <2>8
<1>5. CASE message.type \notin {"BATTERY_STATUS", "SYS_STATUS"}
  <2>1. battery' = battery
    <3>1. CASE UNCHANGED state_vars
      BY <3>1 DEF state_vars, health_vars
    <3> QED
      BY <1>1, <1>5, <3>1, Handlers
      DEF HandleHeartbeat, OnHeartbeat, health_vars, HandleReading, OnReading,
          HandleAutopilotVersion, OnAutopilotMetadata, HandleParamValue,
          OnBatteryArmingVoltage, HandleStatusText, OnStatusText
  <2>2. /\ "voltage" \in problems' => "voltage" \in problems
        /\ "remaining" \in problems' => "remaining" \in problems
    BY <1>1, <1>5, ReadingComplaints, NoComplaints
  <2> QED
    BY <1>2, <2>1, <2>2
<1> QED
  BY <1>3, <1>4, <1>5

LEMMA SensorsStayShown ==
  ASSUME Typed, Shown, NEW message, Heard(message)
  PROVE  SensorsShown'
<1>1. /\ HandleMessage(message)
      /\ problems' = (problems \ Complaints(message).judged)
                       \cup Complaints(message).bad
  BY DEF Heard, Remember
<1>2. CASE message.type = "SYS_STATUS"
  <2> DEFINE power == BatteryComplaints(Positive(message.voltage),
                                        NotNegative(message.remaining))
  <2>1. "sensors" \in problems' =>
          ~({"battery"} \cup message.enabled
              \subseteq message.healthy \cap message.enabled)
    <3>1. "sensors" \notin power.bad
      BY PowerComplaints
    <3> QED
      BY <1>1, <1>2, <3>1, SysStatusComplaints
  <2>2. sensors' = [enabled |-> message.enabled, healthy |-> message.healthy,
                    fresh |-> SystemStatusTimeout]
    BY <1>1, <1>2, Handlers DEF HandleSysStatus, OnSystemStatus
  <2>3. sensors'.enabled = message.enabled /\ sensors'.healthy = message.healthy
    BY <2>2
  <2> QED
    BY <2>1, <2>3 DEF SensorsShown, SystemHealthOk, BatterySensorHealthy
<1>3. CASE message.type # "SYS_STATUS"
  <2>1. sensors' = sensors
    <3>1. CASE UNCHANGED state_vars
      BY <3>1 DEF state_vars, health_vars
    <3> QED
      BY <1>1, <1>3, <3>1, Handlers
      DEF HandleHeartbeat, OnHeartbeat, health_vars, HandleReading, OnReading,
          HandleBatteryStatus, OnBattery, HandleAutopilotVersion,
          OnAutopilotMetadata, HandleParamValue, OnBatteryArmingVoltage,
          HandleStatusText, OnStatusText
  <2>2. "sensors" \in problems' => "sensors" \in problems
    BY <1>1, <1>3, ReadingComplaints, BatteryStatusComplaints, NoComplaints,
       PowerComplaints
  <2> QED
    BY <2>1, <2>2 DEF Shown, SensorsShown, SystemHealthOk, BatterySensorHealthy
<1> QED
  BY <1>2, <1>3

LEMMA ThresholdStaysOfVehicle ==
  ASSUME Typed, Shown, NEW message, Heard(message)
  PROVE  ThresholdIsOfVehicle'
<1>1. HandleMessage(message) /\ environment' = environment
  BY DEF Heard
<1>2. CASE battery_arming_voltage' = battery_arming_voltage
  BY <1>1, <1>2 DEF Shown, ThresholdIsOfVehicle
<1>3. CASE message.type = "PARAM_VALUE" /\ message.id = "BATT_ARM_VOLT"
  <2>1. PICK vehicle \in environment.vehicles : message.value = vehicle.arming
    BY <1>3 DEF Heard, Sound
  <2>2. vehicle.arming \in Nat
    BY EnvironmentsAssumption DEF Typed
  <2>3. battery_arming_voltage' = IF message.value > 0 THEN message.value ELSE 0
    BY <1>1, <1>3, Handlers DEF HandleParamValue, OnBatteryArmingVoltage
  <2>4. battery_arming_voltage' = vehicle.arming
    BY <2>1, <2>2, <2>3
  <2> QED
    BY <1>1, <2>4 DEF ThresholdIsOfVehicle
<1>4. CASE ~(message.type = "PARAM_VALUE" /\ message.id = "BATT_ARM_VOLT")
  <2>1. CASE UNCHANGED state_vars
    BY <1>2, <2>1 DEF state_vars, health_vars
  <2>2. CASE message.type = "PARAM_VALUE" /\ HandleParamValue(message)
    BY <1>4, <2>1, <2>2 DEF HandleParamValue
  <2> QED
    BY <1>1, <1>2, <2>1, <2>2, Handlers
    DEF HandleHeartbeat, OnHeartbeat, health_vars, HandleReading, OnReading,
        HandleBatteryStatus, OnBattery, HandleSysStatus, OnSystemStatus,
        HandleAutopilotVersion, OnAutopilotMetadata, HandleStatusText, OnStatusText
<1> QED
  BY <1>3, <1>4

LEMMA AlarmStaysShown ==
  ASSUME Typed, Shown, NEW message, Heard(message)
  PROVE  AlarmShown'
<1>1. /\ HandleMessage(message)
      /\ alarm' = IF Warns(message) THEN BlockingWarningTimeout ELSE alarm
  BY DEF Heard, Remember
<1>2. HealthOK /\ alarm \in 0..BlockingWarningTimeout
  BY DEF Typed, VehicleTypeOK, StateTypeOK, BatteryRecord, HealthOK
<1>3. CASE Warns(message)
  <2>1. /\ warnings' = [warnings EXCEPT ![message.text] = WarningTimeout]
        /\ message.text \in Texts
    BY <1>1, <1>3, Handlers DEF Warns, HandleStatusText, OnStatusText
  <2>2. warnings'[message.text] = WarningTimeout
    BY <1>2, <2>1 DEF HealthOK
  <2>3. alarm' + (WarningTimeout - BlockingWarningTimeout) = WarningTimeout
    BY <1>1, <1>3, StateLimits
  <2>4. warnings'[message.text] >=
          alarm' + (WarningTimeout - BlockingWarningTimeout)
    BY <2>2, <2>3, StateLimits
  <2> QED
    BY <2>1, <2>4 DEF AlarmShown
<1>4. CASE ~Warns(message)
  <2>1. warnings' = warnings
    <3>1. CASE UNCHANGED state_vars
      BY <3>1 DEF state_vars, health_vars
    <3>2. CASE message.type = "STATUSTEXT" /\ HandleStatusText(message)
      BY <1>4, <3>2 DEF HandleStatusText, OnStatusText, Warns
    <3> QED
      BY <1>1, <3>1, <3>2, Handlers
      DEF HandleHeartbeat, OnHeartbeat, health_vars, HandleReading, OnReading,
          HandleBatteryStatus, OnBattery, HandleSysStatus, OnSystemStatus,
          HandleAutopilotVersion, OnAutopilotMetadata, HandleParamValue,
          OnBatteryArmingVoltage
  <2> QED
    BY <1>1, <1>4, <2>1 DEF Shown, AlarmShown
<1> QED
  BY <1>3, <1>4

LEMMA ComplaintsAreKnown ==
  ASSUME Shown, NEW message, Remember(message)
  PROVE  problems' \subseteq {"gps", "voltage", "remaining", "sensors"}
<1>1. Complaints(message).bad \subseteq {"gps", "voltage", "remaining", "sensors"}
  <2>1. CASE message.type = "READING"
    BY <2>1, ReadingComplaints
  <2>2. CASE message.type = "BATTERY_STATUS"
    BY <2>2, BatteryStatusComplaints, PowerComplaints
  <2>3. CASE message.type = "SYS_STATUS"
    BY <2>3, SysStatusComplaints, PowerComplaints
  <2> QED
    BY <2>1, <2>2, <2>3, NoComplaints
<1> QED
  BY <1>1 DEF Shown, Remember

(***************************************************************************)
(* And by the clock, as a problem does not get better with age.            *)
(***************************************************************************)
LEMMA TickStaysShown ==
  ASSUME Typed, Shown, Tick
  PROVE  Shown'
<1>1. /\ StateTick
      /\ problems' = problems /\ environment' = environment
      /\ alarm' = Elapse(alarm) /\ alarm \in 0..BlockingWarningTimeout
  BY DEF Tick, Typed, VehicleTypeOK
<1>2. HealthOK
  BY DEF Typed, VehicleTypeOK, StateTypeOK, BatteryRecord, HealthOK
<1>3. GpsShown'
  <2>1. "gps" \in Readings
    BY StateLimits
  <2>2. \/ readings'["gps"] = NoReading
        \/ /\ readings'["gps"].value = readings["gps"].value
           /\ readings["gps"].fresh > 0
    <3>1. readings'["gps"] =
            IF readings["gps"].fresh <= 1 THEN NoReading
            ELSE [readings["gps"] EXCEPT !.fresh = readings["gps"].fresh - 1]
      BY <1>1, <2>1 DEF StateTick
    <3>2. readings["gps"] \in [value: ReadingValues \cup {NoValue}, fresh: Nat]
      BY <1>2, <2>1 DEF HealthOK
    <3> QED
      BY <3>1, <3>2
  <2> QED
    BY <1>1, <2>2 DEF Shown, GpsShown, GpsReady, NoReading
<1>4. VoltageShown' /\ RemainingShown'
  <2>1. battery' = [voltage |-> battery.voltage, remaining |-> battery.remaining,
                    fresh |-> Elapse(battery.fresh)]
    BY <1>1, <1>2 DEF HealthOK, BatteryRecord, StateTick
  <2>2. battery'.voltage = battery.voltage /\ battery'.remaining = battery.remaining
    BY <2>1
  <2> QED
    BY <1>1, <2>2 DEF Shown, VoltageShown, RemainingShown
<1>5. SensorsShown'
  <2>1. \/ sensors'.fresh = 0
        \/ /\ sensors'.enabled = sensors.enabled
           /\ sensors'.healthy = sensors.healthy
           /\ sensors.fresh > 0
    <3>1. CASE sensors.fresh <= 1
      BY <1>1, <3>1 DEF StateTick, NoSensors
    <3>2. CASE ~(sensors.fresh <= 1)
      BY <1>1, <1>2, <3>2 DEF StateTick, HealthOK
    <3> QED
      BY <3>1, <3>2
  <2> QED
    BY <1>1, <2>1
    DEF Shown, SensorsShown, SystemHealthOk, BatterySensorHealthy
<1>6. ThresholdIsOfVehicle'
  BY <1>1 DEF StateTick, Shown, ThresholdIsOfVehicle
<1>7. AlarmShown'
  <2> SUFFICES ASSUME alarm' > 0
               PROVE  \E text \in Texts :
                        warnings'[text] >=
                          alarm' + (WarningTimeout - BlockingWarningTimeout)
    BY DEF AlarmShown
  <2>1. alarm > 0 /\ alarm' = alarm - 1
    BY <1>1 DEF Elapse
  <2>2. PICK text \in Texts :
          warnings[text] >= alarm + (WarningTimeout - BlockingWarningTimeout)
    BY <2>1 DEF Shown, AlarmShown
  <2>3. warnings[text] \in Nat /\ warnings[text] > 0
    BY <1>1, <1>2, <2>1, <2>2, StateLimits DEF HealthOK
  <2>4. warnings'[text] = warnings[text] - 1
    BY <1>1, <2>3 DEF StateTick, Elapse
  <2> QED
    BY <1>1, <2>1, <2>2, <2>3, <2>4, StateLimits
<1> QED
  BY <1>1, <1>3, <1>4, <1>5, <1>6, <1>7 DEF Shown

LEMMA StepShown == SameArmingVoltage /\ Typed /\ Shown /\ [Next]_vars => Shown'
<1> SUFFICES ASSUME SameArmingVoltage, Typed, Shown, [Next]_vars PROVE Shown'
  OBVIOUS
<1>1. CASE PollStep
  <2>1. PICK message \in Incoming, telemetry_ready \in BOOLEAN,
             answered \in SUBSET environment.answers :
               Poll(message, telemetry_ready, answered)
    BY <1>1 DEF PollStep
  <2>2. Heard(message) /\ Remember(message)
    BY <2>1, IncomingIsSound DEF Heard, Poll, Typed, VehicleTypeOK
  <2> QED
    BY <2>2, GpsStaysShown, BatteryStaysShown, SensorsStayShown,
       ThresholdStaysOfVehicle, AlarmStaysShown, ComplaintsAreKnown DEF Shown
<1>2. CASE UNCHANGED <<state_vars, history_vars, environment>>
  BY <1>2
  DEF Shown, GpsShown, GpsReady, VoltageShown, RemainingShown, SensorsShown,
      SystemHealthOk, BatterySensorHealthy, ThresholdIsOfVehicle, AlarmShown,
      state_vars, health_vars, history_vars
<1>3. CASE Tick
  BY <1>3, TickStaysShown
<1>4. CASE \E vehicle \in environment.vehicles : Plug(vehicle)
  BY <1>2, <1>4 DEF Plug
<1>5. CASE Unplug \/ Settle \/ Worsen
  BY <1>2, <1>5 DEF Unplug, Settle, Worsen
<1>6. CASE UNCHANGED vars
  BY <1>2, <1>6 DEF vars
<1> QED
  BY <1>1, <1>3, <1>4, <1>5, <1>6 DEF Next

(***************************************************************************)
(* ReadinessInvariant: whatever the vehicle last complained of, in any     *)
(* message and however long ago, keeps it from being shown as armable.     *)
(***************************************************************************)
THEOREM ReadinessCorrect ==
  ASSUME SameArmingVoltage
  PROVE  Spec => []ReadinessInvariant
<1>1. Init => Shown
  BY DEF Init, StateInit, Shown, GpsShown, VoltageShown, RemainingShown,
    SensorsShown, ThresholdIsOfVehicle, AlarmShown
<1>2. Shown /\ Typed /\ [Next]_vars => Shown'
  BY StepShown
<1>3. Typed /\ Shown => ReadinessInvariant
  BY ShownProblemsBlock DEF Typed, ReadinessInvariant
<1> QED
  BY <1>1, <1>2, <1>3, InitTyped, StepTyped, PTL DEF Spec

-----------------------------------------------------------------------------
(***************************************************************************)
(* The event log.  Between polls what it remembers is what the vehicle's   *)
(* state still is: the clock alone changes neither.                        *)
(***************************************************************************)
RemembersState ==
  vehicle_was_connected =>
    /\ previous_flight_mode = flight_mode
    /\ previous_armed = {armed}
    /\ autopilot_metadata_was_available <=> autopilot_metadata # NoMetadata

LEMMA StepRemembers == RemembersState /\ [Next]_vars => RemembersState'
<1> SUFFICES ASSUME RemembersState, [Next]_vars PROVE RemembersState'
  OBVIOUS
<1>1. CASE PollStep
  <2>1. ObserveVehicle
    BY <1>1 DEF PollStep, Poll
  <2> QED
    BY <2>1 DEF ObserveVehicle, RemembersState
<1>2. CASE UNCHANGED <<observer_vars, flight_mode, armed, autopilot_metadata>>
  BY <1>2 DEF observer_vars, RemembersState
<1>3. CASE Tick
  BY <1>2, <1>3 DEF Tick, StateTick
<1>4. CASE \E vehicle \in environment.vehicles : Plug(vehicle)
  BY <1>2, <1>4 DEF Plug, state_vars, heard_vars
<1>5. CASE Unplug \/ Settle \/ Worsen
  BY <1>2, <1>5 DEF Unplug, Settle, Worsen, state_vars, heard_vars
<1>6. CASE UNCHANGED vars
  BY <1>2, <1>6 DEF vars, state_vars, heard_vars
<1> QED
  BY <1>1, <1>3, <1>4, <1>5, <1>6 DEF Next

LEMMA RecordedEvents ==
  /\ Recorded("ONLINE") <=> ~vehicle_was_connected /\ Connected'
  /\ Recorded("HEARTBEAT LOST") <=> vehicle_was_connected /\ ~Connected'
  /\ \A event \in {"AUTOPILOT_VERSION", "MODE", "ARMED", "DISARMED"} :
       Recorded(event) <=> vehicle_was_connected /\ Connected' /\ Changed(event)
BY DEF Recorded

LEMMA ChangedEvents ==
  /\ Changed("AUTOPILOT_VERSION") <=>
       autopilot_metadata' # NoMetadata /\ ~autopilot_metadata_was_available
  /\ Changed("MODE") <=> flight_mode' # previous_flight_mode
  /\ Changed("ARMED") <=> armed' /\ FALSE \in previous_armed
  /\ Changed("DISARMED") <=> ~armed' /\ TRUE \in previous_armed
BY DEF Changed

(***************************************************************************)
(* Announced is what ChangesAreAnnounced says of a step.                   *)
(***************************************************************************)
Announced ==
  PollStep =>
    /\ Recorded("ONLINE") \/ Recorded("HEARTBEAT LOST") =>
         \A event \in {"AUTOPILOT_VERSION", "MODE", "ARMED", "DISARMED"} :
           ~Recorded(event)
    /\ vehicle_was_connected /\ vehicle_was_connected' =>
         /\ Recorded("AUTOPILOT_VERSION") =
              (autopilot_metadata' # NoMetadata
                 /\ autopilot_metadata = NoMetadata)
         /\ Recorded("MODE") = (flight_mode' # flight_mode)
         /\ Recorded("ARMED") = (armed' /\ ~armed)
         /\ Recorded("DISARMED") = (~armed' /\ armed)

LEMMA PollAnnounces ==
  ASSUME RemembersState, Typed, Typed', PollStep
  PROVE  Announced
<1>1. vehicle_was_connected' = Connected'
  BY DEF PollStep, Poll, ObserveVehicle
<1>2. Recorded("ONLINE") \/ Recorded("HEARTBEAT LOST") =>
        \A event \in {"AUTOPILOT_VERSION", "MODE", "ARMED", "DISARMED"} :
          ~Recorded(event)
  BY RecordedEvents
<1>3. ASSUME vehicle_was_connected, vehicle_was_connected'
      PROVE  /\ Recorded("AUTOPILOT_VERSION") =
                  (autopilot_metadata' # NoMetadata
                     /\ autopilot_metadata = NoMetadata)
             /\ Recorded("MODE") = (flight_mode' # flight_mode)
             /\ Recorded("ARMED") = (armed' /\ ~armed)
             /\ Recorded("DISARMED") = (~armed' /\ armed)
  <2>1. /\ previous_flight_mode = flight_mode
        /\ previous_armed = {armed}
        /\ autopilot_metadata_was_available <=> autopilot_metadata # NoMetadata
    BY <1>3 DEF RemembersState
  <2>2. armed \in BOOLEAN /\ armed' \in BOOLEAN
    BY DEF Typed, VehicleTypeOK, StateTypeOK
  <2>3. Connected'
    BY <1>1, <1>3
  <2>4. Recorded("AUTOPILOT_VERSION") =
          (autopilot_metadata' # NoMetadata /\ autopilot_metadata = NoMetadata)
    BY <1>3, <2>1, <2>3 DEF Recorded, Changed
  <2>5. Recorded("MODE") = (flight_mode' # flight_mode)
    BY <1>3, <2>1, <2>3 DEF Recorded, Changed
  <2>6. Recorded("ARMED") = (armed' /\ ~armed)
    BY <1>3, <2>1, <2>2, <2>3 DEF Recorded, Changed
  <2>7. Recorded("DISARMED") = (~armed' /\ armed)
    BY <1>3, <2>1, <2>2, <2>3 DEF Recorded, Changed
  <2> QED
    BY <2>4, <2>5, <2>6, <2>7
<1> QED
  BY <1>2, <1>3 DEF Announced

(***************************************************************************)
(* ChangesAreAnnounced: over reconnections and exchanges of vehicles, too, *)
(* each change of mode, of the armed flag and of the known firmware        *)
(* between two polls is told once, and nothing else is.                    *)
(***************************************************************************)
THEOREM ChangesAnnounced == Spec => ChangesAreAnnounced
<1>1. Init => RemembersState
  BY DEF Init, RemembersState
<1>2. RemembersState /\ Typed /\ Typed' => [Announced]_vars
  BY PollAnnounces DEF Announced
<1> QED
  BY <1>1, <1>2, InitTyped, StepTyped, StepRemembers, PTL
  DEF Spec, ChangesAreAnnounced, Announced
=============================================================================
