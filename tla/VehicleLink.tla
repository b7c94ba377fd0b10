----------------------------- MODULE VehicleLink -----------------------------
(***************************************************************************)
(* What CompanionApplication::poll learns about the vehicle on its serial  *)
(* line: one read, which MavlinkDecoder hands to VehicleState, the event   *)
(* log's view of the change, and the requests for the firmware version and *)
(* the arming voltage.  Flight controllers may be unplugged and exchanged. *)
(*                                                                         *)
(* An environment says which vehicles may be plugged in and what they, and *)
(* others behind them, may send.  One poll reads at most one message; more *)
(* of them in one read are polls of the same instant.                      *)
(***************************************************************************)
EXTENDS MavlinkDecoder, FiniteSets

CONSTANTS
  Environments,
  VersionRetry,         \* kAutopilotVersionRetryInterval
  BatteryRetry          \* kBatteryParameterRetryInterval

ASSUME VehicleLinkAssumption == {VersionRetry, BatteryRetry} \subseteq Nat \ {0}

(***************************************************************************)
(* What arrives is well formed; the cells of a battery add up to a voltage *)
(* if it has any.                                                          *)
(***************************************************************************)
WellFormed(message) ==
  /\ message.type = "READING" =>
       message.reading \in Readings /\ message.value \in ReadingValues
  /\ message.type = "BATTERY_STATUS" =>
       /\ BatteryVoltage(message.cells) \in Nat \cup {NoValue}
       /\ message.remaining \in Int
  /\ message.type = "SYS_STATUS" =>
       /\ message.enabled \cup message.healthy \subseteq Sensors
       /\ {message.voltage, message.current, message.remaining} \subseteq Int

(***************************************************************************)
(* Every vehicle has an autopilot, and whoever else is on its line is none *)
(* and neither describes itself as one nor has its parameters.             *)
(***************************************************************************)
ASSUME EnvironmentsAssumption ==
  /\ NoController \notin Controllers
  /\ \A one \in Environments :
       /\ \A vehicle \in one.vehicles :
            /\ vehicle.controller \in Controllers
            /\ vehicle.version \in Nat /\ vehicle.arming \in Nat
       /\ \A status \in one.statuses :
            status.mode \in FlightModes /\ status.armed \in BOOLEAN
       /\ \A message \in one.reports \cup one.steady \cup one.others :
            /\ WellFormed(message)
            /\ message.type = "HEARTBEAT" =>
                 message.autopilot = InvalidAutopilot
            /\ message.type = "AUTOPILOT_VERSION" => ~message.autopilot1
            /\ message.type = "PARAM_VALUE" => message.id # "BATT_ARM_VOLT"

VARIABLES
  environment,
  plugged,              \* the vehicle on the line, or NoVehicle
  steady,               \* it is well and all its streams are on time
  replies,              \* types of the answers on their way from it
  next_autopilot_version_request,
  next_battery_parameter_request,
  vehicle_was_connected,
  previous_flight_mode,
  previous_armed,       \* a set of at most one value
  autopilot_metadata_was_available,
  problems,             \* what the vehicle's latest reports complain of
  alarm                 \* ticks since its last warning, counted down

schedule_vars ==
  <<next_autopilot_version_request, next_battery_parameter_request>>

observer_vars ==
  <<vehicle_was_connected, previous_flight_mode, previous_armed,
    autopilot_metadata_was_available>>

line_vars == <<plugged, steady, replies>>

history_vars == <<problems, alarm>>

vars == <<state_vars, schedule_vars, observer_vars, line_vars, history_vars,
          environment>>

NoVehicle == [controller |-> NoController]

Init ==
  /\ StateInit
  /\ environment \in Environments
  /\ plugged = NoVehicle /\ steady = FALSE /\ replies = {}
  /\ next_autopilot_version_request = 0
  /\ next_battery_parameter_request = 0
  /\ vehicle_was_connected = FALSE
  /\ previous_flight_mode = NoValue /\ previous_armed = {}
  /\ autopilot_metadata_was_available = FALSE
  /\ problems = {} /\ alarm = 0

-----------------------------------------------------------------------------
(***************************************************************************)
(* What may be read.                                                       *)
(***************************************************************************)
NoMessage == [type |-> "NONE"]

Heartbeats ==
  {[type |-> "HEARTBEAT", sender |-> plugged.controller,
    autopilot |-> "MAV_AUTOPILOT_ARDUPILOTMEGA",
    mode |-> status.mode, armed |-> status.armed] :
      status \in environment.statuses}

Reports == IF steady THEN environment.steady ELSE environment.reports

Answer(type) ==
  IF type = "AUTOPILOT_VERSION"
  THEN [type |-> type, autopilot1 |-> TRUE, version |-> plugged.version]
  ELSE [type |-> type, id |-> "BATT_ARM_VOLT", value |-> plugged.arming]

Incoming ==
  {NoMessage} \cup
  IF plugged = NoVehicle THEN {}
  ELSE Heartbeats \cup Reports \cup environment.others
         \cup {Answer(type) : type \in replies}

(***************************************************************************)
(* observe_vehicle: what it keeps, and the events it records.              *)
(***************************************************************************)
ObserveVehicle ==
  /\ vehicle_was_connected' = Connected'
  /\ previous_flight_mode' = IF Connected' THEN flight_mode' ELSE NoValue
  /\ previous_armed' = IF Connected' THEN {armed'} ELSE {}
  /\ autopilot_metadata_was_available' =
       (Connected' /\ autopilot_metadata' # NoMetadata)

(***************************************************************************)
(* Mutant: a version is announced with every poll that knows it.           *)
(***************************************************************************)
ChangedAgain(event) ==
  CASE event = "AUTOPILOT_VERSION" -> autopilot_metadata' # NoMetadata
    [] event = "MODE" -> flight_mode' # previous_flight_mode
    [] event = "ARMED" -> armed' /\ FALSE \in previous_armed
    [] event = "DISARMED" -> ~armed' /\ TRUE \in previous_armed

Changed(event) ==
  CASE event = "AUTOPILOT_VERSION" ->
         autopilot_metadata' # NoMetadata /\ ~autopilot_metadata_was_available
    [] event = "MODE" -> flight_mode' # previous_flight_mode
    [] event = "ARMED" -> armed' /\ FALSE \in previous_armed
    [] event = "DISARMED" -> ~armed' /\ TRUE \in previous_armed

Recorded(event) ==
  CASE event = "HEARTBEAT LOST" -> vehicle_was_connected /\ ~Connected'
    [] event = "ONLINE" -> ~vehicle_was_connected /\ Connected'
    [] OTHER -> vehicle_was_connected /\ Connected' /\ Changed(event)

(***************************************************************************)
(* The two requests.  Mutant: one is made once, when the vehicle comes.    *)
(***************************************************************************)
VersionDue(telemetry_ready) ==
  /\ telemetry_ready
  /\ autopilot_metadata' = NoMetadata
  /\ next_autopilot_version_request = 0

ArmingVoltageDueOnce(telemetry_ready) ==
  /\ telemetry_ready
  /\ ReportedArmingVoltage' = NoValue
  /\ ~vehicle_was_connected

ArmingVoltageDue(telemetry_ready) ==
  /\ telemetry_ready
  /\ ReportedArmingVoltage' = NoValue
  /\ next_battery_parameter_request = 0

Requested(telemetry_ready) ==
  {type \in {"AUTOPILOT_VERSION", "PARAM_VALUE"} :
     IF type = "AUTOPILOT_VERSION" THEN VersionDue(telemetry_ready)
     ELSE ArmingVoltageDue(telemetry_ready)}

(***************************************************************************)
(* A request that is written, arrives and is answered adds to the answers; *)
(* only the vehicle it is addressed to answers, and only what it supports. *)
(***************************************************************************)
Request(telemetry_ready, answered) ==
  /\ next_autopilot_version_request' =
       IF VersionDue(telemetry_ready) THEN VersionRetry
       ELSE next_autopilot_version_request
  /\ next_battery_parameter_request' =
       IF ArmingVoltageDue(telemetry_ready) THEN BatteryRetry
       ELSE next_battery_parameter_request
  /\ answered \subseteq Requested(telemetry_ready)
  /\ answered = {} \/ plugged.controller = controller'

(***************************************************************************)
(* For the properties: the complaints in a message, and what it judges.    *)
(***************************************************************************)
Known(value) == value # NoValue

Judged(voltage, remaining) ==
  {v \in {"voltage"} : Known(voltage)} \cup {r \in {"remaining"} : Known(remaining)}

Low(voltage, remaining) ==
  {v \in {"voltage"} : voltage < plugged.arming}
    \cup {r \in {"remaining"} : remaining < MinimumBatteryPercent}

BatteryComplaints(voltage, remaining) ==
  LET judged == Judged(voltage, remaining)
  IN [judged |-> judged, bad |-> judged \cap Low(voltage, remaining)]

Complaints(message) ==
  CASE message.type = "READING" ->
         [judged |-> {message.reading},
          bad |-> {r \in {"gps"} : message.reading = r /\ message.value < 3}]
    [] message.type = "BATTERY_STATUS" ->
         BatteryComplaints(BatteryVoltage(message.cells),
                           NotNegative(message.remaining))
    [] message.type = "SYS_STATUS" ->
         LET power == BatteryComplaints(Positive(message.voltage),
                                        NotNegative(message.remaining))
             required == {"battery"} \cup message.enabled
         IN [judged |-> power.judged \cup {"sensors"},
             bad |-> power.bad \cup
               {s \in {"sensors"} :
                  ~(required \subseteq message.healthy \cap message.enabled)}]
    [] OTHER -> [judged |-> {}, bad |-> {}]

Warns(message) ==
  /\ message.type = "STATUSTEXT" /\ message.text \in Texts
  /\ message.severe \/ message.prearm

Remember(message) ==
  /\ problems' = (problems \ Complaints(message).judged)
                   \cup Complaints(message).bad
  /\ alarm' = IF Warns(message) THEN BlockingWarningTimeout ELSE alarm

-----------------------------------------------------------------------------
(***************************************************************************)
(* One poll.  Telemetry setup is active only while a vehicle is connected. *)
(***************************************************************************)
Poll(message, telemetry_ready, answered) ==
  /\ HandleMessage(message)
  /\ telemetry_ready => Connected'
  /\ ObserveVehicle
  /\ Request(telemetry_ready, answered)
  /\ replies' = (replies \ {message.type}) \cup answered
  /\ Remember(message)
  /\ UNCHANGED <<environment, plugged, steady>>

(***************************************************************************)
(* Between polls.  The vehicle that takes the place of another with the    *)
(* same ids needs longer to start than a heartbeat stays fresh.            *)
(***************************************************************************)
Plug(vehicle) ==
  /\ plugged = NoVehicle
  /\ vehicle.controller = controller => heartbeat = 0
  /\ plugged' = vehicle
  /\ UNCHANGED <<state_vars, schedule_vars, observer_vars, history_vars,
                 environment, steady, replies>>

Unplug ==
  /\ plugged # NoVehicle
  /\ plugged' = NoVehicle /\ steady' = FALSE /\ replies' = {}
  /\ UNCHANGED <<state_vars, schedule_vars, observer_vars, history_vars,
                 environment>>

Settle ==
  /\ plugged # NoVehicle /\ ~steady
  /\ steady' = TRUE
  /\ UNCHANGED <<state_vars, schedule_vars, observer_vars, history_vars,
                 environment, plugged, replies>>

Worsen ==
  /\ steady' = FALSE /\ steady
  /\ UNCHANGED <<state_vars, schedule_vars, observer_vars, history_vars,
                 environment, plugged, replies>>

(***************************************************************************)
(* A steady vehicle's heartbeat and reports all arrive in every tick.      *)
(***************************************************************************)
Arrived(report) ==
  CASE report.type = "READING" ->
         readings[report.reading].fresh = ReadingTimeout[report.reading]
    [] report.type = "BATTERY_STATUS" -> battery.fresh = BatteryTimeout
    [] report.type = "SYS_STATUS" -> sensors.fresh = SystemStatusTimeout
    [] OTHER -> TRUE

OnTime ==
  /\ heartbeat = HeartbeatTimeout /\ controller = plugged.controller
  /\ \A report \in environment.steady : Arrived(report)

Tick ==
  /\ steady => OnTime
  /\ StateTick
  /\ next_autopilot_version_request' = Elapse(next_autopilot_version_request)
  /\ next_battery_parameter_request' = Elapse(next_battery_parameter_request)
  /\ alarm' = Elapse(alarm)
  /\ UNCHANGED <<observer_vars, line_vars, problems, environment>>

PollStep ==
  \E message \in Incoming, telemetry_ready \in BOOLEAN,
     answered \in SUBSET environment.answers :
    Poll(message, telemetry_ready, answered)

Next ==
  \/ PollStep
  \/ \E vehicle \in environment.vehicles : Plug(vehicle)
  \/ Unplug
  \/ Settle
  \/ Worsen
  \/ Tick

Spec == Init /\ [][Next]_vars

(***************************************************************************)
(* The loop polls and the clock advances.  What a steady vehicle sends is  *)
(* read; telemetry becomes active, and of the requests it is sent again    *)
(* and again some are answered.                                            *)
(***************************************************************************)
ReadStep(message) ==
  /\ message \in Incoming
  /\ \E telemetry_ready \in BOOLEAN,
        answered \in SUBSET environment.answers :
       Poll(message, telemetry_ready, answered)

AnsweredStep(type) ==
  type \in environment.answers /\ Poll(NoMessage, TRUE, {type})

SteadyMessages ==
  UNION {one.steady : one \in Environments}

FairSpec ==
  /\ Spec
  /\ WF_vars(Tick)
  /\ WF_vars(\E message \in Heartbeats : ReadStep(message))
  /\ \A message \in SteadyMessages : WF_vars(steady /\ ReadStep(message))
  /\ \A type \in {"AUTOPILOT_VERSION", "PARAM_VALUE"} :
       /\ SF_vars(AnsweredStep(type))
       /\ SF_vars(type \in replies /\ ReadStep(Answer(type)))

-----------------------------------------------------------------------------
(***************************************************************************)
(* The type invariant.                                                     *)
(***************************************************************************)
VehicleTypeOK ==
  /\ StateTypeOK
  /\ plugged \in environment.vehicles \cup {NoVehicle}
  /\ steady \in BOOLEAN
  /\ replies \subseteq {"AUTOPILOT_VERSION", "PARAM_VALUE"}
  /\ next_autopilot_version_request \in 0..VersionRetry
  /\ next_battery_parameter_request \in 0..BatteryRetry
  /\ vehicle_was_connected \in BOOLEAN
  /\ previous_flight_mode \in FlightModes \cup {NoValue}
  /\ previous_armed \in {{}, {TRUE}, {FALSE}}
  /\ autopilot_metadata_was_available \in BOOLEAN
  /\ alarm \in 0..BlockingWarningTimeout

(***************************************************************************)
(* The firmware a snapshot shows is that of the flight controller whose    *)
(* heartbeats it shows, whatever was plugged in before, whoever else       *)
(* describes itself, and however late its own answers come, while it is    *)
(* plugged in: those of one that was unplugged are gone with it.           *)
(***************************************************************************)
MetadataIsOfThisVehicle ==
  Connected /\ autopilot_metadata # NoMetadata =>
    \E vehicle \in environment.vehicles :
      /\ vehicle.controller = controller
      /\ vehicle.version = autopilot_metadata
      /\ plugged.controller = controller => plugged = vehicle

(***************************************************************************)
(* A vehicle whose latest reports, or whose warning of a moment ago,       *)
(* complain of anything is not armable: no later message that is silent    *)
(* about it hides it.                                                      *)
(***************************************************************************)
ProblemsBlockArming == Armable => problems = {} /\ alarm = 0

(***************************************************************************)
(* What the vehicle's state is at any moment: well typed, and no better    *)
(* than what was last reported.                                            *)
(***************************************************************************)
ReadinessInvariant ==
  /\ VehicleTypeOK
  /\ ProblemsBlockArming

(***************************************************************************)
(* Of what changes between two polls the operator is told exactly that:    *)
(* no change is missed and none announced twice, also not over a           *)
(* reconnection or an exchange of vehicles.                                *)
(***************************************************************************)
ChangesAreAnnounced ==
  [][PollStep =>
       /\ Recorded("ONLINE") \/ Recorded("HEARTBEAT LOST") =>
            \A event \in {"AUTOPILOT_VERSION", "MODE", "ARMED", "DISARMED"} :
              ~Recorded(event)
       /\ vehicle_was_connected /\ vehicle_was_connected' =>
            /\ Recorded("AUTOPILOT_VERSION") =
                 (autopilot_metadata' # NoMetadata
                    /\ autopilot_metadata = NoMetadata)
            /\ Recorded("MODE") = (flight_mode' # flight_mode)
            /\ Recorded("ARMED") = (armed' /\ ~armed)
            /\ Recorded("DISARMED") = (~armed' /\ armed)]_vars

(***************************************************************************)
(* A vehicle that stays well becomes armable and stays so, and its         *)
(* firmware comes to be known, however often single answers are lost.      *)
(***************************************************************************)
Complete ==
  {"READING", "BATTERY_STATUS", "SYS_STATUS"} \subseteq
    {report.type : report \in environment.steady}

BecomesArmable ==
  <>[]steady /\ Complete /\ "PARAM_VALUE" \in environment.answers => <>[]Armable

VersionIsLearned ==
  <>[]steady /\ "AUTOPILOT_VERSION" \in environment.answers =>
    <>[](autopilot_metadata # NoMetadata)

SteadyVehicleIsKnown ==
  /\ BecomesArmable
  /\ VersionIsLearned
=============================================================================
