---------------------------- MODULE MCVehicleLink ----------------------------
(***************************************************************************)
(* VehicleLink in three environments: three flight controllers that take   *)
(* each other's place, two of them with the same ids; one whose reports    *)
(* may be bad or leave things out; and one that warns.                     *)
(***************************************************************************)
EXTENDS VehicleLink

Vehicle(system, version) ==
  [controller |-> <<system, 1>>, version |-> version, arming |-> 2]

Status(mode, is_armed) == [mode |-> mode, armed |-> is_armed]

ForeignVersion ==
  [type |-> "AUTOPILOT_VERSION", autopilot1 |-> FALSE, version |-> 9]

ForeignHeartbeat ==
  [type |-> "HEARTBEAT", sender |-> <<255, 190>>, autopilot |-> InvalidAutopilot,
   mode |-> 0, armed |-> FALSE]

ForeignParameter ==
  [type |-> "PARAM_VALUE", id |-> "FS_OPTIONS", value |-> 1]

Reading(reading, value) ==
  [type |-> "READING", reading |-> reading, value |-> value]

Battery(cells, remaining) ==
  [type |-> "BATTERY_STATUS", cells |-> cells, remaining |-> remaining]

SysStatus(enabled, healthy, voltage, current, remaining) ==
  [type |-> "SYS_STATUS", enabled |-> enabled, healthy |-> healthy,
   voltage |-> voltage, current |-> current, remaining |-> remaining]

Text(severe, prearm, text) ==
  [type |-> "STATUSTEXT", severe |-> severe, prearm |-> prearm, text |-> text]

Exchange ==
  [vehicles |-> {Vehicle(1, 1), Vehicle(1, 2), Vehicle(2, 3)},
   statuses |-> {Status(0, FALSE), Status(4, TRUE)},
   reports |-> {}, steady |-> {},
   others |-> {ForeignVersion, ForeignHeartbeat},
   answers |-> {"AUTOPILOT_VERSION"}]

Well ==
  {Reading("gps", 3),
   Battery(<<1, 0, 1, 65535>>, 20),
   SysStatus({"battery", "gyro"}, {"battery", "gyro"}, 0, -1, -1)}

Unwell ==
  {Reading("gps", 2),
   Battery(<<1, 65535>>, -1),
   Battery(<<0, 65535>>, 19),
   SysStatus({"battery", "gyro"}, {"gyro"}, 2, 1, -1)}

Warnings ==
  {Text(TRUE, FALSE, "battery low"), Text(FALSE, TRUE, "prearm"),
   Text(FALSE, FALSE, "info")}

Alone(reports) ==
  [vehicles |-> {Vehicle(1, 1)},
   statuses |-> {Status(0, FALSE)},
   reports |-> Well \cup reports, steady |-> Well,
   others |-> {ForeignParameter},
   answers |-> {"PARAM_VALUE"}]

MCEnvironments == {Exchange, Alone(Unwell), Alone(Warnings)}

MCControllers == {<<1, 1>>, <<2, 1>>}

MCReadingTimeout == [reading \in {"gps"} |-> 2]
=============================================================================
