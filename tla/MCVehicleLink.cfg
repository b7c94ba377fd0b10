SPECIFICATION FairSpec
CONSTANTS
  Controllers <- MCControllers
  FlightModes = {0, 4}
  Readings = {"gps"}
  ReadingValues = {2, 3}
  Sensors = {"battery", "gyro"}
  Texts = {"battery low", "prearm"}
  BatteryTexts = {"battery low"}
  HeartbeatTimeout = 2
  ReadingTimeout <- MCReadingTimeout
  BatteryTimeout = 2
  SystemStatusTimeout = 2
  WarningTimeout = 2
  BlockingWarningTimeout = 1
  MinimumBatteryPercent = 20
  UnknownCell = 65535
  Environments <- MCEnvironments
  VersionRetry = 1
  BatteryRetry = 1
INVARIANTS ReadinessInvariant MetadataIsOfThisVehicle
PROPERTIES ChangesAreAnnounced SteadyVehicleIsKnown
