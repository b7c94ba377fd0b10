SPECIFICATION LinkSpec
CONSTANTS
  Systems = {1, 2}
  MaxOptions = 1023
  HeartbeatTimeout = 2
  ParameterSpacing = 1
  RejectedRetry = 1
  AcceptedRefresh = 2
  Values <- PolicyValues
  InitialPolicies <- TwoVehiclePolicies
  MaxInFlight = 2
  Reconfigurable = FALSE
  Lossy = TRUE
INVARIANTS LinkInvariant VerdictIsOfThisVehicle AcceptedPolicyIsHeld
