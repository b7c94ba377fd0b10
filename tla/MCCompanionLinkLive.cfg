SPECIFICATION FairLinkSpec
CONSTANTS
  Systems = {1}
  MaxOptions = 1023
  HeartbeatTimeout = 3
  ParameterSpacing = 2
  RejectedRetry = 3
  AcceptedRefresh = 5
  Values <- PolicyValues
  InitialPolicies <- OneVehiclePolicies
  MaxInFlight = 2
  Reconfigurable = TRUE
  Lossy = FALSE
PROPERTY VerdictFollowsPolicy
