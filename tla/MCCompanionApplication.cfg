SPECIFICATION FairSpec
CONSTANTS
  Systems = {v1}
  NoSystem = NoSystem
  MaximumActionAttempts = 3
  AcknowledgementTimeout = 1
  ReadinessTimeout = 2
  ModeChangeTimeout = 2
  ArmingTimeout = 3
  TakeoffTimeout = 3
  MaximumLandAttempts = 3
  LandAckTimeout = 1
  LandingTargetInterval = 1
  LandingTargetWarmup = 2
  TargetLossLandAfter = 2
  LandingTimeout = 2
  AckOutcomes = {"accepted", "in_progress", "rejected"}
INVARIANTS TypeOK AwaitedIsOutstanding AwaitedLandIsLive OneCountdownToLand
INVARIANTS RuntimeFollowsStartup FailureEndsBoth
PROPERTIES CommandsNeedAcceptedFailsafe ImplementsFlightPlan
PROPERTIES StartupEnds FlightEnds
