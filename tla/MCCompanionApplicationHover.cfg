SPECIFICATION FairSpec
CONSTANTS
  Systems = {v1}
  NoSystem = NoSystem
  MaximumActionAttempts = 3
  AcknowledgementTimeout = 1
  ReadinessTimeout = 2
  ModeChangeTimeout = 4
  ArmingTimeout = 4
  TakeoffTimeout = 5
  MaximumLandAttempts = 3
  LandAckTimeout = 1
  LandingTargetInterval = 1
  LandingTargetWarmup = 2
  TargetLossLandAfter = 3
  LandingTimeout = 2
  AckOutcomes = {"accepted", "rejected"}
PROPERTY NoIndefiniteHover
