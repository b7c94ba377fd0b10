SPECIFICATION Spec
CONSTANTS
  Systems = {v1}
  NoSystem = NoSystem
  MaximumActionAttempts = 1
  AcknowledgementTimeout = 1
  ReadinessTimeout = 1
  ModeChangeTimeout = 1
  ArmingTimeout = 1
  TakeoffTimeout = 1
  MaximumLandAttempts = 2
  LandAckTimeout = 1
  LandingTargetInterval = 1
  LandingTargetWarmup = 2
  TargetLossLandAfter = 3
  LandingTimeout = 1
  Tags = {t1, t2}
  NoTag = NoTag
  RequiredObservations = 3
  LossTimeout = 2
  MinimumDecisionMargin = 1
  Margins = {0, 1, 2}
  MaximumLandingTargetAge = 1
SYMMETRY TagSymmetry
INVARIANT TypeOK
PROPERTIES LockIsConfirmed TargetIsFresh OneTagAtATime GuidedLandIsWarmedUp
