SPECIFICATION FairSpec
CONSTANTS
  CommandLines <- MCCommandLines
  LauncherLines <- MCLauncherLines
  Senders = {"vehicle", "another"}
  LineSizes = {1, 6}
  PipeCapacity = 1
  MaxFiles = 2
  MaxTotalBytes = 4
  MaxFileBytes = 2
INVARIANTS LogInvariant AutonomyIsEquipped ExitCodeTells
INVARIANTS ActiveSurvives
PROPERTIES  OutcomeIsReported
CHECK_DEADLOCK FALSE
