SPECIFICATION FairLinkSpec
CONSTANTS
  Systems = {v1}
  NoSystem = NoSystem
  Streams = 2
  MaximumAttempts = 3
  AckTimeout = 2
  PromptLink = TRUE
  MaxSetups = 2
  AckOutcomes = {"accepted", "in_progress", "rejected"}
INVARIANT SetupInvariant
PROPERTY SetupEnds
