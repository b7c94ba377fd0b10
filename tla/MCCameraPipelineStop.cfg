SPECIFICATION PipelineSpec
CONSTANTS
  Kinds = {"rpicam"}
  MaxFrames = 1
  MaxRestarts = 0
  NoFrame = NoFrame
PROPERTY ShutdownEnds
CHECK_DEADLOCK FALSE
