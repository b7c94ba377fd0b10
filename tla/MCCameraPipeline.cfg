SPECIFICATION PipelineSpec
CONSTANTS
  Kinds = {"rpicam", "gstreamer"}
  MaxFrames = 2
  MaxRestarts = 2
  NoFrame = NoFrame
INVARIANTS PipelineInvariant FramesArePaired PidIsOfChild
INVARIANTS DropsWereComplete
PROPERTIES FailureIsRetried SettledShutdownEnds
CHECK_DEADLOCK FALSE
