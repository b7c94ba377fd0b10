SPECIFICATION Spec
CONSTANTS
  ReconnectInterval = 2
  HeartbeatInterval = 2
  HeartbeatTimeout = 6
  FrameSize = 3
  MaxSilence = 4
  MaxCalm = 8
INVARIANTS UplinkInvariant HeartbeatsResume
PROPERTIES ReconnectIsPaced
