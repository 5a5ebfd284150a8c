SPECIFICATION Spec
CONSTANTS
  Depth = 2
  Engines = {"libaio"}
  DeviceCnt = 2
  ChunkSize = 3
  Blocks = 2
  BlockPages = 2
  Ops = 2
  MayPause = FALSE
  none = none
CHECK_DEADLOCK FALSE
INVARIANT DataChecksPass
