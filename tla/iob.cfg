SPECIFICATION FairSpec
CONSTANTS
  Depth = 2
  Engines = {"libaio", "io_uring", "spdk", "xnvme"}
  DeviceCnt = 2
  ChunkSize = 2
  Blocks = 3
  BlockPages = 2
  Ops = 3
  MayPause = TRUE
  none = none
CHECK_DEADLOCK FALSE
INVARIANTS SlotsInOnePlace IdsInOnePlace CountersAgree QueuesSuffice DataChecksPass
PROPERTIES StopEnds ImplementsAsyncIo ImplementsGeneratorLife
