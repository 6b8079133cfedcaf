\* A mono request: frames of 2 bytes, reads of 4, windows of 2, every limit in force.
CONSTANTS
  Bodies <- MCBodies
  Prefetched = {0, 4}
  FrameBytes = 2
  ReadBytes = 4
  RecvBytes = 6
  WindowBytes = 2
  MaxChunk = 3
  MaxBody = 13
  Idle = 1
  Total = 2
  SendTimeout = 1
  Formats = {"sse", "audio"}
  MaxReply = 3
SPECIFICATION FairSpec
INVARIANTS TypeOK SinkFollowsLock ReplySaysHow
PROPERTIES DeadlineHolds IsAudioIntake RequestEnds
