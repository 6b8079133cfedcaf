\* Three channels read 4 samples at a time, as 512 samples are by a policy that
\* counts samples and not frames.
CONSTANTS
  Bodies <- LongBodies
  Prefetched = {0}
  FrameBytes = 3
  ReadBytes = 4
  RecvBytes = 6
  WindowBytes = 8
  MaxChunk = 8
  MaxBody = 0
  Idle = 1
  Total = 2
  SendTimeout = 1
  Formats = {"sse"}
  MaxReply = 3
SPECIFICATION Spec
INVARIANT FedInOrder
