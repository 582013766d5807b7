\* Liveness of the driver: the kernel reports EPOLLOUT when a whole command
\* fits, as Linux does (a third of the send buffer is free).
\* A command has two units, the socket buffers hold three, the pipe one byte: a
\* second probe() blocks in its write until the loop has read the first one's
\* byte, and partial writes happen.
CONSTANTS
  MaxProbes = 2
  CmdSize = 2
  WireCap = 3
  LowWater = 2
  PipeCap = 1
  ReadChunk = 2
  Window = 2
SPECIFICATION FairSpec
PROPERTIES
  EveryProbeSent
  RunningLoopStops
CHECK_DEADLOCK FALSE
