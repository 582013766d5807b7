\* Safety of the driver: the kernel reports EPOLLOUT from one free unit on, so
\* writes are cut short.
\* A command has two units, the socket buffers hold three, the pipe two bytes
\* and a notify read takes both: partial writes, a full pipe and one wake-up for
\* several messages all happen.
CONSTANTS
  MaxProbes = 3
  CmdSize = 2
  WireCap = 3
  LowWater = 1
  PipeCap = 2
  ReadChunk = 2
  Window = 2
SPECIFICATION Spec
INVARIANTS
  WriteHasWork
  NoLostWakeup
  NoIdleCredit
  ExecutedOnceInOrder
PROPERTY ChannelSpec
\* The driver may be stopped for good.
CHECK_DEADLOCK FALSE
