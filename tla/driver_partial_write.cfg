\* A write that the kernel cuts short and that is repeated from the start.
\* A command has two units, the socket buffers hold three, the pipe two bytes
\* and a notify read takes both: partial writes, a full pipe and one wake-up for
\* several messages all happen.
CONSTANTS
  MaxProbes = 2
  CmdSize = 2
  WireCap = 3
  LowWater = 1
  PipeCap = 2
  ReadChunk = 2
  Window = 2
SPECIFICATION Spec
INVARIANT OffsetWhileWriting
CHECK_DEADLOCK FALSE
