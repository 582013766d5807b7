\* A buffer and a sender that bypasses it, three lines each, and a crash.
\* Two lines fill a vector, three hours let one be skipped, and with three
\* lines a vector that came back is used again.
CONSTANTS
  Buffers = {b1}
  DirectSenders = {d}
  MaxLines = 3
  LastHour = 2
  MaxCrashes = 1
  Threshold = 1
SPECIFICATION Spec
INVARIANTS
  LineInItsFile
  EveryLineOnce
  BufferedLogsHaveHeader
PROPERTY RefusedOnlyWhenOld
\* All lines may be logged.
CHECK_DEADLOCK FALSE
