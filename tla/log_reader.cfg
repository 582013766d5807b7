\* Three hours: two files can be open while a third one appears.
\* An hour is three ticks, so that 1h 5min and 1h 10min fall on ticks of their
\* own.
CONSTANTS
  Formats = {"csv", "json", "gzip", "swift"}
  Hours = 3
  Kinds = {"event", "junk", "bad", "odd"}
  MaxLines = 3
  MaxEntries = 3
  MaxFaults = 1
  Hour = 3
  SkipTime = 4
  Timeout = 5
  MaxBusy = 1
  MaxTime = 9
\* A reader that an exception has ended does nothing more.
CHECK_DEADLOCK FALSE
SPECIFICATION FairSpec
INVARIANT EachLineOnceInOrder
PROPERTY CatchesUp
