\* Files of two lines; a probe is repeated once before it is given up.
CONSTANTS
  t1 = t1
  t2 = t2
  t3 = t3
  a1 = a1
  a2 = a2
  None = None
  Targets = {t1, t2, t3}
  Addr <- MCAddr
  Sport <- MCSport
  Dport <- MCDport
  Files <- MCFiles
  BatchSize = 1
  Threshold = 2
  Interval = 1
  Timeout = 2
  PipeCap = 1
  ReadChunk = 2
SPECIFICATION FairSpec
INVARIANTS
  NoLostWakeup
  EveryTargetOnce
PROPERTY EveryTargetReported
\* The tool stops if the capture cannot be started.
CHECK_DEADLOCK FALSE
