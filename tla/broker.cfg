CONSTANTS
  Variants = {"driver", "broker"}
  Pieces = 2
  PipeRoom = 1
  MaxResults = 2
  MaxBad = 1
  NotifyRoom = 2
  NotifyRead = 2
  MaxMores = 1
  MaxLosses = 2
SPECIFICATION Spec
INVARIANTS
  InStep
  PiecesInOrder
PROPERTIES
  EveryResultRead
  Reconnects
CHECK_DEADLOCK FALSE
