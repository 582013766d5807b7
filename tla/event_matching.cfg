\* Two hours and a half of twelve ticks each.
CONSTANTS
  None = None
  Events <- MCEvents
  Kind <- MCKind
  Key <- MCKey
  Tuple <- MCTuple
  Answers <- MCAnswers
  Probed <- MCProbed
  ProbeKey <- MCTuple
  Skew = 1
  ProbeTimeout = 2
  PhaseTimeout = 4
  LoadAhead = 6
  Hour = 12
  Groups = {{"i1", "r1", "a1", "a2"}, {"i1", "d1", "r1"}, {"i1", "i2", "r2", "r3"}, {"i1", "r1", "r2", "a2"}}
  Times = {11, 12, 16}
  Held = {0, 8}
  Delays = {2, 3}
  Fillers = {0, 18, 30}
  Others = {0, 12, 18, 24}
  Scenarios <- MCScenarios
SPECIFICATION Spec
INVARIANTS
  EveryEventInOnePlace
PROPERTY CheckpointMatchesAll
\* The logs end.
CHECK_DEADLOCK FALSE
