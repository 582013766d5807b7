\* Four packets of any kind in batches of two; the tags of a shard wrap around.
CONSTANTS
  NumShards = 2
  ShardId <- MCShardId
  LastByte <- MCLastByte
  Packets <- MCPackets
  MaxPackets = 4
  MaxTag = 3
  Threads = {t1}
  BatchSize = 2
  Configurations <- SomeDisabled
SPECIFICATION Spec
INVARIANTS
  OneProbePerTarget
  BlockedByItsProbe
  OneResetPerEndpoint
  ProbeFoundInLog
\* The threads may all stop.
CHECK_DEADLOCK FALSE
