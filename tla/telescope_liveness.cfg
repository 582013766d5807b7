\* Three packets of handshakes, sent on one by one as spoki does by default.
CONSTANTS
  NumShards = 2
  ShardId <- MCShardId
  LastByte <- MCLastByte
  Packets <- MCHandshakes
  MaxPackets = 3
  MaxTag = 2
  Threads = {t1}
  BatchSize = 1
  Configurations <- AllProtocols
SPECIFICATION FairSpec
PROPERTY NothingHeldForEver
CHECK_DEADLOCK FALSE
